------------------------- MODULE RenderDeltaProofs -------------------------
(***************************************************************************)
(* Proofs about RenderDelta, for every set of keys and deltas and every    *)
(* value of the limits.                                                    *)
(***************************************************************************)
EXTENDS RenderDelta, FiniteSetTheorems, TLAPS

(***************************************************************************)
(* What one delta does to an overlay and to a drawing.                     *)
(***************************************************************************)

\* A delta takes a well-typed overlay to a well-typed overlay.
LEMMA ApplyType ==
    ASSUME NEW s \in StateType, NEW d \in Deltas
    PROVE  ApplyDeltaToState(s, d) \in StateType
BY DataAssumption
   DEF ApplyDeltaToState, StateType, DeltaType, Identities, Token

\* The retained part of an overlay with a delta applied is what a renderer
\* draws that is handed the delta: applyDeltaToState() and the adapter's
\* replay of a delta commute.
LEMMA ApplyIsDraw ==
    ASSUME NEW s, NEW d
    PROVE  SceneOf(ApplyDeltaToState(s, d)) = Draw(SceneOf(s), d)
BY DEF SceneOf, ApplyDeltaToState, Draw

\* Drawing a retained overlay is well typed.
LEMMA SceneOfType ==
    ASSUME NEW s \in StateType
    PROVE  SceneOf(s) \in SceneType
BY DEF SceneOf, StateType, SceneType

LEMMA DrawType ==
    ASSUME NEW c \in SceneType, NEW d \in Deltas
    PROVE  Draw(c, d) \in SceneType
BY DataAssumption DEF Draw, SceneType, DeltaType, Identities, Token

LEMMA EmptyType == EmptyState(BaseRevision) \in StateType
BY DataAssumption DEF EmptyState, StateType, Token

LEMMA BaseType == BaseScene \in SceneType
BY DataAssumption DEF BaseScene, SceneType, Token

LEMMA ClearedType ==
    ASSUME NEW s \in StateType
    PROVE  Cleared(s) \in StateType
BY DEF Cleared, StateType, Token

LEMMA NoPreviewType ==
    NoPreview \in [delta: Deltas \cup {NoDelta}, state: StateType]
BY EmptyType DEF NoPreview

\* One delta keeps removed and replaced entries apart.
LEMMA ApplyCoherent ==
    ASSUME NEW s \in StateType, NEW d \in Deltas, Coherent(s)
    PROVE  Coherent(ApplyDeltaToState(s, d))
<1>1. d.tombs \cap d.ups = {} /\ d.to \in Revisions
  BY DataAssumption DEF WellFormed, DeltaType
<1>2. d.to # NoToken
  BY <1>1, DataAssumption
<1> QED
  BY <1>1, <1>2 DEF Coherent, ApplyDeltaToState, Identities

LEMMA EmptyCoherent ==
    /\ Coherent(EmptyState(BaseRevision))
    /\ \A s \in StateType : Coherent(Cleared(s))
BY DEF Coherent, EmptyState, Cleared, StateType

\* Emptying an overlay keeps it within the limits it was in.
LEMMA EmptyWithin ==
    /\ WithinLimits(EmptyState(BaseRevision))
    /\ \A s \in StateType : WithinLimits(s) => WithinLimits(Cleared(s))
<1>1. Cardinality({}) = 0
  BY FS_EmptySet
<1>2. WithinLimits(EmptyState(BaseRevision))
  BY <1>1, LimitAssumption DEF WithinLimits, OverlayEntries, EmptyState
<1>3. ASSUME NEW s \in StateType, WithinLimits(s)
      PROVE  WithinLimits(Cleared(s))
  <2>1. /\ Cleared(s).tombs = {} /\ Cleared(s).ups = {}
        /\ Cleared(s).deps = {}
        /\ Cleared(s).count = s.count /\ Cleared(s).bytes = s.bytes
    BY DEF Cleared, StateType
  <2> QED
    BY <1>1, <1>3, <2>1, LimitAssumption DEF WithinLimits, OverlayEntries
<1> QED
  BY <1>2, <1>3

-----------------------------------------------------------------------------
(***************************************************************************)
(* Type correctness.                                                       *)
(***************************************************************************)

\* The operation in flight carries the delta it was called with and the
\* overlay that delta makes of the one it started from.
PendingWorked ==
    IF pending.phase = "none"
    THEN pending = NoPending
    ELSE /\ pending.delta \in Deltas
         /\ pending.delta.from = pending.baseline.rev
         /\ pending.next = ApplyDeltaToState(pending.baseline, pending.delta)
         /\ kind \in {"staged", "both"}

TypeInv == TypeOK /\ PendingWorked

LEMMA NoPendingType ==
    NoPending \in [delta: Deltas \cup {NoDelta}, baseline: StateType,
                   next: StateType, aborted: BOOLEAN, cleaned: BOOLEAN,
                   phase: Phases]
BY EmptyType DEF NoPending, Phases

LEMMA InitType == Init => TypeInv
<1> SUFFICES ASSUME Init
             PROVE  TypeInv
  OBVIOUS
<1>1. NoPending.phase = "none"
  BY DEF NoPending
<1>2. TypeOK
  BY EmptyType, BaseType, NoPreviewType, NoPendingType DEF Init, TypeOK
<1>3. PendingWorked
  BY <1>1 DEF Init, PendingWorked
<1> QED
  BY <1>2, <1>3 DEF TypeInv

\* Every step keeps every variable in its type, and the operation in flight
\* what it was started with.
LEMMA NextType == TypeInv /\ [Next]_vars => TypeInv'
<1> SUFFICES ASSUME TypeOK, PendingWorked, [Next]_vars
             PROVE  TypeInv'
  BY DEF TypeInv
<1> USE DEF TypeInv, TypeOK, PendingWorked
<1>1. ASSUME NEW d \in Deltas, ApplyCommitted(d)
      PROVE  TypeInv'
  BY <1>1, ApplyType, DrawType DEF ApplyCommitted, Show
<1>2. ASSUME NEW d \in Deltas, ApplyPreview(d)
      PROVE  TypeInv'
  BY <1>2, ApplyType, DrawType DEF ApplyPreview, Show
<1>3. ASSUME NEW d \in Deltas, ApplyCommittedAsync(d)
      PROVE  TypeInv'
  BY <1>3, ApplyType DEF ApplyCommittedAsync, Parses, Phases
<1>4. ASSUME NEW id, PromotePreview(id)
      PROVE  TypeInv'
  BY <1>4, NoPreviewType DEF PromotePreview, Show
<1>5. ASSUME NEW id, RollbackPreview(id)
      PROVE  TypeInv'
  BY <1>5, NoPreviewType DEF RollbackPreview, Show
<1>6. CASE Abort
  BY <1>6 DEF Abort, adapterVars
<1>7. CASE Dispose
  BY <1>7, ClearedType, NoPreviewType DEF Dispose
<1>8. CASE DisposeRefused
  BY <1>8 DEF DisposeRefused, controllerVars
<1>9. CASE DisposeAsync
  BY <1>9 DEF DisposeAsync, Idle, adapterVars
<1>10. CASE PrepareResolves
  BY <1>10 DEF PrepareResolves, adapterVars, Phases
<1>11. CASE PrepareRejects
  BY <1>11 DEF PrepareRejects, Phases
<1>12. CASE CommitStaged
  BY <1>12, DrawType DEF CommitStaged, Phases
<1>13. CASE GiveUpStaged
  BY <1>13 DEF GiveUpStaged, adapterVars, Phases
<1>14. ASSUME NEW ok \in BOOLEAN, RollbackStaged(ok)
       PROVE  TypeInv'
  BY <1>14 DEF RollbackStaged, adapterVars, Phases
<1>15. ASSUME NEW ok \in BOOLEAN, DisposeStaged(ok)
       PROVE  TypeInv'
  BY <1>15 DEF DisposeStaged, Phases
<1>16. CASE Settle
  BY <1>16, NoPendingType DEF Settle, adapterVars, NoPending
<1>17. CASE DisposeAdapter
  BY <1>17 DEF DisposeAdapter
<1>18. CASE FinishDispose
  BY <1>18, ClearedType, NoPreviewType DEF FinishDispose, adapterVars
<1>19. CASE UNCHANGED vars
  BY <1>19 DEF vars
<1> QED
  BY <1>1, <1>2, <1>3, <1>4, <1>5, <1>6, <1>7, <1>8, <1>9, <1>10, <1>11,
     <1>12, <1>13, <1>14, <1>15, <1>16, <1>17, <1>18, <1>19
     DEF Next, Calls, Reactions

\* Every variable of the controller and of the adapter keeps its type,
\* whatever the calls, the reactions and the failures of the adapter.
THEOREM TypeCorrect == Spec => []TypeOK
<1>1. TypeInv => TypeOK
  BY DEF TypeInv
<1> QED
  BY <1>1, InitType, NextType, PTL DEF Spec

-----------------------------------------------------------------------------
(***************************************************************************)
(* The inductive invariant.                                                *)
(***************************************************************************)

\* How far the disposal is, and what that rules out.
Lifecycle ==
    /\ closing <=> closer \in {"waiting", "adapter"}
    /\ closing => ~disposed
    /\ closer = "done" => disposed
    /\ closer = "adapter" => adapterDisposed
    /\ disposed => adapterDisposed
    /\ disposed \/ closer = "adapter" => Idle /\ staged # "held"
    /\ closer \in {"adapter", "done"} => staged = "free"

IInv ==
    /\ TypeInv
    /\ Lifecycle
    /\ StagedOwned
    /\ NothingOvertakesPreparation
    /\ ScreenAgrees

LEMMA InitInv == Init => IInv
BY InitType
   DEF Init, IInv, Lifecycle, StagedOwned, NothingOvertakesPreparation,
       ScreenAgrees, Drawing, View, Previewing, NoPreview, NoPending, Idle,
       SceneOf, EmptyState, BaseScene

LEMMA NextInv == IInv /\ [Next]_vars => IInv'
<1> SUFFICES ASSUME IInv, [Next]_vars
             PROVE  IInv'
  OBVIOUS
<1>0. TypeInv'
  BY NextType DEF IInv
<1> DEFINE Parts == /\ Lifecycle /\ StagedOwned
                    /\ NothingOvertakesPreparation /\ ScreenAgrees
<1> SUFFICES Parts'
  BY <1>0 DEF IInv
<1> USE DEF IInv, Lifecycle, StagedOwned, NothingOvertakesPreparation,
            ScreenAgrees, Drawing, View, Idle
<1>1. ASSUME NEW d \in Deltas, ApplyCommitted(d)
      PROVE  Parts'
  BY <1>1, ApplyIsDraw
     DEF ApplyCommitted, Show, Open, SyncAdapter, Previewing
<1>2. ASSUME NEW d \in Deltas, ApplyPreview(d)
      PROVE  Parts'
  <2>1. d # NoDelta
    BY LimitAssumption
  <2> QED
    BY <1>2, <2>1, ApplyIsDraw
       DEF ApplyPreview, Show, Open, SyncAdapter, Previewing
<1>3. ASSUME NEW d \in Deltas, ApplyCommittedAsync(d)
      PROVE  Parts'
  BY <1>3 DEF ApplyCommittedAsync, Open, Previewing
<1>4. ASSUME NEW id, PromotePreview(id)
      PROVE  Parts'
  BY <1>4 DEF PromotePreview, Show, Open, SyncAdapter, Previewing, NoPreview
<1>5. ASSUME NEW id, RollbackPreview(id)
      PROVE  Parts'
  BY <1>5 DEF RollbackPreview, Show, Open, SyncAdapter, Previewing, NoPreview
<1>6. CASE Abort
  BY <1>6 DEF Abort, adapterVars, Previewing, TypeInv, TypeOK
<1>7. CASE Dispose
  BY <1>7 DEF Dispose, Open, TypeInv, TypeOK
<1>8. CASE DisposeRefused
  BY <1>8 DEF DisposeRefused, Open, controllerVars, Previewing
<1>9. CASE DisposeAsync
  BY <1>9 DEF DisposeAsync, adapterVars, Previewing, TypeInv, TypeOK
<1>10. CASE PrepareResolves
  BY <1>10 DEF PrepareResolves, adapterVars, Previewing, TypeInv, TypeOK
<1>11. CASE PrepareRejects
  BY <1>11 DEF PrepareRejects, Previewing, TypeInv, TypeOK
<1>12. CASE CommitStaged
  BY <1>12, ApplyIsDraw
     DEF CommitStaged, StillCurrent, Open, Previewing, TypeInv, TypeOK,
         PendingWorked
<1>13. CASE GiveUpStaged
  BY <1>13 DEF GiveUpStaged, adapterVars, Previewing, TypeInv, TypeOK
<1>14. ASSUME NEW ok \in BOOLEAN, RollbackStaged(ok)
       PROVE  Parts'
  BY <1>14 DEF RollbackStaged, adapterVars, Previewing, TypeInv, TypeOK
<1>15. ASSUME NEW ok \in BOOLEAN, DisposeStaged(ok)
       PROVE  Parts'
  BY <1>15 DEF DisposeStaged, Previewing, TypeInv, TypeOK
<1>16. CASE Settle
  BY <1>16 DEF Settle, adapterVars, Previewing, NoPending
<1>17. CASE DisposeAdapter
  BY <1>17 DEF DisposeAdapter, Previewing, TypeInv, TypeOK
<1>18. CASE FinishDispose
  BY <1>18 DEF FinishDispose, adapterVars, TypeInv, TypeOK
<1>19. CASE UNCHANGED vars
  BY <1>19 DEF vars, Previewing
<1> QED
  BY <1>1, <1>2, <1>3, <1>4, <1>5, <1>6, <1>7, <1>8, <1>9, <1>10, <1>11,
     <1>12, <1>13, <1>14, <1>15, <1>16, <1>17, <1>18, <1>19
     DEF Next, Calls, Reactions

LEMMA Invariance == Spec => []IInv
BY InitInv, NextInv, PTL DEF Spec

\* The renderer shows the overlay that picks and lookups are answered from,
\* and would fall back to the committed one.
THEOREM ScreenAgreement == Spec => []ScreenAgrees
BY Invariance, PTL DEF IInv

\* Whatever fails, the resources of a prepared transaction belong to the
\* operation that is still running.
THEOREM StagedOwnership == Spec => []StagedOwned
BY Invariance, PTL DEF IInv

\* No call overtakes a preparation in flight.
THEOREM NoOvertaking == Spec => []NothingOvertakesPreparation
BY Invariance, PTL DEF IInv

\* A step that changes what the renderer shows is neither a late commit of
\* an aborted preparation nor one after disposal began.
LEMMA StepNoCommit ==
    ASSUME IInv, [Next]_vars
    PROVE  [ (pending.aborted \/ closing \/ disposed) =>
                 UNCHANGED <<screen, screenBase>> ]_<<screen, screenBase>>
<1>1. Idle => ~pending.aborted
  BY DEF IInv, TypeInv, PendingWorked, Idle, NoPending
<1>2. ASSUME NEW d \in Deltas, ApplyCommitted(d) \/ ApplyPreview(d)
      PROVE  ~(pending.aborted \/ closing \/ disposed)
  BY <1>1, <1>2 DEF ApplyCommitted, ApplyPreview, Open
<1>3. ASSUME NEW id, PromotePreview(id) \/ RollbackPreview(id)
      PROVE  ~(pending.aborted \/ closing \/ disposed)
  BY <1>1, <1>3 DEF PromotePreview, RollbackPreview, Open
<1>4. ASSUME CommitStaged
      PROVE  ~(pending.aborted \/ closing \/ disposed)
  BY <1>4 DEF CommitStaged, StillCurrent, Open
<1>5. ASSUME NEW d \in Deltas, ApplyCommittedAsync(d)
      PROVE  UNCHANGED <<screen, screenBase>>
  BY <1>5 DEF ApplyCommittedAsync
<1>6. ASSUME \/ Abort \/ Dispose \/ DisposeRefused \/ DisposeAsync
             \/ PrepareResolves \/ PrepareRejects \/ GiveUpStaged
             \/ Settle \/ DisposeAdapter \/ FinishDispose
             \/ UNCHANGED vars
      PROVE  UNCHANGED <<screen, screenBase>>
  BY <1>6 DEF Abort, Dispose, DisposeRefused, DisposeAsync, PrepareResolves,
       PrepareRejects, GiveUpStaged, Settle, DisposeAdapter, FinishDispose,
       adapterVars, vars
<1>7. ASSUME NEW ok \in BOOLEAN, RollbackStaged(ok) \/ DisposeStaged(ok)
      PROVE  UNCHANGED <<screen, screenBase>>
  BY <1>7 DEF RollbackStaged, DisposeStaged, adapterVars
<1> QED
  BY <1>2, <1>3, <1>4, <1>5, <1>6, <1>7 DEF Next, Calls, Reactions

\* After an abort or the start of disposal a preparation that completes all
\* the same does not reach the scene.
THEOREM CancelIsFinal == Spec => NoCommitAfterCancel
<1>1. IInv /\ [Next]_vars =>
        [ (pending.aborted \/ closing \/ disposed) =>
              UNCHANGED <<screen, screenBase>> ]_<<screen, screenBase>>
  BY StepNoCommit
<1> QED
  BY <1>1, Invariance, PTL DEF Spec, NoCommitAfterCancel

-----------------------------------------------------------------------------
(***************************************************************************)
(* The overlays themselves: coherent, and inside the limits.               *)
(***************************************************************************)

Good(s) == Coherent(s) /\ WithinLimits(s)

\* Everything that is retained, or waits to be.
GoodOverlays == Good(committed) /\ Good(preview.state) /\ Good(pending.next)

LEMMA GoodConstants ==
    /\ Good(EmptyState(BaseRevision))
    /\ Good(NoPreview.state) /\ Good(NoPending.next)
    /\ \A s \in StateType : Good(s) => Good(Cleared(s))
BY EmptyCoherent, EmptyWithin DEF Good, NoPreview, NoPending

LEMMA NextGood == GoodOverlays /\ TypeInv /\ [Next]_vars => GoodOverlays'
<1> SUFFICES ASSUME GoodOverlays, TypeOK, PendingWorked, [Next]_vars
             PROVE  GoodOverlays'
  BY DEF TypeInv
<1>c. committed \in StateType
  BY DEF TypeOK
<1> USE DEF GoodOverlays
<1>0. ASSUME NEW d \in Deltas,
             WithinLimits(ApplyDeltaToState(committed, d))
      PROVE  Good(ApplyDeltaToState(committed, d))
  BY <1>0, <1>c, ApplyCoherent DEF Good
<1>1. ASSUME NEW d \in Deltas, ApplyCommitted(d)
      PROVE  GoodOverlays'
  BY <1>0, <1>1 DEF ApplyCommitted
<1>2. ASSUME NEW d \in Deltas, ApplyPreview(d)
      PROVE  GoodOverlays'
  BY <1>0, <1>2 DEF ApplyPreview
<1>3. ASSUME NEW d \in Deltas, ApplyCommittedAsync(d)
      PROVE  GoodOverlays'
  BY <1>0, <1>3 DEF ApplyCommittedAsync
<1>4. ASSUME NEW id, PromotePreview(id) \/ RollbackPreview(id)
      PROVE  GoodOverlays'
  BY <1>4, GoodConstants DEF PromotePreview, RollbackPreview
<1>5. CASE Dispose \/ FinishDispose
  BY <1>5, <1>c, GoodConstants DEF Dispose, FinishDispose
<1>6. CASE Settle
  BY <1>6, GoodConstants DEF Settle
<1>7. CASE CommitStaged
  BY <1>7 DEF CommitStaged, TypeOK
<1>8. CASE \/ Abort \/ DisposeRefused \/ DisposeAsync
           \/ PrepareResolves \/ PrepareRejects \/ GiveUpStaged
           \/ DisposeAdapter \/ UNCHANGED vars
  BY <1>8 DEF Abort, DisposeRefused, DisposeAsync, PrepareResolves,
       PrepareRejects, GiveUpStaged, DisposeAdapter, controllerVars, vars,
       TypeOK
<1>9. ASSUME NEW ok \in BOOLEAN, RollbackStaged(ok) \/ DisposeStaged(ok)
      PROVE  GoodOverlays'
  BY <1>9 DEF RollbackStaged, DisposeStaged, TypeOK
<1> QED
  BY <1>1, <1>2, <1>3, <1>4, <1>5, <1>6, <1>7, <1>8, <1>9
     DEF Next, Calls, Reactions

LEMMA OverlaysStayGood == Spec => []GoodOverlays
<1>1. Init => GoodOverlays
  BY GoodConstants DEF Init, GoodOverlays
<1> QED
  BY <1>1, InitType, NextType, NextGood, PTL DEF Spec

\* No entry is both removed and replaced, and the identities are those of
\* the replaced entries.
THEOREM Coherence == Spec => []OverlayCoherent
<1>1. GoodOverlays => OverlayCoherent
  BY DEF GoodOverlays, Good, OverlayCoherent, View
<1> QED
  BY <1>1, OverlaysStayGood, PTL

\* What is retained never exceeds the hard limits.
THEOREM Retention == Spec => []RetentionBounded
<1>1. GoodOverlays => RetentionBounded
  BY DEF GoodOverlays, Good, RetentionBounded, View
<1> QED
  BY <1>1, OverlaysStayGood, PTL

-----------------------------------------------------------------------------
(***************************************************************************)
(* Refinement.                                                             *)
(***************************************************************************)

\* The two variables of the atomic scene, read off the controller alone:
\* ScreenAgrees makes them the same as what the renderer shows.
StableScene == IF disposed THEN BaseScene ELSE SceneOf(committed)
ShownScene == IF disposed THEN BaseScene
              ELSE IF Drawing THEN screen ELSE SceneOf(View)

LEMMA ShownIsView ==
    IInv => ShownScene = IF disposed THEN BaseScene ELSE SceneOf(View)
BY DEF IInv, ScreenAgrees, ShownScene

\* The instance draws as this module does.
LEMMA SameDraw ==
    /\ Scene!BaseScene = BaseScene
    /\ \A c, d : Scene!Draw(c, d) = Draw(c, d)
BY DEF Scene!BaseScene, BaseScene, Scene!Draw, Draw, Scene!Identities,
       Identities

\* The five ways a step of the controller can be one of the atomic scene,
\* and the one in which it is none.
LEMMA IsAdvance ==
    ASSUME NEW d \in Deltas, ~disposed, ~disposed', ShownScene = StableScene,
           d.from = StableScene.rev,
           StableScene' = Draw(StableScene, d), ShownScene' = StableScene'
    PROVE  Scene!Next
BY SameDraw
   DEF Scene!Next, Scene!Advance, Scene!Extends, StableScene, ShownScene

LEMMA IsShow ==
    ASSUME NEW d \in Deltas, ~disposed, ~disposed', ShownScene = StableScene,
           d.from = StableScene.rev,
           ShownScene' = Draw(StableScene, d), StableScene' = StableScene
    PROVE  Scene!Next
BY SameDraw
   DEF Scene!Next, Scene!Show, Scene!Extends, StableScene, ShownScene

LEMMA IsKeep ==
    ASSUME ~disposed, ~disposed', StableScene' = ShownScene,
           ShownScene' = ShownScene
    PROVE  Scene!Next
BY DEF Scene!Next, Scene!Keep, StableScene, ShownScene

LEMMA IsTakeBack ==
    ASSUME ~disposed, ~disposed', ShownScene' = StableScene,
           StableScene' = StableScene
    PROVE  Scene!Next
BY DEF Scene!Next, Scene!TakeBack, StableScene, ShownScene

LEMMA IsClose ==
    ASSUME ~disposed, disposed'
    PROVE  Scene!Next
BY SameDraw DEF Scene!Next, Scene!Close

LEMMA IsStutter ==
    ASSUME disposed' = disposed, StableScene' = StableScene,
           ShownScene' = ShownScene
    PROVE  UNCHANGED Scene!vars
BY DEF Scene!vars, StableScene, ShownScene

\* Every step of the controller is a step of the atomic scene or leaves it
\* alone.
LEMMA StepRefines ==
    IInv /\ IInv' /\ [Next]_vars => [Scene!Next]_(Scene!vars)
<1> SUFFICES ASSUME IInv, IInv', [Next]_vars
             PROVE  Scene!Next \/ UNCHANGED Scene!vars
  OBVIOUS
<1>a. ShownScene = IF disposed THEN BaseScene ELSE SceneOf(View)
  BY ShownIsView
<1>b. ShownScene' = IF disposed' THEN BaseScene ELSE SceneOf(View)'
  BY DEF IInv, ScreenAgrees, ShownScene
<1>c. committed.rev = SceneOf(committed).rev
  BY DEF SceneOf
<1> USE DEF StableScene
<1>1. ASSUME NEW d \in Deltas, ApplyCommitted(d)
      PROVE  Scene!Next
  <2>1. /\ ~disposed /\ ~disposed' /\ ~Previewing /\ ~Previewing'
        /\ d.from = committed.rev
        /\ committed' = ApplyDeltaToState(committed, d)
    BY <1>1 DEF ApplyCommitted, Open, Parses, Previewing
  <2> QED
    BY <1>a, <1>b, <1>c, <2>1, ApplyIsDraw, IsAdvance DEF View
<1>2. ASSUME NEW d \in Deltas, ApplyPreview(d)
      PROVE  Scene!Next
  <2>1. /\ ~disposed /\ ~disposed' /\ ~Previewing /\ Previewing'
        /\ d.from = committed.rev /\ committed' = committed
        /\ preview'.state = ApplyDeltaToState(committed, d)
    BY <1>2, LimitAssumption DEF ApplyPreview, Open, Parses, Previewing
  <2> QED
    BY <1>a, <1>b, <1>c, <2>1, ApplyIsDraw, IsShow DEF View
<1>3. ASSUME NEW id, PromotePreview(id)
      PROVE  Scene!Next
  <2>1. /\ ~disposed /\ ~disposed' /\ Previewing /\ ~Previewing'
        /\ committed' = preview.state
    BY <1>3 DEF PromotePreview, Open, Previewing, NoPreview
  <2> QED
    BY <1>a, <1>b, <2>1, IsKeep DEF View
<1>4. ASSUME NEW id, RollbackPreview(id)
      PROVE  Scene!Next
  <2>1. /\ ~disposed /\ ~disposed' /\ Previewing /\ ~Previewing'
        /\ committed' = committed
    BY <1>4 DEF RollbackPreview, Open, Previewing, NoPreview
  <2> QED
    BY <1>a, <1>b, <2>1, IsTakeBack DEF View
<1>5. CASE CommitStaged
  <2>1. /\ ~disposed /\ ~disposed' /\ ~Previewing /\ ~Previewing'
        /\ pending.delta \in Deltas /\ pending.delta.from = committed.rev
        /\ committed' = ApplyDeltaToState(committed, pending.delta)
    BY <1>5 DEF CommitStaged, StillCurrent, Open, Previewing, IInv, TypeInv,
                PendingWorked
  <2> QED
    BY <1>a, <1>b, <1>c, <2>1, ApplyIsDraw, IsAdvance DEF View
<1>6. CASE Dispose \/ FinishDispose
  <2>1. ~disposed /\ disposed'
    BY <1>6 DEF Dispose, FinishDispose, Open, IInv, Lifecycle
  <2> QED
    BY <2>1, IsClose
<1>7. ASSUME UNCHANGED <<committed, preview, disposed>>
      PROVE  UNCHANGED Scene!vars
  <2>1. ShownScene' = ShownScene /\ StableScene' = StableScene
    BY <1>7, <1>a, <1>b DEF View, Previewing
  <2> QED
    BY <1>7, <2>1, IsStutter
<1>8. ASSUME NEW d \in Deltas, ApplyCommittedAsync(d)
      PROVE  UNCHANGED <<committed, preview, disposed>>
  BY <1>8 DEF ApplyCommittedAsync
<1>9. ASSUME NEW ok \in BOOLEAN, RollbackStaged(ok) \/ DisposeStaged(ok)
      PROVE  UNCHANGED <<committed, preview, disposed>>
  BY <1>9 DEF RollbackStaged, DisposeStaged
<1>10. ASSUME \/ Abort \/ DisposeRefused \/ DisposeAsync
              \/ PrepareResolves \/ PrepareRejects \/ GiveUpStaged
              \/ Settle \/ DisposeAdapter \/ UNCHANGED vars
       PROVE  UNCHANGED <<committed, preview, disposed>>
  BY <1>10 DEF Abort, DisposeRefused, DisposeAsync, PrepareResolves,
       PrepareRejects, GiveUpStaged, Settle, DisposeAdapter, controllerVars,
       vars
<1> QED
  BY <1>1, <1>2, <1>3, <1>4, <1>5, <1>6, <1>7, <1>8, <1>9, <1>10
     DEF Next, Calls, Reactions

\* With every delta, preview, promotion, rollback, asynchronous preparation,
\* abort, failure and disposal, the controller and its renderer are an
\* atomic scene: each change a viewer can see is one whole delta.
THEOREM Refinement == Spec => ImplementsAtomicScene
<1>1. Init => Scene!Init
  BY SameDraw DEF Init, Scene!Init, Drawing, View, Previewing, NoPreview, SceneOf,
         EmptyState, BaseScene
<1> QED
  BY <1>1, StepRefines, Invariance, PTL
     DEF Spec, ImplementsAtomicScene, Scene!Spec
=============================================================================
