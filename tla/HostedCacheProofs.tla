-------------------------- MODULE HostedCacheProofs --------------------------
(* However many caches are opened, a superseded opening never takes the     *)
(* screen: LatestIsShown of ViewerOpening, proved from an inductive         *)
(* invariant. HostedCache adds the transport of ranges to the openings; it  *)
(* takes no step of its own with them, so that what is proved of the        *)
(* openings holds of the composition.                                       *)
EXTENDS HostedCache, TLAPS

-----------------------------------------------------------------------------
(* The inductive invariant. LatestIsShown says nothing of a step in which   *)
(* an opening looks at its revision, and little of what is held meanwhile.  *)

\* The openings that have begun are those up to the current revision.
Begun == \A o \in Revisions : At(o, "none") <=> o > openRevision

\* An opening holds its resources until its runtime is open, and without a renderer its
\* source for good; beside them only the active runtime holds any.
Holders ==
  /\ \A o \in Revisions : stage[o] \in Opening \cup {"thrown"} => o \in held
  /\ \A o \in held : stage[o] \in Opening \cup {"thrown"} \/ o = activeRuntime

\* The scene is that of the active runtime, which is the current opening past its mount.
ActiveIsCurrent ==
  /\ activeScene = activeRuntime
  /\ activeRuntime # 0 =>
       /\ activeRuntime = openRevision /\ activeRuntime \in held
       /\ stage[activeRuntime] \in {"masks", "shown"}

\* What the current opening has reached is what is active: its runtime from the mount on,
\* and its interaction when it is shown and not before.
CurrentIsActive ==
  /\ \A o \in Revisions : ~Stale(o) /\ stage[o] \in {"masks", "shown"} => activeRuntime = o
  /\ \A o \in Revisions : ~Stale(o) /\ At(o, "shown") => activeInteraction = o
  /\ activeInteraction # 0 =>
       activeInteraction = activeRuntime /\ At(activeInteraction, "shown")

OpeningInv == OpeningTypeOK /\ Begun /\ Holders /\ ActiveIsCurrent /\ CurrentIsActive

-----------------------------------------------------------------------------
\* Before anything is opened the invariant holds.
LEMMA InitOpeningInv == OpeningInit => OpeningInv
BY MaxOpeningsAssumption
DEF OpeningInit, OpeningInv, OpeningTypeOK, Begun, Holders, ActiveIsCurrent, CurrentIsActive,
    Revisions, Opening, Ended, At, Stale

\* Every step of openCache(), and the end of the page, keeps the invariant.
LEMMA NextOpeningInv == OpeningInv /\ [OpeningNext]_openingVars => OpeningInv'
<1> SUFFICES ASSUME OpeningInv, [OpeningNext]_openingVars
             PROVE  OpeningInv'
  OBVIOUS
<1> USE MaxOpeningsAssumption
    DEF OpeningInv, OpeningTypeOK, Begun, Holders, ActiveIsCurrent, CurrentIsActive,
        Revisions, Opening, Ended, At, Goto, Stale, active
<1>1. ASSUME NEW there \in {"session", "thrown"}, OpenTo(there) PROVE OpeningInv'
  <2>1. openRevision' \in Revisions /\ openRevision' = openRevision + 1
    BY <1>1 DEF OpenTo
  <2>2. stage' = [stage EXCEPT ![openRevision'] = there]
    BY <1>1 DEF OpenTo
  <2>3. OpeningTypeOK'
    <3>1. stage' \in [Revisions -> Opening \cup {"masks"} \cup Ended]
      BY <1>1, <2>1, <2>2 DEF OpenTo
    <3>2. held' \subseteq Revisions
      BY <1>1, <2>1, <2>2 DEF OpenTo
    <3> QED BY <3>1, <3>2, <1>1, <2>1, <2>2 DEF OpenTo
  <2>4. Begun' /\ Holders'
    BY <1>1, <2>1, <2>2 DEF OpenTo
  <2>5. ActiveIsCurrent' /\ CurrentIsActive'
    BY <1>1, <2>1, <2>2 DEF OpenTo
  <2> QED BY <2>3, <2>4, <2>5
<1>2. CASE PageGone
  BY <1>2 DEF PageGone
<1>3. ASSUME NEW o \in Revisions, SessionOpened(o) PROVE OpeningInv'
  BY <1>3 DEF SessionOpened
<1>4. ASSUME NEW o \in Revisions, SnapshotRead(o) PROVE OpeningInv'
  BY <1>4 DEF SnapshotRead
<1>5. ASSUME NEW o \in Revisions, OpeningFails(o) PROVE OpeningInv'
  BY <1>5 DEF OpeningFails, Fails, Release
<1>6. ASSUME NEW o \in Revisions, Mounted(o) PROVE OpeningInv'
  <2>1. CASE Stale(o)
    <3>1. OpeningTypeOK'
      <4>1. stage' \in [Revisions -> Opening \cup {"masks"} \cup Ended]
        BY <1>6, <2>1 DEF Mounted
      <4>2. held' \subseteq Revisions
        BY <1>6, <2>1 DEF Mounted
      <4> QED BY <4>1, <4>2, <1>6, <2>1 DEF Mounted
    <3>2. Begun'
      BY <1>6, <2>1 DEF Mounted
    <3>3. Holders'
      BY <1>6, <2>1 DEF Mounted
    <3>4. ActiveIsCurrent' /\ CurrentIsActive'
      BY <1>6, <2>1 DEF Mounted
    <3> QED BY <3>1, <3>2, <3>3, <3>4
  <2>2. CASE ~Stale(o)
    <3>1. OpeningTypeOK' /\ Begun'
      BY ZenonT(40), <1>6, <2>2 DEF Mounted
    <3>2. Holders'
      <4>1. held' = held /\ activeRuntime' = o /\ o \in held
        BY <1>6, <2>2 DEF Mounted
      <4>2. ASSUME NEW p \in Revisions, p # o PROVE stage'[p] = stage[p] /\ p # activeRuntime
        BY <1>6, <2>2, <4>2 DEF Mounted
      <4>3. stage'[o] = "masks"
        BY <1>6, <2>2 DEF Mounted
      <4> QED BY <4>1, <4>2, <4>3
    <3>3. ActiveIsCurrent' /\ CurrentIsActive'
      BY <1>6, <2>2 DEF Mounted
    <3> QED BY <3>1, <3>2, <3>3
  <2> QED BY <1>6, <2>1, <2>2 DEF Mounted
<1>7. ASSUME NEW o \in Revisions, MasksRead(o) PROVE OpeningInv'
  <2>1. CASE Stale(o) \/ activeScene # o
    <3>1. OpeningTypeOK'
      <4>1. stage' \in [Revisions -> Opening \cup {"masks"} \cup Ended]
        BY <1>7, <2>1 DEF MasksRead, Release
      <4>2. held' \subseteq Revisions
        BY <1>7, <2>1 DEF MasksRead, Release
      <4> QED BY <4>1, <4>2, <1>7, <2>1 DEF MasksRead, Release
    <3>2. Begun'
      BY <1>7, <2>1 DEF MasksRead, Release
    <3>3. Holders'
      BY <1>7, <2>1 DEF MasksRead, Release
    <3>4. ActiveIsCurrent' /\ CurrentIsActive'
      BY <1>7, <2>1 DEF MasksRead, Release
    <3> QED BY <3>1, <3>2, <3>3, <3>4
  <2>2. CASE ~Stale(o) /\ activeScene = o
    <3>1. OpeningTypeOK' /\ Begun'
      BY <1>7, <2>2 DEF MasksRead, Release
    <3>2. Holders'
      BY <1>7, <2>2 DEF MasksRead, Release
    <3>3. ActiveIsCurrent' /\ CurrentIsActive'
      BY <1>7, <2>2 DEF MasksRead, Release
    <3> QED BY <3>1, <3>2, <3>3
  <2> QED BY <1>7, <2>1, <2>2 DEF MasksRead, Release
<1>8. ASSUME NEW o \in Revisions, ShowFails(o) PROVE OpeningInv'
  BY <1>8 DEF ShowFails, Fails, Release
<1>9. CASE UNCHANGED openingVars
  BY <1>9 DEF openingVars
<1> HIDE DEF OpeningInv, OpeningTypeOK, Begun, Holders, ActiveIsCurrent, CurrentIsActive
<1> QED
  BY <1>1, <1>2, <1>3, <1>4, <1>5, <1>6, <1>7, <1>8, <1>9 DEF OpeningNext, Open, RendererThrows

\* The invariant implies what is claimed of the screen.
LEMMA OpeningInvImpliesLatest == OpeningInv => LatestIsShown
<1> SUFFICES ASSUME OpeningInv PROVE LatestIsShown
  OBVIOUS
<1> USE MaxOpeningsAssumption
    DEF OpeningInv, OpeningTypeOK, Begun, Holders, ActiveIsCurrent, CurrentIsActive,
        Revisions, Opening, Ended, At, Stale, active
<1>1. activeRuntime # 0 => activeRuntime = openRevision /\ activeRuntime \in held
  OBVIOUS
<1>2. activeInteraction # 0 => activeInteraction = activeRuntime /\ activeScene = activeRuntime
  OBVIOUS
<1>3. ASSUME \A o \in Revisions : stage[o] \in Ended, openRevision # 0
      PROVE  IF At(openRevision, "shown")
             THEN activeInteraction = openRevision /\ held = {openRevision} \cup Thrown
             ELSE active = <<0, 0, 0>> /\ held = Thrown
  <2>1. openRevision \in Revisions
    BY <1>3
  <2>2. Thrown \subseteq held /\ \A o \in held : o \in Thrown \/ o = activeRuntime
    BY <1>3 DEF Thrown
  <2>3. CASE At(openRevision, "shown")
    <3>1. activeInteraction = openRevision /\ activeRuntime = openRevision
      BY <2>1, <2>3
    <3>2. openRevision \in held
      BY <1>1, <2>1, <3>1
    <3> QED BY <2>2, <2>3, <3>1, <3>2
  <2>4. CASE ~At(openRevision, "shown")
    <3>1. activeRuntime = 0
      BY <1>1, <1>3, <2>1, <2>4
    <3>2. \A o \in held : o \in Thrown
      BY <2>2, <3>1
    <3>3. held = Thrown
      BY <2>2, <3>2
    <3>4. active = <<0, 0, 0>>
      BY <1>2, <3>1
    <3> QED BY <2>4, <3>3, <3>4
  <2> QED BY <2>3, <2>4
<1> QED BY <1>1, <1>2, <1>3 DEF LatestIsShown

\* Whatever overtakes what among any number of openings of the webview: a superseded one
\* never takes the screen, and when all have ended only the last one holds anything, and
\* those whose renderer could not be made their sources.
THEOREM OpeningsShowLatest == OpeningSpec => []LatestIsShown
<1>1. OpeningSpec => []OpeningInv
  BY InitOpeningInv, NextOpeningInv, PTL DEF OpeningSpec
<1> QED BY <1>1, OpeningInvImpliesLatest, PTL

-----------------------------------------------------------------------------
\* A step of the composition is a step of the openings, or leaves them alone.
LEMMA NextIsOpeningNext == [Next]_vars => [OpeningNext]_openingVars
<1> SUFFICES ASSUME [Next]_vars PROVE [OpeningNext]_openingVars
  OBVIOUS
<1>1. CASE OpenCache
  BY <1>1 DEF OpenCache, OpeningNext
<1>2. CASE HidePage
  BY <1>2 DEF HidePage, OpeningNext
<1>3. ASSUME NEW o \in Revisions, OpeningStep(o) PROVE [OpeningNext]_openingVars
  BY <1>3 DEF OpeningStep, SessionOpens, ReadSnapshot, SnapshotIsRead, SnapshotFails,
              OtherStepFails, IsMounted, ReadMasks, ShowScene, SceneFails, OpeningNext
<1>4. CASE UNCHANGED openingVars
  BY <1>4
<1>5. CASE ShownAgain \/ Delivered \/ Requested \/ Refused \/ ReadEnded \/ SlotFreed
           \/ Closed \/ Reopened
  BY <1>5 DEF ShownAgain, Delivered, Requested, Refused, ReadEnded, SlotFreed, Closed, Reopened
<1> QED BY <1>1, <1>2, <1>3, <1>4, <1>5 DEF Next, vars

\* The composition implements the openings by themselves: what the transport refuses, loses
\* or answers late only decides which of their steps are taken.
THEOREM HostedOpenings == Spec => OpeningSpec
<1>1. Init => OpeningInit
  BY DEF Init
<1> QED BY <1>1, NextIsOpeningNext, PTL DEF Spec, OpeningSpec

\* The screen shows the last opening also when its ranges are read through the channels of
\* the extension.
THEOREM HostedShowsLatest == Spec => []LatestIsShown
BY HostedOpenings, OpeningsShowLatest, PTL
=============================================================================
