---------------------------- MODULE ViewerOpening ----------------------------
(* The webview opens a cache while an earlier one is shown or still opening. *)
(*                                                                          *)
(* openCache() of the webview's main module takes the next revision, has    *)
(* the runtime that is active disposed, lets openViewerRuntime() open the   *)
(* session of the source, read its snapshot and mount the presentation, and *)
(* shows the scene. Nothing stops an opening that has been superseded: it   *)
(* finds out by itself, when the runtime is open and when the draw order    *)
(* has been read.                                                           *)
(*                                                                          *)
(* A disposal is not split: those of the renderer, the session and the      *)
(* source of a drawing run in the turn in which they are asked for.         *)
EXTENDS Naturals

CONSTANT MaxOpenings   \* the most openings of a behaviour

ASSUME MaxOpeningsAssumption == MaxOpenings \in Nat

VARIABLES
  openRevision,   \* how many openings have begun; the last one is current
  stage,          \* per revision: where its openCache() stands
  held,           \* the revisions whose source, session or renderer are not disposed
  activeRuntime, activeScene, activeInteraction   \* a revision, or 0

active      == <<activeRuntime, activeScene, activeInteraction>>
openingVars == <<openRevision, stage, held, active>>

Revisions == 1 .. MaxOpenings
Opening   == {"session", "snapshot", "mount"}
Ended     == {"none", "shown", "failed", "discarded", "thrown", "gone"}

At(o, here)    == stage[o] = here
Goto(o, there) == stage' = [stage EXCEPT ![o] = there]
Stale(o)       == o # openRevision
\* A runtime that is disposed is not the active one any more.
Release(o) ==
  /\ held' = held \ {o}
  /\ activeRuntime' = IF activeRuntime = o THEN 0 ELSE activeRuntime

OpeningInit ==
  /\ openRevision = 0 /\ stage = [o \in Revisions |-> "none"] /\ held = {}
  /\ activeRuntime = 0 /\ activeScene = 0 /\ activeInteraction = 0

-----------------------------------------------------------------------------
\* openCache() up to the renderer: what is active is disposed. The new opening holds its
\* source, and where it goes depends on the renderer.
OpenTo(there) ==
  /\ openRevision < MaxOpenings
  /\ openRevision' = openRevision + 1
  /\ Goto(openRevision', there)
  /\ held' = (held \ {activeRuntime}) \cup {openRevision'}
  /\ activeRuntime' = 0 /\ activeScene' = 0 /\ activeInteraction' = 0

\* The renderer is made, and openViewerRuntime() begins.
Open == OpenTo("session")

\* The constructor of the renderer throws, before the try of openCache(): nobody disposes
\* the source. The caller of openCache() only reports the error.
RendererThrows == OpenTo("thrown")

\* openViewerRuntime(): openRenderSource() and getSnapshot() have answered.
SessionOpened(o) == At(o, "session") /\ Goto(o, "snapshot") /\ UNCHANGED <<openRevision, held, active>>
SnapshotRead(o)  == At(o, "snapshot") /\ Goto(o, "mount") /\ UNCHANGED <<openRevision, held, active>>

\* The catch of openCache(): everything is disposed. The scene is only taken away, and the
\* error shown, when no other opening has begun since.
Fails(o) ==
  /\ Release(o)
  /\ Goto(o, "failed")
  /\ IF Stale(o) THEN UNCHANGED <<activeScene, activeInteraction>>
     ELSE activeScene' = 0 /\ activeInteraction' = 0
  /\ UNCHANGED openRevision

\* A step of openViewerRuntime() fails; it disposes what it has opened.
OpeningFails(o) == stage[o] \in Opening /\ Fails(o)

\* The runtime is open. Only the current revision goes on, any other disposes it.
Mounted(o) ==
  /\ At(o, "mount")
  /\ \/ /\ Stale(o)
        /\ held' = held \ {o}
        /\ Goto(o, "discarded")
        /\ UNCHANGED active
     \/ /\ ~Stale(o)
        /\ activeRuntime' = o /\ activeScene' = o
        /\ Goto(o, "masks")
        /\ UNCHANGED <<held, activeInteraction>>
  /\ UNCHANGED openRevision

\* Mutant: the opening goes on without a look at the revision.
MasksReadAnyway(o) ==
  /\ At(o, "masks")
  /\ activeInteraction' = o
  /\ Goto(o, "shown")
  /\ UNCHANGED <<openRevision, held, activeRuntime, activeScene>>

\* The draw order has been read, or could not be. The interaction is installed, unless
\* another opening has begun since: then this one only ends.
MasksRead(o) ==
  /\ At(o, "masks")
  /\ \/ /\ Stale(o) \/ activeScene # o
        /\ Release(o)
        /\ Goto(o, "discarded")
        /\ UNCHANGED activeInteraction
     \/ /\ ~Stale(o) /\ activeScene = o
        /\ activeInteraction' = o
        /\ Goto(o, "shown")
        /\ UNCHANGED <<held, activeRuntime>>
  /\ UNCHANGED <<openRevision, activeScene>>

\* Showing the scene throws.
ShowFails(o) == At(o, "masks") /\ ~Stale(o) /\ activeScene = o /\ Fails(o)

\* The page is destroyed, and everything with it. The page that replaces it begins with
\* revision 1 again; here the revisions go on.
PageGone ==
  /\ stage' = [o \in Revisions |-> IF o <= openRevision THEN "gone" ELSE "none"]
  /\ held' = {}
  /\ activeRuntime' = 0 /\ activeScene' = 0 /\ activeInteraction' = 0
  /\ UNCHANGED openRevision

OpeningNext ==
  \/ Open
  \/ RendererThrows
  \/ PageGone
  \/ \E o \in Revisions : SessionOpened(o)
  \/ \E o \in Revisions : SnapshotRead(o)
  \/ \E o \in Revisions : OpeningFails(o)
  \/ \E o \in Revisions : Mounted(o)
  \/ \E o \in Revisions : MasksRead(o)
  \/ \E o \in Revisions : ShowFails(o)

OpeningSpec == OpeningInit /\ [][OpeningNext]_openingVars

-----------------------------------------------------------------------------
(* Properties. *)

\* Every variable has the values it is described with.
OpeningTypeOK ==
  /\ openRevision \in 0 .. MaxOpenings
  /\ stage \in [Revisions -> Opening \cup {"masks"} \cup Ended]
  /\ held \subseteq Revisions
  /\ \A a \in {activeRuntime, activeScene, activeInteraction} : a \in 0 .. MaxOpenings

Thrown == {o \in Revisions : At(o, "thrown")}

\* Whatever overtakes what: a superseded opening never takes the screen, what the user
\* interacts with is the runtime that holds its resources, and when no opening is under way
\* the last one is shown, or has failed and left the screen empty. Nothing else is held
\* then, but the sources of the openings whose renderer could not be made.
LatestIsShown ==
  /\ activeRuntime # 0 => activeRuntime = openRevision /\ activeRuntime \in held
  /\ activeInteraction # 0 => activeInteraction = activeRuntime /\ activeScene = activeRuntime
  /\ (\A o \in Revisions : stage[o] \in Ended) /\ openRevision # 0 =>
       IF At(openRevision, "shown")
       THEN activeInteraction = openRevision /\ held = {openRevision} \cup Thrown
       ELSE active = <<0, 0, 0>> /\ held = Thrown
=============================================================================
