---------------------------- MODULE AtomicScene ----------------------------
(***************************************************************************)
(* What Render Delta promises a viewer, with no controller, no adapter and *)
(* no asynchrony in sight: there is a stable scene and a shown scene, they *)
(* differ only while exactly one delta is being previewed, and every       *)
(* change of either is one whole delta.                                    *)
(***************************************************************************)
EXTENDS RenderDeltaData

VARIABLES stable, shown, open

vars == <<stable, shown, open>>

TypeOK == stable \in SceneType /\ shown \in SceneType /\ open \in BOOLEAN

Init == stable = BaseScene /\ shown = BaseScene /\ open = TRUE

Extends(d, scene) == d.from = scene.rev

\* One delta becomes visible and permanent at once.
Advance(d) ==
    /\ open /\ shown = stable /\ Extends(d, stable)
    /\ stable' = Draw(stable, d)
    /\ shown' = stable'
    /\ UNCHANGED open

\* One delta becomes visible, and can still be taken back.
Show(d) ==
    /\ open /\ shown = stable /\ Extends(d, stable)
    /\ shown' = Draw(stable, d)
    /\ UNCHANGED <<stable, open>>

Keep == open /\ stable' = shown /\ UNCHANGED <<shown, open>>

TakeBack == open /\ shown' = stable /\ UNCHANGED <<stable, open>>

\* Closing leaves no scene behind.
Close ==
    /\ open /\ open' = FALSE
    /\ stable' = BaseScene /\ shown' = BaseScene

Next ==
    \/ \E d \in Deltas : Advance(d) \/ Show(d)
    \/ Keep \/ TakeBack \/ Close

Spec == Init /\ [][Next]_vars
=============================================================================
