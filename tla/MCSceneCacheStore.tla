------------------------- MODULE MCSceneCacheStore -------------------------
(***************************************************************************)
(* Two managers for TLC, in one window or in two.                          *)
(***************************************************************************)
EXTENDS SceneCacheStore

CONSTANTS a, b, w1, w2, g1, g2

OneWindow == [m \in Managers |-> w1]
TwoWindows == [m \in Managers |-> IF m = a THEN w1 ELSE w2]
OneGeneration == [m \in Managers |-> g1]

Setup(windows, generations, modes, crashes, faults) ==
    [processOf |-> windows, generationOf |-> generations, persistent |-> modes,
     crashes |-> crashes, faults |-> faults]

\* Two windows keep their caches in one generation.
Sharing == {Setup(TwoWindows, OneGeneration, Managers, {}, {})}

\* One manager of each mode, in one window or in two; and two sessions in two.
Mixed ==
    {Setup(OneWindow, OneGeneration, {a}, {}, {"call", "ignored"}),
     Setup(TwoWindows, OneGeneration, {a}, {w1}, {"call"}),
     Setup(TwoWindows, OneGeneration, {}, {w2}, {"ignored"})}

\* Two windows with engines of different revisions.
Engines ==
    {Setup(TwoWindows, [m \in Managers |-> IF m = a THEN g1 ELSE g2], Managers, {}, {})}

NothingLeft == << >>
LeftPair == <<[kind |-> "cache", id |-> 1, holds |-> 1],
              [kind |-> "preview", id |-> 1, holds |-> 1]>>
=============================================================================
