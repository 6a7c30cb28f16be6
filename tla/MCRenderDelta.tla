--------------------------- MODULE MCRenderDelta ---------------------------
(***************************************************************************)
(* A small instance of RenderDelta: three keys, chains of up to four deltas *)
(* that branch and meet again, one that repeats an old sequence number, and *)
(* limits of which each is reached by some chain and broken by another.     *)
(***************************************************************************)
EXTENDS RenderDelta

CONSTANTS k1, k2, k3

MCDelta(id, from, to, seq, tombs, ups, deps) ==
    [id |-> id, from |-> from, to |-> to, seq |-> seq, tombs |-> tombs,
     ups |-> ups, deps |-> deps, bytes |-> Cardinality(ups)]

MCDeltas ==
    { MCDelta(1, "r0", "r1", 1, {k1}, {k2}, {}),
      MCDelta(2, "r0", "r2", 1, {}, {k1, k2}, {"dep1"}),   \* another branch
      MCDelta(3, "r1", "r3", 2, {k2}, {k1, k3}, {"dep1"}),
      MCDelta(4, "r1", "r2", 1, {k1}, {}, {}),             \* a stale sequence
      MCDelta(5, "r2", "r3", 2, {k1, k2}, {k3}, {}),
      MCDelta(6, "r3", "r0", 3, {}, {k1, k2}, {"dep2"}),   \* back to r0
      MCDelta(7, "r3", "r1", 3, {k3}, {}, {}),
      MCDelta(8, "r1", "r2", 4, {}, {k3}, {}),
      MCDelta(9, "r0", "r1", 4, {k1, k2, k3}, {}, {}) }
=============================================================================
