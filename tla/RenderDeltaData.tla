-------------------------- MODULE RenderDeltaData --------------------------
(***************************************************************************)
(* Data shared by the Render Delta specifications: what a parsed delta is, *)
(* the overlay a controller retains, the part of it a renderer draws, and  *)
(* how one delta transforms either.                                        *)
(*                                                                         *)
(* A key stands for one (layer, Render ID) pair.  A Render ID may change   *)
(* only once in a delta (render-protocol/src/descriptors.mjs), so the      *)
(* ordered operation list is the same as the two disjoint sets of keys it  *)
(* tombstones and upserts.  The identity token of an upserted key is the   *)
(* revision that upserted it.  World bounds are left out.                  *)
(***************************************************************************)
EXTENDS Integers, FiniteSets

CONSTANTS
    Keys,          \* (layer, Render ID) pairs a delta may touch
    Deps,          \* dependency IDs a delta may invalidate
    Revisions,     \* revision IDs
    BaseRevision,  \* the revision of the base snapshot
    NoToken,       \* "this key has no external identity in the overlay"
    Deltas         \* the deltas the source may deliver

DeltaType ==
    [id: Nat \ {0}, from: Revisions, to: Revisions, seq: Nat \ {0},
     tombs: SUBSET Keys, ups: SUBSET Keys, deps: SUBSET Deps, bytes: Nat]

\* What parseRenderDeltaDescriptor() checks of a delta on its own.
WellFormed(d) ==
    /\ d.from # d.to
    /\ d.tombs \cap d.ups = {}
    /\ d.tombs \cup d.ups # {}

ASSUME DataAssumption ==
    /\ IsFiniteSet(Keys) /\ IsFiniteSet(Deps)
    /\ BaseRevision \in Revisions
    /\ NoToken \notin Revisions
    /\ Deltas \subseteq DeltaType
    /\ \A d \in Deltas : WellFormed(d)

-----------------------------------------------------------------------------
(* What the controller retains (emptyState, applyDeltaToState).            *)

Token == Revisions \cup {NoToken}

StateType ==
    [rev: Revisions, seq: Nat, count: Nat, bytes: Nat,
     tombs: SUBSET Keys, ups: SUBSET Keys,
     ids: [Keys -> Token], deps: SUBSET Deps]

EmptyState(r) ==
    [rev |-> r, seq |-> 0, count |-> 0, bytes |-> 0,
     tombs |-> {}, ups |-> {}, ids |-> [k \in Keys |-> NoToken], deps |-> {}]

\* Mutant: a tombstone leaves the identity of the entity behind.
IdentitiesKept(ids, d) == [k \in Keys |-> IF k \in d.ups THEN d.to ELSE ids[k]]

Identities(ids, d) ==
    [k \in Keys |-> IF k \in d.tombs THEN NoToken
                    ELSE IF k \in d.ups THEN d.to ELSE ids[k]]

ApplyDeltaToState(s, d) ==
    [rev   |-> d.to,
     seq   |-> d.seq,
     count |-> s.count + 1,
     bytes |-> s.bytes + d.bytes,
     tombs |-> (s.tombs \ d.ups) \cup d.tombs,
     ups   |-> (s.ups \ d.tombs) \cup d.ups,
     ids   |-> Identities(s.ids, d),
     deps  |-> s.deps \cup d.deps]

-----------------------------------------------------------------------------
(* What a renderer adapter draws: it is only ever told deltas, and keeps   *)
(* its own copy.                                                           *)

SceneType ==
    [rev: Revisions, tombs: SUBSET Keys, ups: SUBSET Keys,
     ids: [Keys -> Token]]

BaseScene ==
    [rev |-> BaseRevision, tombs |-> {}, ups |-> {},
     ids |-> [k \in Keys |-> NoToken]]

Draw(scene, d) ==
    [rev   |-> d.to,
     tombs |-> (scene.tombs \ d.ups) \cup d.tombs,
     ups   |-> (scene.ups \ d.tombs) \cup d.ups,
     ids   |-> Identities(scene.ids, d)]

\* The drawable part of a retained overlay.
SceneOf(s) == [rev |-> s.rev, tombs |-> s.tombs, ups |-> s.ups, ids |-> s.ids]
=============================================================================
