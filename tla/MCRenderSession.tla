-------------------------- MODULE MCRenderSession --------------------------
(***************************************************************************)
(* The sources TLC opens sessions on.  In OneRevision the source replaces   *)
(* its snapshot by one of the same revision; in ThreeRevisions each new one *)
(* has a revision of its own and has to be announced.                       *)
(***************************************************************************)
EXTENDS RenderSession

OneRevision == <<"r1", "r1">>
ThreeRevisions == <<"r1", "r2", "r3">>

\* Calls of getSnapshot() that overlap with one another and with two delta
\* subscriptions, one delta each.
Overlaps ==
    [history |-> OneRevision, capabilities |-> {"render-delta"}, fetches |-> 2,
     subs |-> 2, deltas |-> 1, queue |-> 1, failed |-> 0, picks |-> 0,
     readBudget |-> 0]

\* Two deltas over a subscription that drains and one that replaces it.
Replacement == [Overlaps EXCEPT !.fetches = 1, !.deltas = 2]

\* A pick and a read in flight while a delta is applied and the snapshot is
\* replaced.
Requests ==
    [Overlaps EXCEPT
        !.capabilities = {"render-delta", "pick-resolve", "range-read"},
        !.subs = 1, !.picks = 1, !.readBudget = 1]

\* Revision events that are repeated, lost and refused.
Announcements ==
    [Overlaps EXCEPT
        !.history = ThreeRevisions, !.capabilities = {"revision-events"},
        !.fetches = 3, !.subs = 0, !.deltas = 0, !.queue = 2, !.failed = 1]

\* A getSnapshot() that waits for a subscription with a delta in flight.
Draining == [Overlaps EXCEPT !.subs = 1]

\* The same while newer snapshots are announced.
Superseding ==
    [Draining EXCEPT !.history = ThreeRevisions, !.fetches = 3,
                     !.capabilities = {"render-delta", "revision-events"}]

Sources == {Overlaps, Replacement, Requests, Announcements}
OneSubscription == {Draining}
NewerSnapshots == {Superseding}
=============================================================================
