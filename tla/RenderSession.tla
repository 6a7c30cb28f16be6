--------------------------- MODULE RenderSession ---------------------------
(***************************************************************************)
(* ViewerRenderSourceSession (viewer-core/src/render-source-session.mjs):   *)
(* snapshots, the Render Delta subscriptions, the revision event            *)
(* subscription, bounded range reads and picks of one session, between a    *)
(* source that answers when it likes and a viewer that calls when it likes. *)
(*                                                                         *)
(* Every await of the code is a cut between two actions.  The Nth call of   *)
(* getSnapshot() is fetch N, so a snapshot object is identified by its      *)
(* fetch: the code compares objects where two could carry the same state.   *)
(* A revision is a snapshot's revision plus the number of deltas applied to *)
(* it, which is why #renderRevisionId and #renderDeltaSequence are one      *)
(* variable.  Diagnostic batches use the code of revision events and change *)
(* nothing but their own sequence: they are left out.                       *)
(***************************************************************************)
EXTENDS Integers, Sequences, FiniteSets

CONSTANTS
    MaxFetches,      \* bound: getSnapshot() calls
    MaxSubs,         \* bound: delta subscriptions
    MaxDelta,        \* bound: deltas per snapshot
    Settings         \* the sources a session may be opened on, and the scenarios

\* history gives the revisions of the source's successive snapshots and
\* capabilities what its descriptor offers; readBudget is remainingReadBytes of
\* every handle.  The rest are bounds: on the calls above, on undelivered
\* messages, on failed builds the source announces, and on picks.
Setting ==
    [history: Seq(STRING), capabilities: SUBSET STRING,
     fetches: 0..MaxFetches, subs: 0..MaxSubs, deltas: 0..MaxDelta,
     queue: Nat, failed: Nat, picks: Nat, readBudget: Nat]

ASSUME SessionAssumption ==
    /\ MaxFetches \in Nat /\ MaxSubs \in Nat /\ MaxDelta \in Nat
    /\ Settings \subseteq Setting
    /\ \A setting \in Settings : Len(setting.history) > 0

VARIABLES
    setting,
    \* The source.
    head,            \* its current snapshot
    sent,            \* the revision event it has sent last
    failures,        \* failed builds it has announced
    \* The session.
    fetch,           \* the getSnapshot() calls
    waiting,         \* those at their second await, in the order they got there
    last,            \* #lastSnapshot: the fetch that brought it, or 0
    announced,       \* #pendingRevisionEvent: its snapshot, or 0
    applied,         \* #renderDeltaSequence and #renderRevisionId
    subs, current,   \* the delta subscriptions, and #deltaSubscription
    events,          \* the revision event subscription
    eventSeq,        \* #revisionEventSequence
    budget,          \* #remainingRangeBytes of the active handle
    read, pick,      \* one range read and one pick in flight
    picks,           \* picks so far
    disposed,
    \* The viewer: the snapshot it mounted and the deltas it applied to it.
    scene

sourceVars == <<head, sent, failures>>
fetchVars == <<fetch, waiting, last, announced>>
deltaVars == <<subs, current, applied>>
eventVars == <<events, eventSeq>>
requestVars == <<budget, read, pick, picks>>
session == <<sourceVars, fetchVars, deltaVars, eventVars, requestVars, disposed,
             scene>>
vars == <<setting, session>>

Fetches == 1..MaxFetches
Subs == 1..MaxSubs
Snapshots == 1..Len(setting.history)
Event == [seq: Nat \ {0}, snap: {0} \cup Snapshots, good: {0} \cup Snapshots]
NoEvent == [seq |-> 0, snap |-> 0, good |-> 0]
Delta == [base: Snapshots, seq: 1..MaxDelta]
NoDelta == [base |-> 0, seq |-> 0]

\* "asked": the source has the request.  "answered": its answer is there.
\* "draining": the answer is accepted, and getSnapshot() awaits the disposal
\* of the delta subscription it found.
FetchType ==
    [phase: {"unused", "asked", "answered", "draining", "over"},
     snap: {0} \cup Snapshots, waits: {0} \cup Subs]

\* "opening": the source has not returned the disposer yet.  drain is how far
\* dispose() is: "raw" awaits the source's disposer, "queue" the deliveries.
\* result is what the listener in flight did, once its promise has settled.
SubType ==
    [phase: {"unused", "opening", "open", "over"}, on: {0} \cup Fetches,
     closed: BOOLEAN, drain: {"no", "raw", "queue", "done", "failed"},
     queue: Seq(Delta), running: Delta \cup {NoDelta},
     result: {"none", "applied", "thrown"}]

EventsType ==
    [phase: {"unused", "open", "closed"}, queue: Seq(Event),
     running: Event \cup {NoEvent}]

RequestType == [on: {0} \cup Fetches, at: 0..MaxDelta,
                phase: {"idle", "sent", "served", "refused"}]

TypeOK ==
    /\ setting \in Settings
    /\ head \in Snapshots /\ sent \in Event \cup {NoEvent}
    /\ failures \in 0..setting.failed
    /\ fetch \in [Fetches -> FetchType]
    /\ waiting \in Seq(Fetches) /\ last \in {0} \cup Fetches
    /\ announced \in {0} \cup Snapshots
    /\ applied \in 0..MaxDelta
    /\ subs \in [Subs -> SubType] /\ current \in {0} \cup Subs
    /\ events \in EventsType /\ eventSeq \in Nat
    /\ budget \in 0..setting.readBudget
    /\ read \in RequestType /\ pick \in RequestType
    /\ picks \in 0..setting.picks
    /\ disposed \in BOOLEAN
    /\ scene \in [on: {0} \cup Fetches, applied: 0..MaxDelta]

NoRequest == [on |-> 0, at |-> 0, phase |-> "idle"]

Init ==
    /\ setting \in Settings
    /\ head = 1 /\ sent = NoEvent /\ failures = 0
    /\ fetch = [f \in Fetches |-> [phase |-> "unused", snap |-> 0, waits |-> 0]]
    /\ waiting = << >> /\ last = 0 /\ announced = 0 /\ applied = 0
    /\ subs = [s \in Subs |->
                 [phase |-> "unused", on |-> 0, closed |-> FALSE,
                  drain |-> "no", queue |-> << >>, running |-> NoDelta,
                  result |-> "none"]]
    /\ current = 0
    /\ events = [phase |-> "unused", queue |-> << >>, running |-> NoEvent]
    /\ eventSeq = 0 /\ budget = 0
    /\ read = NoRequest /\ pick = NoRequest /\ picks = 0
    /\ disposed = FALSE
    /\ scene = [on |-> 0, applied |-> 0]

-----------------------------------------------------------------------------
(* The source, which is not part of the session.                           *)

Revision(snap) == setting.history[snap]
SnapOf(f) == fetch[f].snap

\* A message reaches a subscription the source still knows.
Listening == events.phase = "open" /\ Len(events.queue) < setting.queue

Send(e) == events' = [events EXCEPT !.queue = Append(@, e)]

\* A new snapshot.  One of a new revision is announced.
Publish ==
    /\ head < Len(setting.history)
    /\ head' = head + 1
    /\ IF Revision(head') # Revision(head)
       THEN /\ Listening
            /\ sent' = [seq |-> sent.seq + 1, snap |-> head', good |-> head']
            /\ Send(sent')
       ELSE UNCHANGED <<sent, events>>
    /\ UNCHANGED <<setting, failures, fetchVars, deltaVars, eventSeq, requestVars,
                   disposed, scene>>

\* A build fails: the last good snapshot stays.
AnnounceFailure ==
    /\ failures < setting.failed /\ Listening
    /\ failures' = failures + 1
    /\ sent' = [seq |-> sent.seq + 1, snap |-> 0, good |-> head]
    /\ Send(sent')
    /\ UNCHANGED <<setting, head, fetchVars, deltaVars, eventSeq, requestVars,
                   disposed, scene>>

\* Delivery is at least once: the source repeats what it sent last.
RepeatEvent ==
    /\ sent # NoEvent /\ Listening
    /\ Send(sent)
    /\ UNCHANGED <<setting, sourceVars, fetchVars, deltaVars, eventSeq,
                   requestVars, disposed, scene>>

\* Any delta of any snapshot so far, in any order and any number of times.
SendDelta(s, d) ==
    /\ subs[s].phase \in {"opening", "open"} /\ ~subs[s].closed
    /\ d.base <= head /\ d.seq <= setting.deltas
    /\ Len(subs[s].queue) < setting.queue
    /\ subs' = [subs EXCEPT ![s].queue = Append(@, d)]
    /\ UNCHANGED <<setting, sourceVars, fetchVars, current, applied, eventVars,
                   requestVars, disposed, scene>>

-----------------------------------------------------------------------------
(* Delta subscriptions: subscribeRenderDeltas().                           *)

\* subscription.dispose(), up to its first await.
Close(s) ==
    IF s = 0 \/ subs[s].closed THEN subs
    ELSE [subs EXCEPT ![s].closed = TRUE, ![s].drain = "raw"]

Subscribe(s) ==
    /\ subs[s].phase = "unused" /\ (s > 1 => subs[s - 1].phase # "unused")
    /\ s <= setting.subs
    /\ "render-delta" \in setting.capabilities /\ ~disposed /\ last # 0
    /\ current # 0 => subs[current].closed
    /\ subs' = [subs EXCEPT ![s].phase = "opening", ![s].on = last]
    /\ current' = s
    /\ UNCHANGED <<setting, sourceVars, fetchVars, applied, eventVars,
                   requestVars, disposed, scene>>

\* The source returns its disposer; one that was closed meanwhile is
\* disposed at once.
SubscribeResolves(s) ==
    /\ subs[s].phase = "opening"
    /\ subs' = [subs EXCEPT ![s].phase = IF subs[s].closed THEN "over"
                                         ELSE "open"]
    /\ UNCHANGED <<setting, sourceVars, fetchVars, current, applied, eventVars,
                   requestVars, disposed, scene>>

SubscribeRejects(s) ==
    /\ subs[s].phase = "opening"
    /\ subs' = [Close(s) EXCEPT ![s].phase = "over"]
    /\ UNCHANGED <<setting, sourceVars, fetchVars, current, applied, eventVars,
                   requestVars, disposed, scene>>

\* The caller disposes the subscription, or its signal fires.
Unsubscribe(s) ==
    /\ subs[s].phase \in {"opening", "open"} /\ ~subs[s].closed
    /\ subs' = Close(s)
    /\ UNCHANGED <<setting, sourceVars, fetchVars, current, applied, eventVars,
                   requestVars, disposed, scene>>

\* rawDispose() settles.  Until the source has returned it, it does nothing.
DisposeRaw(s, ok) ==
    /\ subs[s].drain = "raw"
    /\ ok \/ subs[s].phase = "open"
    /\ subs' = [subs EXCEPT ![s] =
                  [@ EXCEPT !.drain = IF ok THEN "queue" ELSE "failed",
                            !.phase = IF subs[s].phase = "open"
                                      THEN "over" ELSE subs[s].phase]]
    /\ UNCHANGED <<setting, sourceVars, fetchVars, current, applied, eventVars,
                   requestVars, disposed, scene>>

Quiet(s) == subs[s].queue = << >> /\ subs[s].running = NoDelta

FinishDrain(s) ==
    /\ subs[s].drain = "queue" /\ Quiet(s)
    /\ subs' = [subs EXCEPT ![s].drain = "done"]
    /\ current' = IF current = s THEN 0 ELSE current
    /\ UNCHANGED <<setting, sourceVars, fetchVars, applied, eventVars,
                   requestVars, disposed, scene>>

\* Delivery: what dispatch() queued runs one at a time.
Deliverable(s, d) ==
    /\ ~subs[s].closed /\ ~disposed
    /\ last = subs[s].on
    /\ d.base = SnapOf(last) /\ d.seq = applied + 1

\* The listener is ViewerRenderDeltaController.applyCommittedAsync().
ListenerTakes(s, d) ==
    /\ scene.on = subs[s].on /\ d.seq = scene.applied + 1
    /\ \A t \in Subs : subs[t].running = NoDelta \/ subs[t].result # "none"

\* Mutant: what is queued when the subscription closes stays queued.
DeliverWhenOpen(s) ==
    /\ subs[s].queue # << >> /\ subs[s].running = NoDelta /\ ~subs[s].closed
    /\ LET d == Head(subs[s].queue) IN
         subs' = [subs EXCEPT ![s] =
                    [@ EXCEPT !.queue = Tail(subs[s].queue),
                              !.running = IF Deliverable(s, d)
                                             /\ ListenerTakes(s, d)
                                          THEN d ELSE NoDelta]]
    /\ UNCHANGED <<setting, sourceVars, fetchVars, current, applied, eventVars,
                   requestVars, disposed, scene>>

DeliverDelta(s) ==
    /\ subs[s].queue # << >> /\ subs[s].running = NoDelta
    /\ LET d == Head(subs[s].queue) IN
         subs' = [subs EXCEPT ![s] =
                    [@ EXCEPT !.queue = Tail(subs[s].queue),
                              !.running = IF Deliverable(s, d)
                                             /\ ListenerTakes(s, d)
                                          THEN d ELSE NoDelta]]
    /\ UNCHANGED <<setting, sourceVars, fetchVars, current, applied, eventVars,
                   requestVars, disposed, scene>>

\* The listener's promise settles.
ListenerSettles(s, ok) ==
    /\ subs[s].running # NoDelta /\ subs[s].result = "none"
    /\ subs' = [subs EXCEPT ![s].result = IF ok THEN "applied" ELSE "thrown"]
    /\ scene' = IF ok /\ scene.on = subs[s].on
                THEN [scene EXCEPT !.applied = subs[s].running.seq]
                ELSE scene
    /\ UNCHANGED <<setting, sourceVars, fetchVars, current, applied, eventVars,
                   requestVars, disposed>>

\* Mutant: the snapshot is not rechecked.
StillOpen(s) == ~disposed

\* What the continuation rechecks after the await: not whether the
\* subscription has been closed.
StillActive(s) == ~disposed /\ last = subs[s].on

\* Mutant: an error of the listener breaks the chain of deliveries.
FinishDeltaUnlessThrown(s) ==
    /\ subs[s].result = "applied"
    /\ subs' = [subs EXCEPT ![s].running = NoDelta, ![s].result = "none"]
    /\ applied' = IF StillActive(s) THEN subs[s].running.seq ELSE applied
    /\ UNCHANGED <<setting, sourceVars, fetchVars, current, eventVars,
                   requestVars, disposed, scene>>

FinishDelta(s) ==
    /\ subs[s].result # "none"
    /\ subs' = [subs EXCEPT ![s].running = NoDelta, ![s].result = "none"]
    /\ applied' = IF subs[s].result = "applied" /\ StillActive(s)
                  THEN subs[s].running.seq ELSE applied
    /\ UNCHANGED <<setting, sourceVars, fetchVars, current, eventVars,
                   requestVars, disposed, scene>>

-----------------------------------------------------------------------------
(* getSnapshot().                                                          *)

AskSnapshot(f) ==
    /\ fetch[f].phase = "unused" /\ (f > 1 => fetch[f - 1].phase # "unused")
    /\ f <= setting.fetches /\ ~disposed
    /\ fetch' = [fetch EXCEPT ![f].phase = "asked"]
    /\ UNCHANGED <<setting, sourceVars, waiting, last, announced, deltaVars,
                   eventVars, requestVars, disposed, scene>>

SourceAnswers(f) ==
    /\ fetch[f].phase = "asked"
    /\ fetch' = [fetch EXCEPT ![f].phase = "answered", ![f].snap = head]
    /\ UNCHANGED <<setting, sourceVars, waiting, last, announced, deltaVars,
                   eventVars, requestVars, disposed, scene>>

\* The source rejects, or the caller's signal fired meanwhile.
SourceRejects(f) ==
    /\ fetch[f].phase = "asked"
    /\ fetch' = [fetch EXCEPT ![f].phase = "over"]
    /\ UNCHANGED <<setting, sourceVars, waiting, last, announced, deltaVars,
                   eventVars, requestVars, disposed, scene>>

ExpectedRevision ==
    IF announced # 0 THEN Revision(announced)
    ELSE IF last # 0 THEN Revision(SnapOf(last))
    ELSE Revision(1)

\* The checks before the second await.
Newer(f) ==
    /\ ~disposed
    /\ Revision(SnapOf(f)) = ExpectedRevision
    /\ announced # 0 => SnapOf(f) = announced
    /\ last # 0 => SnapOf(f) > SnapOf(last)

\* getSnapshot() has an answer it accepts, and closes the delta subscription.
AcceptSnapshot(f) ==
    /\ fetch[f].phase = "answered" /\ Newer(f)
    /\ fetch' = [fetch EXCEPT ![f] =
                   [@ EXCEPT !.phase = "draining", !.waits = current]]
    /\ waiting' = Append(waiting, f)
    /\ subs' = Close(current)
    /\ UNCHANGED <<setting, sourceVars, last, announced, current, applied,
                   eventVars, requestVars, disposed, scene>>

\* It throws, or returns the snapshot it has.
KeepSnapshot(f) ==
    /\ fetch[f].phase = "answered" /\ ~Newer(f)
    /\ fetch' = [fetch EXCEPT ![f].phase = "over"]
    /\ UNCHANGED <<setting, sourceVars, waiting, last, announced, deltaVars,
                   eventVars, requestVars, disposed, scene>>

Drained(s) == s # 0 => subs[s].drain = "done"

\* Those that await the same disposal go on in the order they came.
Turn(f) ==
    /\ fetch[f].phase = "draining"
    /\ \E i \in DOMAIN waiting :
         /\ waiting[i] = f
         /\ \A j \in 1..(i - 1) : fetch[waiting[j]].waits # fetch[f].waits

WaitingBut(f) ==
    LET i == CHOOSE i \in DOMAIN waiting : waiting[i] = f
    IN  SubSeq(waiting, 1, i - 1) \o SubSeq(waiting, i + 1, Len(waiting))

\* The rest of getSnapshot() runs on what it checked before the await.  The
\* viewer mounts what it returns.
InstallSnapshot(f) ==
    /\ Turn(f) /\ Drained(fetch[f].waits)
    /\ fetch' = [fetch EXCEPT ![f].phase = "over"]
    /\ waiting' = WaitingBut(f)
    /\ last' = f /\ announced' = 0 /\ applied' = 0
    /\ budget' = setting.readBudget
    /\ scene' = [on |-> f, applied |-> 0]
    /\ UNCHANGED <<setting, sourceVars, subs, current, eventVars, read, pick,
                   picks, disposed>>

\* The disposal it awaits has failed.
LoseSnapshot(f) ==
    /\ Turn(f)
    /\ fetch[f].waits # 0 /\ subs[fetch[f].waits].drain = "failed"
    /\ fetch' = [fetch EXCEPT ![f].phase = "over"]
    /\ waiting' = WaitingBut(f)
    /\ UNCHANGED <<setting, sourceVars, last, announced, deltaVars, eventVars,
                   requestVars, disposed, scene>>

-----------------------------------------------------------------------------
(* Revision events: subscribeRevisionEvents() over #subscribeOrderedEvents.*)

SubscribeEvents ==
    /\ "revision-events" \in setting.capabilities /\ ~disposed
    /\ events.phase = "unused"
    /\ events' = [events EXCEPT !.phase = "open"]
    /\ UNCHANGED <<setting, sourceVars, fetchVars, deltaVars, eventSeq,
                   requestVars, disposed, scene>>

UnsubscribeEvents ==
    /\ events.phase = "open"
    /\ events' = [events EXCEPT !.phase = "closed"]
    /\ UNCHANGED <<setting, sourceVars, fetchVars, deltaVars, eventSeq,
                   requestVars, disposed, scene>>

\* Mutant: a repeated event is accepted.
InAnySequence(e) == events.phase = "open" /\ ~disposed /\ e.seq >= eventSeq

InSequence(e) == events.phase = "open" /\ ~disposed /\ e.seq = eventSeq + 1

DeliverEvent ==
    /\ events.queue # << >> /\ events.running = NoEvent
    /\ LET e == Head(events.queue) IN
         events' = [events EXCEPT
                      !.queue = Tail(@),
                      !.running = IF InSequence(e) THEN e ELSE NoEvent]
    /\ UNCHANGED <<setting, sourceVars, fetchVars, deltaVars, eventSeq,
                   requestVars, disposed, scene>>

\* The listener settles; accept() runs if it did not throw.
FinishEvent(ok) ==
    LET e == events.running IN
    /\ e # NoEvent
    /\ events' = [events EXCEPT !.running = NoEvent]
    /\ IF ok /\ events.phase = "open" /\ ~disposed
       THEN /\ eventSeq' = e.seq
            /\ announced' = IF e.snap # 0 THEN e.snap
                            ELSE IF announced # 0
                                    /\ Revision(e.good) # Revision(announced)
                                 THEN 0 ELSE announced
       ELSE UNCHANGED <<eventSeq, announced>>
    /\ UNCHANGED <<setting, sourceVars, fetch, waiting, last, deltaVars,
                   requestVars, disposed, scene>>

-----------------------------------------------------------------------------
(* Range reads, picks (contexts and reveals take the same course).         *)

\* Mutant: the remaining budget is not compared.
ReadUnbounded ==
    /\ "range-read" \in setting.capabilities /\ ~disposed /\ last # 0
    /\ read.phase # "sent"
    /\ budget' = budget - 1
    /\ read' = [on |-> last, at |-> 0, phase |-> "sent"]
    /\ UNCHANGED <<setting, sourceVars, fetchVars, deltaVars, eventVars, pick,
                   picks, disposed, scene>>

ReadRange ==
    /\ "range-read" \in setting.capabilities /\ ~disposed /\ last # 0
    /\ read.phase # "sent" /\ budget > 0
    /\ budget' = budget - 1
    /\ read' = [on |-> last, at |-> 0, phase |-> "sent"]
    /\ UNCHANGED <<setting, sourceVars, fetchVars, deltaVars, eventVars, pick,
                   picks, disposed, scene>>

\* Mutant: the bytes are passed on whatever happened during the read.
FinishReadUnchecked(ok) ==
    /\ read.phase = "sent"
    /\ read' = [read EXCEPT !.phase = IF ok THEN "served" ELSE "refused"]
    /\ UNCHANGED <<setting, sourceVars, fetchVars, deltaVars, eventVars, budget,
                   pick, picks, disposed, scene>>

FinishRead(ok) ==
    /\ read.phase = "sent"
    /\ read' = [read EXCEPT !.phase = IF ok /\ ~disposed /\ last = read.on
                                      THEN "served" ELSE "refused"]
    /\ UNCHANGED <<setting, sourceVars, fetchVars, deltaVars, eventVars, budget,
                   pick, picks, disposed, scene>>

ResolvePick ==
    /\ "pick-resolve" \in setting.capabilities /\ ~disposed /\ last # 0
    /\ pick.phase # "sent" /\ picks < setting.picks
    /\ picks' = picks + 1
    /\ pick' = [on |-> last, at |-> applied, phase |-> "sent"]
    /\ UNCHANGED <<setting, sourceVars, fetchVars, deltaVars, eventVars, budget,
                   read, disposed, scene>>

\* Mutant: only the snapshot is compared, not the applied revision.
StillAtSnapshot == ~disposed /\ last = pick.on

\* The answer carries the revision of its request and must carry the one
\* the session is at now.
StillAtPick == ~disposed /\ last = pick.on /\ applied = pick.at

FinishPick(ok) ==
    /\ pick.phase = "sent"
    /\ pick' = [pick EXCEPT !.phase = IF ok /\ StillAtPick
                                      THEN "served" ELSE "refused"]
    /\ UNCHANGED <<setting, sourceVars, fetchVars, deltaVars, eventVars, budget,
                   read, picks, disposed, scene>>

-----------------------------------------------------------------------------
Dispose ==
    /\ ~disposed /\ disposed' = TRUE
    /\ last' = 0 /\ announced' = 0 /\ applied' = 0 /\ eventSeq' = 0
    /\ budget' = 0
    /\ subs' = Close(current)
    /\ events' = IF events.phase = "open"
                 THEN [events EXCEPT !.phase = "closed"] ELSE events
    /\ UNCHANGED <<setting, sourceVars, fetch, waiting, current, read, pick,
                   picks, scene>>

SourceSteps ==
    \/ Publish \/ AnnounceFailure \/ RepeatEvent
    \/ \E s \in Subs, d \in Delta : SendDelta(s, d)

Calls ==
    \/ \E s \in Subs : Subscribe(s) \/ Unsubscribe(s)
    \/ \E f \in Fetches : AskSnapshot(f)
    \/ SubscribeEvents \/ UnsubscribeEvents
    \/ ReadRange \/ ResolvePick \/ Dispose

FetchReacts(f) ==
    \/ SourceAnswers(f) \/ SourceRejects(f)
    \/ AcceptSnapshot(f) \/ KeepSnapshot(f)
    \/ InstallSnapshot(f) \/ LoseSnapshot(f)

SubReacts(s) ==
    \/ SubscribeResolves(s) \/ SubscribeRejects(s)
    \/ \E ok \in BOOLEAN : DisposeRaw(s, ok) \/ ListenerSettles(s, ok)
    \/ DeliverDelta(s) \/ FinishDelta(s) \/ FinishDrain(s)

OtherReactions ==
    \/ DeliverEvent
    \/ \E ok \in BOOLEAN : FinishEvent(ok) \/ FinishRead(ok) \/ FinishPick(ok)

Next ==
    \/ SourceSteps \/ Calls \/ OtherReactions
    \/ \E f \in Fetches : FetchReacts(f)
    \/ \E s \in Subs : SubReacts(s)

Spec == Init /\ [][Next]_vars

\* The source answers every call, listeners return, and the event loop runs
\* what is ready.
FairSpec ==
    /\ Spec
    /\ \A f \in Fetches : WF_session(FetchReacts(f))
    /\ \A s \in Subs : WF_session(SubReacts(s))

-----------------------------------------------------------------------------
(* Properties.                                                             *)

\* The revision the session answers for is never ahead of the scene, and
\* once no delta is being delivered it is not behind either: revisionId
\* advances when, and only when, the listener has applied a whole delta.
RevisionFollowsScene ==
    last # 0 /\ scene.on = last =>
        /\ applied <= scene.applied
        /\ (\A s \in Subs : subs[s].running = NoDelta) => applied = scene.applied

\* A pick is resolved for what the viewer shows, never for a revision it has
\* left; only the delta whose acceptance is still under way may be newer.
PickIsCurrent ==
    [][ pick.phase = "sent" /\ pick'.phase = "served" =>
          /\ scene.on = pick.on
          /\ \/ scene.applied = pick.at
             \/ \E s \in Subs : /\ subs[s].result = "applied"
                                /\ subs[s].running.seq = pick.at + 1 ]_vars

\* A disposed session is silent: no listener is called any more and no read
\* or pick is served, whatever is still in flight.
SilentWhenDisposed ==
    [][ disposed =>
          /\ \A s \in Subs : subs'[s].running \in {subs[s].running, NoDelta}
          /\ events'.running \in {events.running, NoEvent}
          /\ read'.phase # read.phase => read'.phase = "refused"
          /\ pick'.phase # pick.phase => pick'.phase = "refused" ]_vars

\* Every getSnapshot() settles, also one that waits for a delta in flight.
SnapshotsSettle ==
    \A f \in Fetches : fetch[f].phase = "asked" ~> fetch[f].phase = "over"

\* Every disposal of a subscription gets as far as the source lets it.
SubscriptionsDrain ==
    \A s \in Subs :
        subs[s].closed ~> subs[s].drain \in {"done", "failed"}

\* A revision that has been replaced does not return.  Revision ids are hashes
\* of the contents, so undoing an edit does bring one back.
RevisionsDoNotRecur ==
    \A i, j, k \in Snapshots :
        i < j /\ j < k /\ Revision(i) = Revision(k) => Revision(j) = Revision(i)

\* An announcement is about a snapshot the session has still to fetch; one
\* about a snapshot it has passed would make every getSnapshot() fail.
AnnouncedIsAhead ==
    RevisionsDoNotRecur /\ announced # 0 /\ last # 0 => announced > SnapOf(last)

\* "Stale or out-of-order state is rejected before it reaches the screen": a
\* snapshot that replaces another is not older, and it is the announced one if
\* there is one.
InstallsInOrder ==
    [][ last # 0 /\ last' \notin {0, last} =>
            /\ SnapOf(last') >= SnapOf(last)
            /\ announced # 0 => SnapOf(last') = announced ]_vars
=============================================================================
