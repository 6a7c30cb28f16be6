----------------------------- MODULE HostedCache -----------------------------
(* The webview opens the caches the extension announces to it: ViewerOpening *)
(* over RangeTransport. The source of the n-th opening is the n-th source.   *)
(*                                                                           *)
(* An opening reads its ranges while it reads its snapshot, without waiting  *)
(* for the answers, and one more for the draw order. A read that is refused  *)
(* or rejected fails the snapshot, and only leaves out the draw order.       *)
EXTENDS RangeTransport, ViewerOpening

vars == <<rangeVars, openingVars>>

Init == RangeInit /\ OpeningInit

-----------------------------------------------------------------------------
ReadsOf(o)  == {r \in DOMAIN reads : reads[r].source = o}
Asked(o)    == {reads[r].range : r \in ReadsOf(o)}
Unasked(o)  == bounds.ranges \ Asked(o)
\* The range the draw order is read from.
MaskRange   == CHOOSE range \in bounds.ranges : TRUE
Answered(o) == \A r \in ReadsOf(o) : ~Waiting(r)
Failure(o)  == \E r \in ReadsOf(o) : reads[r].state \in {"failed", "disposed"}

\* What the disposal of an opening does to its source.
Undone(o) == DisposeSources({o})

\* A cache that is announced is opened. Without a renderer its source stays as it is: it
\* has asked for nothing, and hears the answers as long as the page is there.
OpenCache == OpenHostedCache({activeRuntime}) /\ (Open \/ (bounds.faults /\ RendererThrows))

SessionOpens(o) == SessionOpened(o) /\ UNCHANGED rangeVars

ReadSnapshot(o) ==
  /\ At(o, "snapshot") /\ Unasked(o) # {}
  /\ Read(o, CHOOSE range \in Unasked(o) : TRUE)
  /\ UNCHANGED openingVars

SnapshotIsRead(o) ==
  /\ At(o, "snapshot") /\ Unasked(o) = {}
  /\ \A r \in ReadsOf(o) : reads[r].state = "done"
  /\ SnapshotRead(o)
  /\ UNCHANGED rangeVars

SnapshotFails(o) == At(o, "snapshot") /\ Failure(o) /\ OpeningFails(o) /\ Undone(o)
\* The session cannot be opened, or the presentation not be mounted.
OtherStepFails(o) == bounds.faults /\ ~At(o, "snapshot") /\ OpeningFails(o) /\ Undone(o)

IsMounted(o) ==
  /\ Mounted(o)
  /\ IF Stale(o) THEN Undone(o) ELSE UNCHANGED rangeVars

MasksAsked(o) == Cardinality(ReadsOf(o)) > Cardinality(bounds.ranges)
ReadMasks(o) ==
  /\ At(o, "masks") /\ ~MasksAsked(o)
  /\ Read(o, MaskRange)
  /\ UNCHANGED openingVars

\* The draw order is read, or cannot be; the source may have been disposed by the next
\* opening before it was asked.
ShowScene(o) ==
  /\ At(o, "masks") /\ Answered(o) /\ (MasksAsked(o) \/ sources[o].state # "open")
  /\ MasksRead(o)
  /\ IF Stale(o) THEN Undone(o) ELSE UNCHANGED rangeVars
SceneFails(o) ==
  /\ bounds.faults /\ At(o, "masks") /\ Answered(o) /\ MasksAsked(o)
  /\ ShowFails(o) /\ Undone(o)

HidePage == Hide /\ PageGone

-----------------------------------------------------------------------------
\* The steps of one opening that follow from one another.
OpeningStep(o) ==
  \/ SessionOpens(o) \/ ReadSnapshot(o) \/ SnapshotIsRead(o) \/ SnapshotFails(o) \/ OtherStepFails(o)
  \/ IsMounted(o) \/ ReadMasks(o) \/ ShowScene(o) \/ SceneFails(o)

\* The steps of the messages and of the extension.
Delivered  == ReceiveAnswer /\ UNCHANGED openingVars
Requested  == HandleRequest /\ UNCHANGED openingVars
Refused    == RefuseQueued /\ UNCHANGED openingVars
ReadEnded  == (\E c \in DOMAIN channels, s \in 1 .. MaxConcurrent : EndOfRead(c, s))
              /\ UNCHANGED openingVars
SlotFreed  == (\E c \in DOMAIN channels, s \in 1 .. MaxConcurrent : FreeSlot(c, s))
              /\ UNCHANGED openingVars
Closed     == CloseChannel /\ UNCHANGED openingVars
Reopened   == OpenChannel /\ UNCHANGED openingVars
ShownAgain == Show /\ UNCHANGED openingVars

Next ==
  \/ OpenCache
  \/ HidePage \/ ShownAgain
  \/ \E o \in Revisions : OpeningStep(o)
  \/ Delivered \/ Requested \/ Refused \/ ReadEnded \/ SlotFreed
  \/ Closed \/ Reopened

\* Messages are delivered while the page exists, reads of a file end, and what has been
\* awaited is continued. The user need not retry, and hides and shows the editor at will.
Fairness ==
  /\ WF_vars(OpenCache)
  /\ \A o \in Revisions : WF_vars(OpeningStep(o))
  /\ WF_vars(Delivered)
  /\ WF_vars(Requested)
  /\ WF_vars(Refused)
  /\ WF_vars(ReadEnded)
  /\ WF_vars(SlotFreed)

Spec == Init /\ [][Next]_vars /\ Fairness

-----------------------------------------------------------------------------
(* Properties. *)

\* Both parts keep their types, and only openings that have begun have a source.
TypeOK ==
  /\ RangeTypeOK
  /\ OpeningTypeOK
  /\ openRevision = Len(sources)

Announced == \E m \in DOMAIN toWebview : toWebview[m].type = "ready"

\* As long as the page is there and the extension has a channel open, the last opening ends:
\* each range it waits for is answered or refused, whatever channels and sources came
\* before it, however full the queue is and whichever read ends first.
OpeningSettles ==
  []<>(shown /\ Channel.open => ~Announced /\ openRevision > 0 /\ stage[openRevision] \in Ended)
=============================================================================
