------------------------ MODULE RenderSessionProofs ------------------------
(***************************************************************************)
(* Proofs about RenderSession, for every number of fetches, subscriptions   *)
(* and deltas and every source a session may be opened on: its types, that  *)
(* the session's revision follows the scene (RevisionFollowsScene), that a  *)
(* pick is resolved for what the viewer shows (PickIsCurrent), that a       *)
(* disposed session is silent (SilentWhenDisposed), and that announcements  *)
(* stay ahead of the snapshots fetched (AnnouncedIsAhead).                  *)
(***************************************************************************)
EXTENDS RenderSession, SequenceTheorems, TLAPS

\* What a session's setting is made of.
LEMMA SettingType ==
    ASSUME setting \in Settings
    PROVE  /\ setting.history \in Seq(STRING) /\ Len(setting.history) \in Nat \ {0}
           /\ setting.fetches \in Nat /\ setting.subs \in Nat /\ setting.queue \in Nat
           /\ setting.failed \in Nat /\ setting.picks \in Nat
           /\ setting.readBudget \in Nat
<1>1. setting \in Setting
  BY SessionAssumption
<1>2. setting.history \in Seq(STRING)
  BY <1>1 DEF Setting
<1>3. Len(setting.history) \in Nat
  BY <1>2, LenProperties
<1> QED BY <1>1, <1>2, <1>3, SessionAssumption DEF Setting

\* The updates of one subscription that the actions make keep its type.
LEMMA SubEdits ==
    ASSUME NEW b \in SubType
    PROVE  /\ \A d \in Delta : [b EXCEPT !.queue = Append(@, d)] \in SubType
           /\ \A f \in {0} \cup Fetches :
                [b EXCEPT !.phase = "opening", !.on = f] \in SubType
           /\ \A p \in {"open", "over"} : [b EXCEPT !.phase = p] \in SubType
           /\ \A n \in {"queue", "failed", "done"} :
                /\ [b EXCEPT !.drain = n] \in SubType
                /\ \A p \in {"opening", "over", b.phase} :
                     [b EXCEPT !.drain = n, !.phase = p] \in SubType
           /\ \A q \in Seq(Delta), d \in Delta \cup {NoDelta} :
                [b EXCEPT !.queue = q, !.running = d] \in SubType
           /\ \A r \in {"none", "applied", "thrown"} :
                /\ [b EXCEPT !.result = r] \in SubType
                /\ [b EXCEPT !.running = NoDelta, !.result = r] \in SubType
<1>1. \A d \in Delta : Append(b.queue, d) \in Seq(Delta)
  BY AppendProperties DEF SubType
<1> QED BY ZenonT(40), <1>1 DEF SubType

\* Queueing an event keeps the type of the event subscription.
LEMMA EventEdits ==
    ASSUME events \in EventsType, NEW e \in Event
    PROVE  [events EXCEPT !.queue = Append(@, e)] \in EventsType
<1>1. Append(events.queue, e) \in Seq(Event)
  BY AppendProperties DEF EventsType
<1> QED BY <1>1 DEF EventsType

\* Accepting an answer keeps the type of the fetch.
LEMMA FetchEdit ==
    ASSUME NEW b \in FetchType, NEW s \in {0} \cup Subs
    PROVE  [b EXCEPT !.phase = "draining", !.waits = s] \in FetchType
BY DEF FetchType

\* Replacing one subscription keeps the type of all of them.
LEMMA SubUpdate ==
    ASSUME subs \in [Subs -> SubType], NEW s \in Subs, NEW r \in SubType
    PROVE  [subs EXCEPT ![s] = r] \in [Subs -> SubType]
OBVIOUS

\* Closing a subscription keeps the types.
LEMMA CloseType ==
    ASSUME subs \in [Subs -> SubType], NEW s \in {0} \cup Subs
    PROVE  Close(s) \in [Subs -> SubType]
<1>1. CASE s = 0 \/ subs[s].closed
  BY <1>1 DEF Close
<1>2. CASE s # 0 /\ ~subs[s].closed
  <2>1. Close(s) = [subs EXCEPT ![s] = [@ EXCEPT !.closed = TRUE, !.drain = "raw"]]
    BY <1>2 DEF Close, SubType
  <2>2. [subs[s] EXCEPT !.closed = TRUE, !.drain = "raw"] \in SubType
    BY <1>2 DEF SubType
  <2> QED BY <2>1, <2>2
<1> QED BY <1>1, <1>2

\* Taking one fetch out of those that wait leaves a sequence of fetches.
LEMMA WaitingType ==
    ASSUME waiting \in Seq(Fetches), NEW f \in Fetches, Turn(f)
    PROVE  WaitingBut(f) \in Seq(Fetches)
<1> DEFINE i == CHOOSE i \in DOMAIN waiting : waiting[i] = f
<1>1. i \in DOMAIN waiting
  BY DEF Turn
<1>2. i \in 1..Len(waiting) /\ Len(waiting) \in Nat
  BY <1>1, LenProperties
<1> HIDE DEF i
<1>3. SubSeq(waiting, 1, i - 1) \in Seq(Fetches)
  BY <1>2
<1>4. SubSeq(waiting, i + 1, Len(waiting)) \in Seq(Fetches)
  BY <1>2
<1>5. WaitingBut(f) = SubSeq(waiting, 1, i - 1) \o SubSeq(waiting, i + 1, Len(waiting))
  BY DEF WaitingBut, i
<1> QED BY <1>3, <1>4, <1>5, ConcatProperties

\* The initial states have their types.
LEMMA InitType == Init => TypeOK
<1> SUFFICES ASSUME Init PROVE TypeOK
  OBVIOUS
<1> USE DEF Init
<1>1. head \in Snapshots /\ fetch \in [Fetches -> FetchType]
  BY SettingType DEF Snapshots, FetchType
<1>2. [phase |-> "unused", on |-> 0, closed |-> FALSE, drain |-> "no",
       queue |-> << >>, running |-> NoDelta, result |-> "none"] \in SubType
  BY DEF SubType
<1>3. subs \in [Subs -> SubType]
  BY <1>2
<1>4. events \in EventsType /\ waiting \in Seq(Fetches)
  BY EmptySeq DEF EventsType
<1>5. read \in RequestType /\ pick \in RequestType /\ applied \in 0..MaxDelta
  BY SessionAssumption DEF RequestType, NoRequest
<1>6. scene \in [on: {0} \cup Fetches, applied: 0..MaxDelta]
  BY SessionAssumption
<1>7. /\ setting \in Settings /\ sent \in Event \cup {NoEvent}
      /\ failures \in 0..setting.failed /\ budget \in 0..setting.readBudget
      /\ picks \in 0..setting.picks
  BY SettingType
<1>8. /\ last \in {0} \cup Fetches /\ announced \in {0} \cup Snapshots
      /\ current \in {0} \cup Subs /\ eventSeq \in Nat /\ disposed \in BOOLEAN
  OBVIOUS
<1> HIDE DEF Init
<1> QED BY <1>1, <1>3, <1>4, <1>5, <1>6, <1>7, <1>8 DEF TypeOK

\* No step changes what the session was opened on.
LEMMA SettingStays == [Next]_vars => setting' = setting
<1>1. SourceSteps => setting' = setting
  BY DEF SourceSteps, Publish, AnnounceFailure, RepeatEvent, SendDelta
<1>2. Calls => setting' = setting
  BY DEF Calls, Subscribe, Unsubscribe, AskSnapshot, SubscribeEvents,
         UnsubscribeEvents, ReadRange, ResolvePick, Dispose
<1>3. OtherReactions => setting' = setting
  BY DEF OtherReactions, DeliverEvent, FinishEvent, FinishRead, FinishPick
<1>4. \A f \in Fetches : FetchReacts(f) => setting' = setting
  BY DEF FetchReacts, SourceAnswers, SourceRejects, AcceptSnapshot,
         KeepSnapshot, InstallSnapshot, LoseSnapshot
<1>5. \A s \in Subs : SubReacts(s) => setting' = setting
  BY DEF SubReacts, SubscribeResolves, SubscribeRejects, DisposeRaw,
         ListenerSettles, DeliverDelta, FinishDelta, FinishDrain
<1> QED BY <1>1, <1>2, <1>3, <1>4, <1>5 DEF Next, vars

\* Every step keeps the types.
LEMMA NextType == TypeOK /\ [Next]_vars => TypeOK'
<1> SUFFICES ASSUME TypeOK, [Next]_vars PROVE TypeOK'
  OBVIOUS
<1>s. setting' = setting
  BY SettingStays
<1>c. /\ Snapshots' = Snapshots /\ FetchType' = FetchType
      /\ Delta' = Delta /\ Event' = Event
  BY <1>s DEF Snapshots, FetchType, Event, Delta
<1>d. SubType' = SubType /\ EventsType' = EventsType
  BY <1>c DEF SubType, EventsType
<1> USE <1>s, <1>c, <1>d DEF TypeOK, fetchVars, deltaVars, eventVars,
        requestVars, sourceVars
<1>1. CASE Publish
  <2>1. head' \in Snapshots
    BY SMTT(30), <1>1, SettingType DEF Publish, Snapshots
  <2>2. head' \in Snapshots \ {0} /\ sent.seq + 1 \in Nat \ {0}
    BY SMTT(30), <2>1 DEF Event, NoEvent, Snapshots
  <2>3. [seq |-> sent.seq + 1, snap |-> head', good |-> head'] \in Event
    BY <2>2 DEF Event
  <2>4. sent' \in Event \cup {NoEvent}
    BY <1>1, <2>3 DEF Publish
  <2>5. events' \in EventsType
    <3>1. CASE Revision(head') # Revision(head)
      BY <1>1, <3>1, <2>3, EventEdits DEF Publish, Send
    <3>2. CASE Revision(head') = Revision(head)
      BY <1>1, <3>2 DEF Publish
    <3> QED BY <3>1, <3>2
  <2> QED BY <1>1, <2>1, <2>4, <2>5 DEF Publish
<1>2. CASE AnnounceFailure
  <2>1. sent.seq + 1 \in Nat \ {0}
    BY DEF Event, NoEvent
  <2>2. [seq |-> sent.seq + 1, snap |-> 0, good |-> head] \in Event
    BY <2>1 DEF Event
  <2>3. events' \in EventsType
    BY <1>2, <2>2, EventEdits DEF AnnounceFailure, Send
  <2>4. failures' \in 0..setting.failed
    BY <1>2, SettingType DEF AnnounceFailure
  <2> QED BY <1>2, <2>2, <2>3, <2>4 DEF AnnounceFailure
<1>3. CASE RepeatEvent
  <2>1. events' \in EventsType
    BY <1>3, EventEdits DEF RepeatEvent, Send
  <2> QED BY <1>3, <2>1 DEF RepeatEvent
<1>4. ASSUME NEW s \in Subs, NEW d \in Delta, SendDelta(s, d) PROVE TypeOK'
  <2>1. [subs[s] EXCEPT !.queue = Append(@, d)] \in SubType
    BY SubEdits
  <2> QED BY <1>4, <2>1, SubUpdate DEF SendDelta
<1>5. ASSUME NEW s \in Subs, Subscribe(s) PROVE TypeOK'
  <2>1. [subs[s] EXCEPT !.phase = "opening", !.on = last] \in SubType
    BY SubEdits
  <2>2. subs' = [subs EXCEPT ![s] = [@ EXCEPT !.phase = "opening", !.on = last]]
    BY <1>5 DEF Subscribe
  <2> QED BY <1>5, <2>1, <2>2, SubUpdate DEF Subscribe
<1>6. ASSUME NEW s \in Subs, Unsubscribe(s) PROVE TypeOK'
  BY <1>6, CloseType DEF Unsubscribe
<1>7. ASSUME NEW f \in Fetches, AskSnapshot(f) PROVE TypeOK'
  BY <1>7 DEF AskSnapshot, FetchType
<1>8. CASE SubscribeEvents
  BY <1>8 DEF SubscribeEvents, EventsType
<1>9. CASE UnsubscribeEvents
  BY <1>9 DEF UnsubscribeEvents, EventsType
<1>10. CASE ReadRange
  BY SMTT(30), <1>10, SettingType, SessionAssumption DEF ReadRange, RequestType
<1>11. CASE ResolvePick
  <2>1. picks' \in 0..setting.picks
    BY <1>11, SettingType DEF ResolvePick
  <2>2. pick' \in RequestType
    BY <1>11 DEF ResolvePick, RequestType
  <2> QED BY <1>11, <2>1, <2>2 DEF ResolvePick
<1>12. CASE Dispose
  <2>1. events' \in EventsType
    BY <1>12 DEF Dispose, EventsType
  <2>2. budget' \in 0..setting.readBudget /\ applied' \in 0..MaxDelta
    BY <1>12, SettingType, SessionAssumption DEF Dispose
  <2>3. subs' \in [Subs -> SubType]
    BY <1>12, CloseType DEF Dispose
  <2> QED BY <1>12, <2>1, <2>2, <2>3 DEF Dispose
<1>13. CASE DeliverEvent
  <2>1. Head(events.queue) \in Event /\ Tail(events.queue) \in Seq(Event)
    BY <1>13 DEF DeliverEvent, EventsType
  <2>2. events' \in EventsType
    BY <1>13, <2>1 DEF DeliverEvent, EventsType
  <2> QED BY <1>13, <2>2 DEF DeliverEvent
<1>14. ASSUME NEW ok \in BOOLEAN, FinishEvent(ok) PROVE TypeOK'
  BY <1>14 DEF FinishEvent, EventsType, Event, NoEvent
<1>15. ASSUME NEW ok \in BOOLEAN, FinishRead(ok) PROVE TypeOK'
  BY SMTT(30), <1>15 DEF FinishRead, RequestType
<1>16. ASSUME NEW ok \in BOOLEAN, FinishPick(ok) PROVE TypeOK'
  BY SMTT(30), <1>16 DEF FinishPick, RequestType
<1>17. ASSUME NEW f \in Fetches, SourceAnswers(f) PROVE TypeOK'
  BY ZenonT(40), <1>17 DEF SourceAnswers, FetchType
<1>18. ASSUME NEW f \in Fetches, SourceRejects(f) \/ KeepSnapshot(f) PROVE TypeOK'
  BY SMTT(30), <1>18 DEF SourceRejects, KeepSnapshot, FetchType
<1>19. ASSUME NEW f \in Fetches, AcceptSnapshot(f) PROVE TypeOK'
  <2>1. [fetch[f] EXCEPT !.phase = "draining", !.waits = current] \in FetchType
    BY FetchEdit
  <2>2. waiting' \in Seq(Fetches)
    BY <1>19 DEF AcceptSnapshot
  <2>3. subs' \in [Subs -> SubType]
    BY <1>19, CloseType DEF AcceptSnapshot
  <2> QED BY <1>19, <2>1, <2>2, <2>3 DEF AcceptSnapshot
<1>20. ASSUME NEW f \in Fetches, InstallSnapshot(f) PROVE TypeOK'
  <2>1. fetch' \in [Fetches -> FetchType]
    BY SMTT(30), <1>20 DEF InstallSnapshot, FetchType
  <2>2. waiting' \in Seq(Fetches)
    BY <1>20, WaitingType DEF InstallSnapshot
  <2>3. budget' \in 0..setting.readBudget /\ applied' \in 0..MaxDelta
    BY SMTT(30), <1>20, SettingType, SessionAssumption DEF InstallSnapshot
  <2>4. scene' \in [on: {0} \cup Fetches, applied: 0..MaxDelta]
    BY <1>20, SessionAssumption DEF InstallSnapshot
  <2> QED BY <1>20, <2>1, <2>2, <2>3, <2>4 DEF InstallSnapshot
<1>21. ASSUME NEW f \in Fetches, LoseSnapshot(f) PROVE TypeOK'
  BY <1>21, WaitingType DEF LoseSnapshot, FetchType
<1>22. ASSUME NEW s \in Subs, SubscribeResolves(s) PROVE TypeOK'
  <2>1. [subs[s] EXCEPT !.phase = IF subs[s].closed THEN "over" ELSE "open"]
          \in SubType
    BY SubEdits
  <2> QED BY <1>22, <2>1, SubUpdate DEF SubscribeResolves
<1>23. ASSUME NEW s \in Subs, SubscribeRejects(s) PROVE TypeOK'
  <2>1. Close(s) \in [Subs -> SubType]
    BY CloseType
  <2>2. [Close(s)[s] EXCEPT !.phase = "over"] \in SubType
    BY ZenonT(40), <2>1 DEF SubType
  <2> QED BY <1>23, <2>1, <2>2 DEF SubscribeRejects
<1>24. ASSUME NEW s \in Subs, NEW ok \in BOOLEAN, DisposeRaw(s, ok) PROVE TypeOK'
  <2> DEFINE r == [subs[s] EXCEPT !.drain = IF ok THEN "queue" ELSE "failed",
                                  !.phase = IF subs[s].phase = "open"
                                            THEN "over" ELSE subs[s].phase]
  <2>1. r \in SubType
    BY SubEdits
  <2>2. subs' = [subs EXCEPT ![s] = r]
    BY <1>24 DEF DisposeRaw
  <2> HIDE DEF r
  <2>3. subs' \in [Subs -> SubType]
    BY <2>1, <2>2, SubUpdate
  <2> QED BY <1>24, <2>3 DEF DisposeRaw
<1>25. ASSUME NEW s \in Subs, NEW ok \in BOOLEAN, ListenerSettles(s, ok) PROVE TypeOK'
  <2>1. [subs[s] EXCEPT !.result = IF ok THEN "applied" ELSE "thrown"] \in SubType
    BY SubEdits
  <2>2. subs' \in [Subs -> SubType]
    BY <1>25, <2>1, SubUpdate DEF ListenerSettles
  <2>3. subs[s].running.seq \in 0..MaxDelta
    BY SessionAssumption DEF SubType, Delta, NoDelta
  <2>4. scene' \in [on: {0} \cup Fetches, applied: 0..MaxDelta]
    BY <1>25, <2>3 DEF ListenerSettles
  <2> QED BY <1>25, <2>2, <2>4 DEF ListenerSettles
<1>26. ASSUME NEW s \in Subs, DeliverDelta(s) PROVE TypeOK'
  <2>1. Head(subs[s].queue) \in Delta /\ Tail(subs[s].queue) \in Seq(Delta)
    BY <1>26 DEF DeliverDelta, SubType
  <2> DEFINE d == Head(subs[s].queue)
             x == IF Deliverable(s, d) /\ ListenerTakes(s, d) THEN d ELSE NoDelta
             r == [subs[s] EXCEPT !.queue = Tail(subs[s].queue), !.running = x]
  <2>2. subs' = [subs EXCEPT ![s] = r]
    BY <1>26 DEF DeliverDelta
  <2>3. x \in Delta \cup {NoDelta}
    BY <2>1
  <2> HIDE DEF x
  <2>4. r \in SubType
    BY <2>1, <2>3, SubEdits
  <2> HIDE DEF r
  <2>5. subs' \in [Subs -> SubType]
    BY <2>2, <2>4, SubUpdate
  <2> QED BY <1>26, <2>5 DEF DeliverDelta
<1>27. ASSUME NEW s \in Subs, FinishDelta(s) PROVE TypeOK'
  BY <1>27 DEF FinishDelta, SubType, Delta, NoDelta
<1>28. ASSUME NEW s \in Subs, FinishDrain(s) PROVE TypeOK'
  <2>1. [subs[s] EXCEPT !.drain = "done"] \in SubType
    BY SubEdits
  <2> QED BY <1>28, <2>1, SubUpdate DEF FinishDrain
<1>29. CASE UNCHANGED vars
  BY <1>29 DEF vars, session
<1> HIDE DEF TypeOK
<1> QED
  BY <1>1, <1>2, <1>3, <1>4, <1>5, <1>6, <1>7, <1>8, <1>9, <1>10, <1>11, <1>12,
     <1>13, <1>14, <1>15, <1>16, <1>17, <1>18, <1>19, <1>20, <1>21, <1>22, <1>23,
     <1>24, <1>25, <1>26, <1>27, <1>28, <1>29
  DEF Next, SourceSteps, Calls, OtherReactions, FetchReacts, SubReacts

-----------------------------------------------------------------------------
\* s has called the listener with a delta of the last snapshot that the session
\* has not accepted yet, and the listener has not thrown.
InFlight(s) == /\ subs[s].on = last /\ subs[s].running # NoDelta
               /\ subs[s].result # "thrown"

\* A subscription is on a snapshot that getSnapshot() has returned, and only one
\* that was opened delivers.
SubsFollow ==
    \A s \in Subs :
        /\ subs[s].phase # "unused" =>
             subs[s].on # 0 /\ fetch[subs[s].on].phase = "over"
        /\ subs[s].phase = "unused" => subs[s].queue = << >>
        /\ subs[s].running # NoDelta => subs[s].phase # "unused"
        /\ subs[s].result # "none" => subs[s].running # NoDelta

\* The last snapshot is the one the viewer mounted, and nothing of it is
\* delivered once the session is disposed.
LastMounted ==
    last # 0 =>
        /\ fetch[last].phase = "over" /\ scene.on = last
        /\ disposed => \A s \in Subs : ~InFlight(s)

\* One delta of the last snapshot at a time: the listener refuses a second.
OneInFlight ==
    last # 0 => \A s, t \in Subs : InFlight(s) /\ InFlight(t) => s = t

\* It is the next one, and the scene is ahead of the session by exactly this
\* delta, from when the listener has applied it until the session accepts it.
InFlightIsNext ==
    last # 0 =>
        /\ \A s \in Subs : InFlight(s) =>
             /\ subs[s].running.seq = applied + 1
             /\ scene.applied = IF subs[s].result = "applied"
                                THEN applied + 1 ELSE applied
        /\ (\A s \in Subs : ~InFlight(s)) => scene.applied = applied

FollowInv == SubsFollow /\ LastMounted /\ OneInFlight /\ InFlightIsNext

\* A new session follows its (empty) scene.
LEMMA InitFollow == Init => FollowInv
<1> SUFFICES ASSUME Init PROVE FollowInv
  OBVIOUS
<1> QED BY DEF Init, FollowInv, SubsFollow, LastMounted, OneInFlight, InFlightIsNext

\* What a step may do to subs and fetch without a delta changing hands.
SubsStay ==
    \A s \in Subs :
        /\ subs'[s].on = subs[s].on /\ subs'[s].running = subs[s].running
        /\ subs'[s].result = subs[s].result
        /\ subs'[s].phase = "unused" <=> subs[s].phase = "unused"
        /\ subs[s].phase = "unused" => subs'[s].queue = subs[s].queue
FetchesStay ==
    \A f \in Fetches : fetch[f].phase = "over" => fetch'[f].phase = "over"

\* A step in which no delta changes hands and no fetch is undone keeps FollowInv.
LEMMA StayFollow ==
    ASSUME TypeOK, FollowInv, SubsStay, FetchesStay,
           UNCHANGED <<last, applied, disposed, scene>>
    PROVE  FollowInv'
<1> USE DEF FollowInv
<1>1. \A s \in Subs : InFlight(s)' <=> InFlight(s)
  BY DEF InFlight, SubsStay
<1>2. SubsFollow'
  <2> SUFFICES ASSUME NEW s \in Subs PROVE SubsFollow!(s)'
    BY DEF SubsFollow
  <2> QED BY DEF SubsFollow, SubsStay, FetchesStay, TypeOK, SubType
<1>3. LastMounted'
  BY <1>1 DEF LastMounted, FetchesStay, TypeOK
<1>4. OneInFlight'
  BY <1>1 DEF OneInFlight
<1>5. InFlightIsNext'
  BY <1>1 DEF InFlightIsNext, SubsStay
<1> QED BY <1>2, <1>3, <1>4, <1>5

\* Closing a subscription hands no delta on.
LEMMA CloseStays ==
    ASSUME TypeOK, NEW s \in {0} \cup Subs, subs' = Close(s)
    PROVE  SubsStay
BY DEF Close, SubsStay, TypeOK, SubType

\* Every step keeps FollowInv.
LEMMA NextFollow == TypeOK /\ FollowInv /\ [Next]_vars => FollowInv'
<1> SUFFICES ASSUME TypeOK, FollowInv, [Next]_vars PROVE FollowInv'
  OBVIOUS
<1> USE DEF fetchVars, deltaVars, eventVars, requestVars, sourceVars
<1>1. CASE Publish \/ AnnounceFailure \/ RepeatEvent \/ SubscribeEvents
              \/ UnsubscribeEvents \/ ReadRange \/ ResolvePick \/ DeliverEvent
              \/ UNCHANGED vars
  <2>1. SubsStay /\ FetchesStay /\ UNCHANGED <<last, applied, disposed, scene>>
    BY <1>1 DEF Publish, AnnounceFailure, RepeatEvent, SubscribeEvents,
                UnsubscribeEvents, ReadRange, ResolvePick, DeliverEvent, vars,
                session, SubsStay, FetchesStay
  <2> QED BY <2>1, StayFollow
<1>2. ASSUME NEW ok \in BOOLEAN, FinishEvent(ok) \/ FinishRead(ok) \/ FinishPick(ok)
      PROVE FollowInv'
  <2>1. SubsStay /\ FetchesStay /\ UNCHANGED <<last, applied, disposed, scene>>
    BY <1>2 DEF FinishEvent, FinishRead, FinishPick, SubsStay, FetchesStay
  <2> QED BY <2>1, StayFollow
<1>3. ASSUME NEW f \in Fetches,
             \/ AskSnapshot(f) \/ SourceAnswers(f) \/ SourceRejects(f)
             \/ KeepSnapshot(f) \/ LoseSnapshot(f)
      PROVE FollowInv'
  <2>1. UNCHANGED <<subs, last, applied, disposed, scene>>
    BY <1>3 DEF AskSnapshot, SourceAnswers, SourceRejects, KeepSnapshot, LoseSnapshot
  <2>2. FetchesStay
    BY <1>3 DEF AskSnapshot, SourceAnswers, SourceRejects, KeepSnapshot,
                LoseSnapshot, Turn, FetchesStay, TypeOK, FetchType
  <2> QED BY <2>1, <2>2, StayFollow DEF SubsStay
<1>4. ASSUME NEW f \in Fetches, AcceptSnapshot(f) PROVE FollowInv'
  <2>1. FetchesStay
    BY <1>4 DEF AcceptSnapshot, FetchesStay, TypeOK, FetchType
  <2>2. SubsStay
    BY <1>4, CloseStays DEF AcceptSnapshot, TypeOK
  <2> QED BY <1>4, <2>1, <2>2, StayFollow DEF AcceptSnapshot
<1>5. ASSUME NEW s \in Subs,
             \/ Unsubscribe(s) \/ SubscribeResolves(s) \/ FinishDrain(s)
             \/ \E d \in Delta : SendDelta(s, d)
             \/ \E ok \in BOOLEAN : DisposeRaw(s, ok)
      PROVE FollowInv'
  <2>1. FetchesStay /\ UNCHANGED <<last, applied, disposed, scene>>
    BY <1>5 DEF Unsubscribe, SubscribeResolves, FinishDrain, SendDelta,
                DisposeRaw, FetchesStay
  <2>2. CASE Unsubscribe(s)
    BY <2>1, <2>2, CloseStays, StayFollow DEF Unsubscribe
  <2>3. CASE SubscribeResolves(s) \/ FinishDrain(s)
    <3>1. SubsStay
      <4>1. CASE SubscribeResolves(s)
        BY <4>1 DEF SubscribeResolves, SubsStay, TypeOK, SubType
      <4>2. CASE FinishDrain(s)
        BY <4>2 DEF FinishDrain, SubsStay, TypeOK, SubType
      <4> QED BY <2>3, <4>1, <4>2
    <3> QED BY <2>1, <3>1, StayFollow
  <2>4. ASSUME NEW d \in Delta, SendDelta(s, d) PROVE FollowInv'
    <3>1. SubsStay
      BY <2>4 DEF SendDelta, SubsStay, TypeOK, SubType
    <3> QED BY <2>1, <3>1, StayFollow
  <2>5. ASSUME NEW ok \in BOOLEAN, DisposeRaw(s, ok) PROVE FollowInv'
    <3>1. SubsStay
      BY <2>5 DEF DisposeRaw, SubsStay, TypeOK, SubType
    <3> QED BY <2>1, <3>1, StayFollow
  <2> QED BY <1>5, <2>2, <2>3, <2>4, <2>5
<1>6. ASSUME NEW s \in Subs, SubscribeRejects(s) PROVE FollowInv'
  <2>1. FetchesStay /\ SubsStay
    BY <1>6 DEF SubscribeRejects, Close, FetchesStay, SubsStay, TypeOK, SubType
  <2> QED BY <1>6, <2>1, StayFollow DEF SubscribeRejects
<1>7. ASSUME NEW s \in Subs, Subscribe(s) PROVE FollowInv'
  <2> USE DEF FollowInv
  <2>1. /\ last # 0 /\ ~disposed /\ subs[s].phase = "unused"
        /\ subs' = [subs EXCEPT ![s] = [@ EXCEPT !.phase = "opening", !.on = last]]
        /\ UNCHANGED <<fetch, last, applied, disposed, scene>>
    BY <1>7 DEF Subscribe
  <2>2. subs[s].running = NoDelta /\ subs[s].result = "none"
    BY <2>1 DEF SubsFollow, TypeOK, SubType
  <2>3. \A t \in Subs : InFlight(t)' <=> InFlight(t)
    BY <2>1, <2>2 DEF InFlight, TypeOK, SubType
  <2>4. \A t \in Subs : InFlight(t) => subs'[t] = subs[t]
    BY <2>1, <2>2 DEF InFlight, TypeOK
  <2>5. SubsFollow'
    BY <2>1, <2>2 DEF SubsFollow, LastMounted, TypeOK, SubType
  <2>6. LastMounted'
    BY <2>1, <2>3 DEF LastMounted
  <2>7. OneInFlight'
    BY <2>1, <2>3 DEF OneInFlight
  <2>8. InFlightIsNext'
    BY <2>1, <2>3, <2>4 DEF InFlightIsNext
  <2> QED BY <2>5, <2>6, <2>7, <2>8
<1>8. ASSUME NEW s \in Subs, DeliverDelta(s) PROVE FollowInv'
  <2> USE DEF FollowInv
  <2> DEFINE d == Head(subs[s].queue)
             x == IF Deliverable(s, d) /\ ListenerTakes(s, d) THEN d ELSE NoDelta
  <2>1. subs' = [subs EXCEPT ![s] =
                   [@ EXCEPT !.queue = Tail(subs[s].queue), !.running = x]]
    BY <1>8 DEF DeliverDelta
  <2>2. /\ subs[s].queue # << >> /\ subs[s].running = NoDelta
        /\ UNCHANGED <<fetch, last, applied, disposed, scene>>
    BY <1>8 DEF DeliverDelta
  <2>3. subs[s].phase # "unused" /\ subs[s].result = "none"
    BY <2>2 DEF SubsFollow, TypeOK, SubType
  <2>4. SubsFollow'
    <3> HIDE DEF x
    <3> QED BY <2>1, <2>2, <2>3 DEF SubsFollow, TypeOK, SubType
  <2>5. \A t \in Subs \ {s} : subs'[t] = subs[t] /\ (InFlight(t)' <=> InFlight(t))
    BY <2>1, <2>2 DEF InFlight, TypeOK
  <2>6. /\ subs'[s].on = subs[s].on /\ subs'[s].running = x
        /\ subs'[s].result = "none"
    <3> HIDE DEF x
    <3> QED BY <2>1, <2>2, <2>3 DEF TypeOK, SubType
  <2>7. CASE x = NoDelta
    <3>1. \A t \in Subs : InFlight(t)' <=> InFlight(t)
      BY <2>2, <2>5, <2>6, <2>7 DEF InFlight
    <3>2. LastMounted' /\ OneInFlight'
      BY <2>2, <3>1 DEF LastMounted, OneInFlight
    <3>3. InFlightIsNext'
      BY <2>2, <2>5, <2>6, <2>7, <3>1 DEF InFlightIsNext, InFlight
    <3> QED BY <2>4, <3>2, <3>3
  <2>8. CASE x # NoDelta
    <3>1. /\ ~disposed /\ last = subs[s].on /\ scene.on = last
          /\ d.seq = applied + 1 /\ d.seq = scene.applied + 1
          /\ \A t \in Subs : subs[t].running = NoDelta \/ subs[t].result # "none"
          /\ x = d
      BY <2>8 DEF Deliverable, ListenerTakes
    <3>2. scene.applied = applied
      BY <3>1 DEF TypeOK
    <3>3. last # 0
      BY <2>3, <3>1 DEF SubsFollow
    <3>4. \A t \in Subs : ~InFlight(t)
      BY <3>1, <3>2, <3>3 DEF InFlight, InFlightIsNext, TypeOK, SubType
    <3>5. LastMounted'
      BY <2>2, <3>1, <3>3 DEF LastMounted
    <3>6. OneInFlight'
      BY <2>5, <3>4 DEF OneInFlight
    <3>7. InFlightIsNext'
      BY <2>2, <2>5, <2>6, <3>1, <3>2, <3>4, <2>8 DEF InFlightIsNext, InFlight
    <3> QED BY <2>4, <3>5, <3>6, <3>7
  <2> QED BY <2>7, <2>8
<1>9. ASSUME NEW s \in Subs, NEW ok \in BOOLEAN, ListenerSettles(s, ok) PROVE FollowInv'
  <2> USE DEF FollowInv
  <2> DEFINE r == IF ok THEN "applied" ELSE "thrown"
  <2>1. /\ subs[s].running # NoDelta /\ subs[s].result = "none"
        /\ subs' = [subs EXCEPT ![s].result = r]
        /\ UNCHANGED <<fetch, last, applied, disposed>>
        /\ scene' = IF ok /\ scene.on = subs[s].on
                    THEN [scene EXCEPT !.applied = subs[s].running.seq] ELSE scene
    BY <1>9 DEF ListenerSettles
  <2>2. SubsFollow'
    BY <2>1 DEF SubsFollow, TypeOK, SubType
  <2>3. \A t \in Subs \ {s} : subs'[t] = subs[t] /\ (InFlight(t)' <=> InFlight(t))
    BY <2>1 DEF InFlight, TypeOK
  <2>4. /\ subs'[s].on = subs[s].on /\ subs'[s].running = subs[s].running
        /\ subs'[s].result = r /\ scene'.on = scene.on
    BY <2>1 DEF TypeOK, SubType
  <2>5. \A t \in Subs : InFlight(t)' => InFlight(t)
    BY <2>1, <2>3, <2>4 DEF InFlight
  <2>6. LastMounted' /\ OneInFlight'
    BY <2>1, <2>4, <2>5 DEF LastMounted, OneInFlight
  <2>7. InFlightIsNext'
    <3> SUFFICES ASSUME last # 0 PROVE InFlightIsNext'
      BY <2>1 DEF InFlightIsNext
    <3>1. scene.on = last
      BY DEF LastMounted
    <3>2. CASE subs[s].on # last
      <4>1. scene' = scene /\ \A t \in Subs : InFlight(t)' <=> InFlight(t)
        BY <2>1, <2>3, <2>4, <3>1, <3>2 DEF InFlight
      <4>2. \A t \in Subs : InFlight(t) => subs'[t] = subs[t]
        BY <2>3, <3>2 DEF InFlight
      <4> QED BY <2>1, <4>1, <4>2 DEF InFlightIsNext
    <3>3. CASE subs[s].on = last
      <4>1. InFlight(s) /\ \A t \in Subs \ {s} : ~InFlight(t)
        BY <2>1, <3>3 DEF InFlight, OneInFlight
      <4>2. subs[s].running.seq = applied + 1 /\ scene.applied = applied
        BY <2>1, <4>1 DEF InFlightIsNext
      <4>3. CASE ok
        BY <2>1, <2>3, <2>4, <3>1, <3>3, <4>1, <4>2, <4>3
        DEF InFlightIsNext, InFlight, TypeOK
      <4>4. CASE ~ok
        BY <2>1, <2>3, <2>4, <3>3, <4>1, <4>2, <4>4 DEF InFlightIsNext, InFlight
      <4> QED BY <4>3, <4>4
    <3> QED BY <3>2, <3>3
  <2> QED BY <2>2, <2>6, <2>7
<1>10. ASSUME NEW s \in Subs, FinishDelta(s) PROVE FollowInv'
  <2> USE DEF FollowInv
  <2>1. /\ subs[s].result # "none"
        /\ subs' = [subs EXCEPT ![s].running = NoDelta, ![s].result = "none"]
        /\ applied' = IF subs[s].result = "applied" /\ StillActive(s)
                      THEN subs[s].running.seq ELSE applied
        /\ UNCHANGED <<fetch, last, disposed, scene>>
    BY <1>10 DEF FinishDelta
  <2>2. SubsFollow'
    BY <2>1 DEF SubsFollow, TypeOK, SubType
  <2>3. \A t \in Subs \ {s} : subs'[t] = subs[t] /\ (InFlight(t)' <=> InFlight(t))
    BY <2>1 DEF InFlight, TypeOK
  <2>4. subs'[s].running = NoDelta /\ ~InFlight(s)'
    BY <2>1 DEF TypeOK, SubType, InFlight
  <2>5. \A t \in Subs : InFlight(t)' => InFlight(t)
    BY <2>3, <2>4
  <2>6. LastMounted' /\ OneInFlight'
    BY <2>1, <2>5 DEF LastMounted, OneInFlight
  <2>7. InFlightIsNext'
    <3> SUFFICES ASSUME last # 0 PROVE InFlightIsNext'
      BY <2>1 DEF InFlightIsNext
    <3>1. CASE InFlight(s)
      <4>1. \A t \in Subs \ {s} : ~InFlight(t)
        BY <3>1 DEF OneInFlight
      <4>2. subs[s].result = "applied" /\ ~disposed /\ StillActive(s)
        BY <2>1, <3>1 DEF InFlight, LastMounted, StillActive, TypeOK, SubType
      <4>3. applied' = applied + 1 /\ scene.applied = applied + 1
        BY <2>1, <3>1, <4>2 DEF InFlightIsNext
      <4> QED BY <2>1, <2>3, <2>4, <4>1, <4>3 DEF InFlightIsNext
    <3>2. CASE ~InFlight(s)
      <4>1. applied' = applied
        BY <2>1, <3>2 DEF SubsFollow, InFlight, StillActive
      <4> QED BY <2>1, <2>3, <2>4, <3>2, <4>1 DEF InFlightIsNext
    <3> QED BY <3>1, <3>2
  <2> QED BY <2>2, <2>6, <2>7
<1>11. ASSUME NEW f \in Fetches, InstallSnapshot(f) PROVE FollowInv'
  <2> USE DEF FollowInv
  <2>1. /\ fetch[f].phase = "draining" /\ fetch' = [fetch EXCEPT ![f].phase = "over"]
        /\ last' = f /\ applied' = 0 /\ scene' = [on |-> f, applied |-> 0]
        /\ UNCHANGED <<subs, disposed>> /\ f # 0
    BY <1>11 DEF InstallSnapshot, Turn, Fetches
  <2>2. \A s \in Subs : subs[s].running # NoDelta => subs[s].on # f
    BY <2>1 DEF SubsFollow
  <2>3. \A s \in Subs : ~InFlight(s)'
    BY <2>1, <2>2 DEF InFlight
  <2>4. FetchesStay /\ fetch'[f].phase = "over"
    BY <2>1 DEF FetchesStay, TypeOK, FetchType
  <2>5. SubsFollow'
    BY <2>1, <2>4 DEF SubsFollow, FetchesStay, TypeOK, SubType
  <2>6. LastMounted' /\ OneInFlight' /\ InFlightIsNext'
    BY <2>1, <2>3, <2>4 DEF LastMounted, OneInFlight, InFlightIsNext
  <2> QED BY <2>5, <2>6
<1>12. CASE Dispose
  <2>1. last' = 0 /\ SubsStay /\ UNCHANGED fetch
    BY <1>12, CloseStays DEF Dispose, TypeOK
  <2>2. SubsFollow'
    BY <2>1 DEF SubsFollow, SubsStay, FollowInv, TypeOK, SubType
  <2> QED BY <2>1, <2>2 DEF FollowInv, LastMounted, OneInFlight, InFlightIsNext
<1> QED
  BY <1>1, <1>2, <1>3, <1>4, <1>5, <1>6, <1>7, <1>8, <1>9, <1>10, <1>11, <1>12
  DEF Next, SourceSteps, Calls, OtherReactions, FetchReacts, SubReacts

\* The inductive invariant of the session and its scene holds throughout.
LEMMA FollowInvariant == Spec => [](TypeOK /\ FollowInv)
<1>1. Init => TypeOK /\ FollowInv
  BY InitType, InitFollow
<1>2. TypeOK /\ FollowInv /\ [Next]_vars => (TypeOK /\ FollowInv)'
  BY NextType, NextFollow
<1> QED BY <1>1, <1>2, PTL DEF Spec

\* The variables of a session keep their types.
THEOREM TypeCorrect == Spec => []TypeOK
BY FollowInvariant, PTL

\* #renderRevisionId is never ahead of the scene and never behind it at rest.
THEOREM SessionFollowsScene == Spec => []RevisionFollowsScene
<1>1. TypeOK /\ FollowInv => RevisionFollowsScene
  <2> SUFFICES ASSUME TypeOK, FollowInv, last # 0, scene.on = last
               PROVE  /\ applied <= scene.applied
                      /\ (\A s \in Subs : subs[s].running = NoDelta) =>
                            applied = scene.applied
    BY DEF RevisionFollowsScene
  <2>1. (\A s \in Subs : ~InFlight(s)) => scene.applied = applied
    BY DEF FollowInv, InFlightIsNext
  <2>2. (\A s \in Subs : subs[s].running = NoDelta) => \A s \in Subs : ~InFlight(s)
    BY DEF InFlight
  <2>3. scene.applied \in {applied, applied + 1}
    BY <2>1 DEF FollowInv, InFlightIsNext
  <2> QED BY <2>1, <2>2, <2>3 DEF TypeOK
<1> QED BY <1>1, FollowInvariant, PTL

\* Only resolvePick() and its answer change the pick.
LEMMA PickSteps ==
    ASSUME [Next]_vars
    PROVE  ResolvePick \/ (\E ok \in BOOLEAN : FinishPick(ok)) \/ pick' = pick
<1> USE DEF requestVars
<1>1. SourceSteps => pick' = pick
  BY DEF SourceSteps, Publish, AnnounceFailure, RepeatEvent, SendDelta
<1>2. Calls => ResolvePick \/ pick' = pick
  BY DEF Calls, Subscribe, Unsubscribe, AskSnapshot, SubscribeEvents,
         UnsubscribeEvents, ReadRange, Dispose
<1>3. OtherReactions => (\E ok \in BOOLEAN : FinishPick(ok)) \/ pick' = pick
  BY DEF OtherReactions, DeliverEvent, FinishEvent, FinishRead
<1>4. \A f \in Fetches : FetchReacts(f) => pick' = pick
  BY DEF FetchReacts, SourceAnswers, SourceRejects, AcceptSnapshot,
         KeepSnapshot, InstallSnapshot, LoseSnapshot
<1>5. \A s \in Subs : SubReacts(s) => pick' = pick
  BY DEF SubReacts, SubscribeResolves, SubscribeRejects, DisposeRaw,
         ListenerSettles, DeliverDelta, FinishDelta, FinishDrain
<1> QED BY <1>1, <1>2, <1>3, <1>4, <1>5 DEF Next, vars, session

\* A pick is for a snapshot.
PickSent == pick.phase = "sent" => pick.on # 0

\* Every step keeps PickSent.
LEMMA NextPickSent == TypeOK /\ PickSent /\ [Next]_vars => PickSent'
<1> SUFFICES ASSUME TypeOK, PickSent, [Next]_vars PROVE PickSent'
  OBVIOUS
<1>1. CASE ResolvePick
  BY <1>1 DEF ResolvePick, PickSent
<1>2. ASSUME NEW ok \in BOOLEAN, FinishPick(ok) PROVE PickSent'
  BY <1>2 DEF FinishPick, PickSent, TypeOK, RequestType
<1>3. CASE pick' = pick
  BY <1>3 DEF PickSent
<1> QED BY <1>1, <1>2, <1>3, PickSteps

\* A pick is served for the snapshot and the revision the viewer shows.
THEOREM PickIsResolvedForScene == Spec => PickIsCurrent
<1> DEFINE A == pick.phase = "sent" /\ pick'.phase = "served" =>
                  /\ scene.on = pick.on
                  /\ \/ scene.applied = pick.at
                     \/ \E s \in Subs : /\ subs[s].result = "applied"
                                        /\ subs[s].running.seq = pick.at + 1
<1>1. TypeOK /\ FollowInv /\ PickSent /\ [Next]_vars => A
  <2> SUFFICES ASSUME TypeOK, FollowInv, PickSent, [Next]_vars,
                      pick.phase = "sent", pick'.phase = "served"
               PROVE  /\ scene.on = pick.on
                      /\ \/ scene.applied = pick.at
                         \/ \E s \in Subs : /\ subs[s].result = "applied"
                                            /\ subs[s].running.seq = pick.at + 1
    OBVIOUS
  <2>1. PICK ok \in BOOLEAN : FinishPick(ok)
    BY PickSteps DEF ResolvePick
  <2>2. last = pick.on /\ applied = pick.at
    BY <2>1 DEF FinishPick, StillAtPick, TypeOK, RequestType
  <2>3. last # 0
    BY <2>2 DEF PickSent
  <2>4. scene.on = last
    BY <2>3 DEF FollowInv, LastMounted
  <2>5. CASE \E s \in Subs : InFlight(s) /\ subs[s].result = "applied"
    BY <2>2, <2>3, <2>4, <2>5 DEF FollowInv, InFlightIsNext
  <2>6. CASE ~\E s \in Subs : InFlight(s) /\ subs[s].result = "applied"
    BY <2>2, <2>3, <2>4, <2>6 DEF FollowInv, InFlightIsNext
  <2> QED BY <2>5, <2>6
<1>2. Init => PickSent
  BY DEF Init, PickSent, NoRequest
<1>3. Spec => [][A]_vars
  BY <1>1, <1>2, NextPickSent, FollowInvariant, PTL DEF Spec
<1> QED BY <1>3 DEF PickIsCurrent

\* Only a delivery and its end change what a listener is doing.
LEMMA RunningSteps ==
    ASSUME TypeOK, [Next]_vars
    PROVE  \/ \A s \in Subs : subs'[s].running = subs[s].running
           \/ \E s \in Subs : DeliverDelta(s) \/ FinishDelta(s)
<1> DEFINE Same == \A s \in Subs : subs'[s].running = subs[s].running
<1> USE DEF deltaVars
<1>1. CASE UNCHANGED subs
  BY <1>1
<1>2. \A s \in {0} \cup Subs : subs' = Close(s) => Same
  BY CloseStays DEF SubsStay
<1>3. ASSUME NEW s \in Subs, NEW d \in Delta, SendDelta(s, d) PROVE Same
  BY <1>3 DEF SendDelta, TypeOK, SubType
<1>4. ASSUME NEW s \in Subs, Subscribe(s) PROVE Same
  BY <1>4 DEF Subscribe, TypeOK, SubType
<1>5. ASSUME NEW s \in Subs, SubscribeResolves(s) PROVE Same
  BY <1>5 DEF SubscribeResolves, TypeOK, SubType
<1>6. ASSUME NEW s \in Subs, SubscribeRejects(s) PROVE Same
  BY <1>6 DEF SubscribeRejects, Close, TypeOK, SubType
<1>7. ASSUME NEW s \in Subs, NEW ok \in BOOLEAN, DisposeRaw(s, ok) PROVE Same
  BY <1>7 DEF DisposeRaw, TypeOK, SubType
<1>8. ASSUME NEW s \in Subs, NEW ok \in BOOLEAN, ListenerSettles(s, ok) PROVE Same
  BY <1>8 DEF ListenerSettles, TypeOK, SubType
<1>9. ASSUME NEW s \in Subs, FinishDrain(s) PROVE Same
  BY <1>9 DEF FinishDrain, TypeOK, SubType
<1>10. CASE Calls
  <2>1. CASE Dispose
    BY <1>2, <2>1 DEF Dispose, TypeOK
  <2>2. ASSUME NEW s \in Subs, Unsubscribe(s) PROVE Same
    BY <1>2, <2>2 DEF Unsubscribe
  <2> HIDE DEF Same
  <2> QED BY <1>1, <1>4, <1>10, <2>1, <2>2
          DEF Calls, AskSnapshot, SubscribeEvents, UnsubscribeEvents, ReadRange,
              ResolvePick, Same
<1>11. CASE SourceSteps
  BY <1>1, <1>3, <1>11 DEF SourceSteps, Publish, AnnounceFailure, RepeatEvent
<1>12. CASE OtherReactions
  BY <1>1, <1>12
  DEF OtherReactions, DeliverEvent, FinishEvent, FinishRead, FinishPick
<1>13. ASSUME NEW f \in Fetches, FetchReacts(f) PROVE Same
  <2>1. CASE AcceptSnapshot(f)
    BY <1>2, <2>1 DEF AcceptSnapshot, TypeOK
  <2> QED BY <1>13, <2>1 DEF FetchReacts, SourceAnswers, SourceRejects,
                             KeepSnapshot, InstallSnapshot, LoseSnapshot
<1> HIDE DEF Same
<1>14. CASE UNCHANGED vars
  BY <1>14 DEF vars, session, Same
<1> QED BY <1>5, <1>6, <1>7, <1>8, <1>9, <1>10, <1>11, <1>12, <1>13, <1>14
        DEF Next, SubReacts, Same

\* Only a delivery starts the listener of revision events.
LEMMA EventsSteps ==
    ASSUME TypeOK, [Next]_vars
    PROVE  events'.running \in {events.running, NoEvent} \/ DeliverEvent
<1> USE DEF eventVars, TypeOK, EventsType
<1>1. SourceSteps => events'.running = events.running
  BY DEF SourceSteps, Publish, AnnounceFailure, RepeatEvent, SendDelta, Send
<1>2. Calls => events'.running = events.running
  BY DEF Calls, Subscribe, Unsubscribe, AskSnapshot, SubscribeEvents,
         UnsubscribeEvents, ReadRange, ResolvePick, Dispose
<1>3. OtherReactions => events'.running \in {events.running, NoEvent} \/ DeliverEvent
  BY DEF OtherReactions, FinishEvent, FinishRead, FinishPick
<1>4. \A f \in Fetches : FetchReacts(f) => events' = events
  BY DEF FetchReacts, SourceAnswers, SourceRejects, AcceptSnapshot,
         KeepSnapshot, InstallSnapshot, LoseSnapshot
<1>5. \A s \in Subs : SubReacts(s) => events' = events
  BY DEF SubReacts, SubscribeResolves, SubscribeRejects, DisposeRaw,
         ListenerSettles, DeliverDelta, FinishDelta, FinishDrain
<1>6. UNCHANGED vars => events' = events
  BY DEF vars, session
<1> QED BY <1>1, <1>2, <1>3, <1>4, <1>5, <1>6 DEF Next

\* Only readRange() and its answer change the read.
LEMMA ReadSteps ==
    ASSUME [Next]_vars
    PROVE  ReadRange \/ (\E ok \in BOOLEAN : FinishRead(ok)) \/ read' = read
<1> USE DEF requestVars
<1>1. SourceSteps => read' = read
  BY DEF SourceSteps, Publish, AnnounceFailure, RepeatEvent, SendDelta
<1>2. Calls => ReadRange \/ read' = read
  BY DEF Calls, Subscribe, Unsubscribe, AskSnapshot, SubscribeEvents,
         UnsubscribeEvents, ResolvePick, Dispose
<1>3. OtherReactions => (\E ok \in BOOLEAN : FinishRead(ok)) \/ read' = read
  BY DEF OtherReactions, DeliverEvent, FinishEvent, FinishPick
<1>4. \A f \in Fetches : FetchReacts(f) => read' = read
  BY DEF FetchReacts, SourceAnswers, SourceRejects, AcceptSnapshot,
         KeepSnapshot, InstallSnapshot, LoseSnapshot
<1>5. \A s \in Subs : SubReacts(s) => read' = read
  BY DEF SubReacts, SubscribeResolves, SubscribeRejects, DisposeRaw,
         ListenerSettles, DeliverDelta, FinishDelta, FinishDrain
<1> QED BY <1>1, <1>2, <1>3, <1>4, <1>5 DEF Next, vars, session

\* After dispose() no listener is called and no read or pick is served.
THEOREM DisposedIsSilent == Spec => SilentWhenDisposed
<1> DEFINE A == disposed =>
                  /\ \A s \in Subs : subs'[s].running \in {subs[s].running, NoDelta}
                  /\ events'.running \in {events.running, NoEvent}
                  /\ read'.phase # read.phase => read'.phase = "refused"
                  /\ pick'.phase # pick.phase => pick'.phase = "refused"
<1>1. TypeOK /\ [Next]_vars => A
  <2> SUFFICES ASSUME TypeOK, disposed, [Next]_vars PROVE A
    OBVIOUS
  <2>1. pick'.phase # pick.phase => pick'.phase = "refused"
    <3>1. ~ResolvePick
      BY DEF ResolvePick
    <3>2. ASSUME NEW ok \in BOOLEAN, FinishPick(ok) PROVE pick'.phase = "refused"
      BY <3>2 DEF FinishPick, StillAtPick, TypeOK, RequestType
    <3> QED BY <3>1, <3>2, PickSteps
  <2>2. read'.phase # read.phase => read'.phase = "refused"
    <3>1. ~ReadRange
      BY DEF ReadRange
    <3>2. ASSUME NEW ok \in BOOLEAN, FinishRead(ok) PROVE read'.phase = "refused"
      BY <3>2 DEF FinishRead, TypeOK, RequestType
    <3> QED BY <3>1, <3>2, ReadSteps
  <2>3. events'.running \in {events.running, NoEvent}
    <3>1. DeliverEvent => events'.running = NoEvent
      BY DEF DeliverEvent, InSequence, TypeOK, EventsType
    <3> QED BY <3>1, EventsSteps
  <2>4. \A s \in Subs : subs'[s].running \in {subs[s].running, NoDelta}
    <3>1. ASSUME NEW s \in Subs, FinishDelta(s), NEW t \in Subs
          PROVE  subs'[t].running \in {subs[t].running, NoDelta}
      BY <3>1 DEF FinishDelta, TypeOK, SubType
    <3>2. ASSUME NEW s \in Subs, DeliverDelta(s), NEW t \in Subs
          PROVE  subs'[t].running \in {subs[t].running, NoDelta}
      <4>1. ~Deliverable(s, Head(subs[s].queue))
        BY DEF Deliverable
      <4>2. subs' = [subs EXCEPT ![s] = [@ EXCEPT !.queue = Tail(subs[s].queue),
                                                  !.running = NoDelta]]
        BY <3>2, <4>1 DEF DeliverDelta
      <4> QED BY <4>2 DEF TypeOK, SubType
    <3> QED BY <3>1, <3>2, RunningSteps
  <2> QED BY <2>1, <2>2, <2>3, <2>4
<1>2. Spec => [][A]_vars
  BY <1>1, FollowInvariant, PTL DEF Spec
<1> QED BY <1>2 DEF SilentWhenDisposed

-----------------------------------------------------------------------------
\* The revision events that may still reach accept(), sent again or queued, and
\* those of them that it would take.
Messages == {sent, events.running} \cup {events.queue[i] : i \in DOMAIN events.queue}
Pending == {e \in Messages : e.seq > eventSeq /\ e.snap # 0}

\* Events are numbered in the order of the snapshots they announce, and each
\* announces the first snapshot of its revision.
MessagesOrdered ==
    /\ \A e \in Messages :
         /\ e.seq <= sent.seq /\ e.snap <= head
         /\ e.snap # 0 => e.snap > 1 /\ Revision(e.snap - 1) # Revision(e.snap)
    /\ \A e, g \in Messages :
         e.seq < g.seq /\ e.snap # 0 /\ g.snap # 0 => e.snap < g.snap

\* An answer is a snapshot the source has produced.
FetchedSoFar ==
    \A f \in Fetches :
        /\ SnapOf(f) <= head
        /\ fetch[f].phase \in {"answered", "draining"} \/ f = last => SnapOf(f) # 0

\* What is still to be announced is newer than what was announced, and than
\* every answer accepted, also those that wait for a disposal.
PendingAhead ==
    ~disposed => \A e \in Pending :
        /\ announced # 0 => e.snap > announced
        /\ \A f \in Fetches :
             fetch[f].phase = "draining" \/ f = last => e.snap > SnapOf(f)

\* What was announced is newer than the last snapshot.
AnnouncedAhead ==
    /\ announced # 0 => ~disposed /\ announced <= head
    /\ ~disposed /\ events.running # NoEvent => events.running.seq > eventSeq
    /\ announced # 0 /\ last # 0 => announced > SnapOf(last)

AheadInv == MessagesOrdered /\ FetchedSoFar /\ PendingAhead /\ AnnouncedAhead

\* The numbers of an event.
LEMMA EventNumbers ==
    \A e \in Event \cup {NoEvent} : e.seq \in Nat /\ e.snap \in Nat
BY DEF Event, NoEvent, Snapshots

\* The sequence number of the event sent last.
LEMMA SentNumber == TypeOK => sent.seq \in Nat
BY DEF TypeOK, Event, NoEvent

\* Messages are events.
LEMMA MessageType == TypeOK => Messages \subseteq Event \cup {NoEvent}
BY DEF Messages, TypeOK, EventsType

\* Sending adds one message.
LEMMA SentMessages ==
    ASSUME TypeOK, NEW e \in Event, Send(e)
    PROVE  /\ events'.running = events.running
           /\ {events'.queue[i] : i \in DOMAIN events'.queue}
                \subseteq {events.queue[i] : i \in DOMAIN events.queue} \cup {e}
<1>1. events'.running = events.running /\ events'.queue = Append(events.queue, e)
  BY DEF Send, TypeOK, EventsType
<1>2. events.queue \in Seq(Event)
  BY DEF TypeOK, EventsType
<1> QED BY <1>1, <1>2, AppendProperties

\* Delivering takes a message from the queue and adds none.
LEMMA TakenMessages ==
    ASSUME TypeOK, DeliverEvent
    PROVE  /\ Head(events.queue) \in Messages
           /\ events'.running \in {Head(events.queue), NoEvent}
           /\ Messages' \subseteq Messages \cup {NoEvent}
<1>1. events.queue \in Seq(Event) /\ events.queue # << >>
  BY DEF DeliverEvent, TypeOK, EventsType
<1>2. /\ events'.queue = Tail(events.queue) /\ sent' = sent
      /\ events'.running \in {Head(events.queue), NoEvent}
  BY DEF DeliverEvent, TypeOK, EventsType, sourceVars
<1>3. Head(events.queue) \in Messages
  BY <1>1 DEF Messages
<1>4. \A i \in DOMAIN Tail(events.queue) : Tail(events.queue)[i] \in Messages
  BY <1>1 DEF Messages
<1>5. Messages' = {sent', events'.running}
                    \cup {events'.queue[i] : i \in DOMAIN events'.queue}
  BY DEF Messages
<1> QED BY <1>2, <1>3, <1>4, <1>5 DEF Messages

\* What a step may do to the answers.
FetchesAhead ==
    \A f \in Fetches :
        /\ fetch'[f].snap <= head
        /\ fetch'[f].phase = "answered" => fetch'[f].snap # 0
        /\ f = last' =>
             /\ fetch[f].phase = "draining" \/ f = last
             /\ fetch'[f].snap = fetch[f].snap
        /\ fetch'[f].phase = "draining" =>
             \/ /\ fetch[f].phase = "draining" \/ f = last
                /\ fetch'[f].snap = fetch[f].snap
             \/ /\ fetch'[f].snap # 0
                /\ \A e \in Pending : e.snap > fetch'[f].snap

\* A step that leaves the fetches alone keeps what is known of the answers.
LEMMA QuietFetches ==
    ASSUME TypeOK, AheadInv, UNCHANGED <<fetch, last>>
    PROVE  FetchesAhead
BY DEF AheadInv, FetchedSoFar, SnapOf, FetchesAhead

\* A step that makes up no message and accepts no event keeps AheadInv.
LEMMA QuietAhead ==
    ASSUME TypeOK, TypeOK', AheadInv,
           UNCHANGED <<setting, sent, disposed, eventSeq>>, head' >= head,
           Messages' \subseteq Messages \cup {NoEvent},
           \/ events'.running \in {events.running, NoEvent}
           \/ events'.running.seq > eventSeq,
           announced' \in {announced, 0}, last' = last \/ announced' = 0,
           FetchesAhead
    PROVE  AheadInv'
<1> USE DEF AheadInv
<1>1. head \in Nat /\ head' \in Nat /\ announced \in Nat /\ eventSeq \in Nat
  BY SMTT(30) DEF TypeOK, Snapshots
<1>2. \A f \in Fetches : fetch'[f].snap \in Nat /\ fetch[f].snap \in Nat
  <2>1. FetchType' = FetchType
    BY DEF FetchType, Snapshots
  <2>2. fetch \in [Fetches -> FetchType] /\ fetch' \in [Fetches -> FetchType]
    BY <2>1 DEF TypeOK
  <2> QED BY <2>2 DEF FetchType, Snapshots
<1>3. MessagesOrdered'
  <2>1. \A n \in Snapshots : Revision(n)' = Revision(n)
    BY DEF Revision
  <2>2. NoEvent.seq = 0 /\ NoEvent.snap = 0 /\ sent.seq \in Nat
    BY SentNumber DEF NoEvent
  <2>3. \A e \in Messages : e.snap \in Nat
    BY MessageType, EventNumbers
  <2> QED BY <1>1, <2>1, <2>2, <2>3 DEF MessagesOrdered, Revision
<1>4. FetchedSoFar'
  BY <1>1, <1>2 DEF FetchedSoFar, SnapOf, FetchesAhead
<1>5. PendingAhead'
  <2>1. Pending' \subseteq Pending
    BY DEF Pending, NoEvent
  <2>2. SUFFICES ASSUME ~disposed, NEW e \in Pending
                 PROVE  /\ announced' # 0 => e.snap > announced'
                        /\ \A f \in Fetches :
                             fetch'[f].phase = "draining" \/ f = last' =>
                               e.snap > fetch'[f].snap
    BY <2>1 DEF PendingAhead, SnapOf
  <2> QED BY <2>2 DEF PendingAhead, SnapOf, FetchesAhead
<1>6. AnnouncedAhead'
  BY SMTT(30), <1>1 DEF AnnouncedAhead, SnapOf, TypeOK, FetchesAhead
<1> QED BY <1>3, <1>4, <1>5, <1>6

\* A message the source makes up now is about a snapshot nobody has fetched.
LEMMA SendAhead ==
    ASSUME TypeOK, FollowInv, AheadInv, TypeOK',
           UNCHANGED <<setting, fetch, last, announced, disposed, eventSeq>>,
           head' >= head, NEW e \in Event, sent' = e, Send(e),
           e.seq = sent.seq + 1,
           \/ e.snap = 0
           \/ /\ e.snap = head' /\ e.snap > head
              /\ Revision(e.snap - 1) # Revision(e.snap)
    PROVE  AheadInv'
<1> USE DEF AheadInv
<1>1. /\ Messages' \subseteq Messages \cup {e} /\ sent \in Messages
      /\ events'.running = events.running
  BY SentMessages DEF Messages
<1>2. /\ head \in Nat \ {0} /\ head' \in Nat /\ sent.seq \in Nat
      /\ e.seq \in Nat /\ e.snap \in Nat /\ eventSeq \in Nat /\ announced \in Nat
  <2>1. head \in Nat \ {0} /\ eventSeq \in Nat /\ announced \in Nat /\ head' \in Nat
    BY SMTT(30) DEF TypeOK, Snapshots
  <2>2. sent.seq \in Nat /\ e.seq \in Nat /\ e.snap \in Nat
    BY SentNumber, EventNumbers
  <2> QED BY <2>1, <2>2
<1>3. \A g \in Messages : g.seq \in Nat /\ g.snap \in Nat
  BY MessageType DEF Event, NoEvent, Snapshots
<1>4. MessagesOrdered'
  <2>1. \A g \in Messages : g.seq <= sent.seq /\ g.snap <= head
    BY DEF MessagesOrdered
  <2>2. \A g \in Messages' :
          /\ g.seq <= sent'.seq /\ g.snap <= head'
          /\ g.snap # 0 => g.snap > 1 /\ Revision(g.snap - 1) # Revision(g.snap)
    BY <1>1, <1>2, <1>3, <2>1 DEF MessagesOrdered
  <2>3. \A g, h \in Messages' :
          g.seq < h.seq /\ g.snap # 0 /\ h.snap # 0 => g.snap < h.snap
    BY <1>1, <1>2, <1>3, <2>1 DEF MessagesOrdered
  <2> QED BY <2>2, <2>3 DEF MessagesOrdered, Revision
<1>5. FetchedSoFar'
  <2>1. \A f \in Fetches : SnapOf(f) \in Nat
    BY SMTT(30) DEF SnapOf, TypeOK, FetchType, Snapshots
  <2> QED BY <1>2, <2>1 DEF FetchedSoFar, SnapOf
<1>6. PendingAhead'
  <2> SUFFICES ASSUME ~disposed, NEW g \in Pending'
               PROVE  /\ announced # 0 => g.snap > announced
                      /\ \A f \in Fetches :
                           fetch[f].phase = "draining" \/ f = last =>
                             g.snap > SnapOf(f)
    BY DEF PendingAhead, SnapOf
  <2>1. CASE g \in Messages
    <3>1. g \in Pending
      BY <2>1 DEF Pending
    <3> QED BY <3>1 DEF PendingAhead
  <2>2. CASE g = e
    <3>1. g.snap # 0
      BY <2>2 DEF Pending
    <3>2. announced # 0 => announced <= head
      BY DEF AnnouncedAhead
    <3>3. \A f \in Fetches : SnapOf(f) <= head /\ SnapOf(f) \in Nat
      BY SMTT(30) DEF FetchedSoFar, SnapOf, TypeOK, FetchType, Snapshots
    <3> QED BY <1>2, <2>2, <3>1, <3>2, <3>3
  <2> QED BY <1>1, <2>1, <2>2 DEF Pending
<1>7. AnnouncedAhead'
  BY <1>1, <1>2 DEF AnnouncedAhead, SnapOf
<1> QED BY <1>4, <1>5, <1>6, <1>7

\* While revisions do not recur, an answer the session accepts is older than
\* every announcement still to come.
LEMMA AcceptedIsPassed ==
    ASSUME TypeOK, FollowInv, AheadInv, RevisionsDoNotRecur,
           NEW f \in Fetches, fetch[f].phase = "answered", Newer(f),
           NEW e \in Pending
    PROVE  e.snap > SnapOf(f)
<1> USE DEF AheadInv
<1>1. /\ e \in Messages /\ e.snap > 1 /\ e.snap \in Snapshots
      /\ Revision(e.snap - 1) # Revision(e.snap)
  BY MessageType DEF Pending, MessagesOrdered, Event, NoEvent
<1>2. SnapOf(f) \in Snapshots /\ SnapOf(f) \in Nat
  BY DEF FetchedSoFar, SnapOf, TypeOK, FetchType, Snapshots
<1>3. CASE announced # 0
  BY <1>3 DEF Newer, PendingAhead
<1>4. CASE announced = 0
  <2> DEFINE b == IF last # 0 THEN SnapOf(last) ELSE 1
  <2>1. Revision(SnapOf(f)) = Revision(b)
    BY <1>4 DEF Newer, ExpectedRevision
  <2>2. b \in Snapshots /\ b < e.snap
    <3>1. CASE last # 0
      <4>1. last \in Fetches /\ SnapOf(last) # 0
        BY <3>1 DEF FetchedSoFar, TypeOK
      <4>2. e.snap > b
        BY <3>1, <4>1 DEF PendingAhead, Newer
      <4>3. b \in Snapshots
        BY <3>1, <4>1 DEF SnapOf, TypeOK, FetchType
      <4> QED BY <4>2, <4>3 DEF Snapshots
    <3>2. CASE last = 0
      BY <1>1, <3>2 DEF Snapshots
    <3> QED BY <3>1, <3>2
  <2> HIDE DEF b
  <2>3. ASSUME e.snap <= SnapOf(f) PROVE FALSE
    <3>1. /\ b \in Nat /\ e.snap \in Nat /\ e.snap - 1 \in Snapshots
          /\ b <= e.snap - 1 /\ e.snap - 1 < SnapOf(f)
      BY <1>1, <1>2, <2>2, <2>3 DEF Snapshots
    <3>2. Revision(e.snap) = Revision(b)
      BY <1>1, <1>2, <2>1, <2>2, <2>3, <3>1 DEF RevisionsDoNotRecur
    <3>3. Revision(e.snap - 1) = Revision(b)
      BY <1>2, <2>1, <2>2, <3>1 DEF RevisionsDoNotRecur
    <3> QED BY <1>1, <3>2, <3>3
  <2> QED BY <1>1, <1>2, <2>3 DEF Snapshots
<1> QED BY <1>3, <1>4

\* While revisions do not recur every step keeps AheadInv.
LEMMA NextAhead ==
    TypeOK /\ FollowInv /\ AheadInv /\ RevisionsDoNotRecur /\ [Next]_vars => AheadInv'
<1> SUFFICES ASSUME TypeOK, FollowInv, AheadInv, RevisionsDoNotRecur, [Next]_vars
             PROVE AheadInv'
  OBVIOUS
<1>t. TypeOK' /\ setting' = setting
  BY NextType, SettingStays
<1> USE <1>t DEF fetchVars, deltaVars, eventVars, requestVars, sourceVars
<1>1. CASE Publish
  <2>1. head \in Nat /\ head' = head + 1
    BY <1>1 DEF Publish, TypeOK, Snapshots
  <2>2. CASE Revision(head') # Revision(head)
    <3> DEFINE e == [seq |-> sent.seq + 1, snap |-> head', good |-> head']
    <3>1. sent' = e /\ Send(e)
      BY <1>1, <2>2 DEF Publish
    <3>2. e \in Event
      <4>1. sent.seq + 1 \in Nat \ {0}
        BY SentNumber
      <4> QED BY <4>1 DEF Event, TypeOK, Snapshots
    <3>3. e.snap - 1 = head /\ e.snap > head
      BY <2>1
    <3>4. UNCHANGED <<fetch, last, announced, disposed, eventSeq>>
      BY <1>1 DEF Publish
    <3> HIDE DEF e
    <3>5. e.seq = sent.seq + 1 /\ e.snap = head'
      BY DEF e
    <3> QED BY <2>1, <2>2, <3>1, <3>2, <3>3, <3>4, <3>5, SendAhead
  <2>3. CASE Revision(head') = Revision(head)
    <3>1. UNCHANGED <<sent, events, fetch, last, announced, disposed, eventSeq>>
      BY <1>1, <2>3 DEF Publish
    <3>2. Messages' = Messages
      BY <3>1 DEF Messages
    <3> QED BY <2>1, <3>1, <3>2, QuietAhead, QuietFetches
  <2> QED BY <2>2, <2>3
<1>2. CASE AnnounceFailure
  <2> DEFINE e == [seq |-> sent.seq + 1, snap |-> 0, good |-> head]
  <2>1. sent' = e /\ Send(e) /\ head' = head
    BY <1>2 DEF AnnounceFailure
  <2>2. e \in Event
    <3>1. sent.seq + 1 \in Nat \ {0}
      BY SentNumber
    <3> QED BY <3>1 DEF Event, TypeOK, Snapshots
  <2>3. UNCHANGED <<fetch, last, announced, disposed, eventSeq>>
    BY <1>2 DEF AnnounceFailure
  <2>4. e.seq = sent.seq + 1 /\ e.snap = 0 /\ head' >= head
    BY <2>1 DEF TypeOK, Snapshots
  <2> HIDE DEF e
  <2> QED BY <2>1, <2>2, <2>3, <2>4, SendAhead
<1>3. CASE RepeatEvent
  <2>1. Send(sent) /\ sent \in Event
    BY <1>3 DEF RepeatEvent, TypeOK
  <2>2. UNCHANGED <<sent, head, fetch, last, announced, disposed, eventSeq>>
    BY <1>3 DEF RepeatEvent
  <2>3. Messages' \subseteq Messages /\ events'.running = events.running
    BY <2>1, <2>2, SentMessages DEF Messages
  <2>4. head' >= head
    BY <2>2 DEF TypeOK, Snapshots
  <2> QED BY <2>2, <2>3, <2>4, QuietAhead, QuietFetches
<1>4. CASE DeliverEvent
  <2>1. UNCHANGED <<sent, head, fetch, last, announced, disposed, eventSeq>>
    BY <1>4 DEF DeliverEvent
  <2>2. Head(events.queue).seq > eventSeq \/ events'.running = NoEvent
    BY <1>4 DEF DeliverEvent, InSequence, TypeOK, EventsType
  <2>3. head' >= head
    BY <2>1 DEF TypeOK, Snapshots
  <2> QED BY <1>4, <2>1, <2>2, <2>3, TakenMessages, QuietAhead, QuietFetches
<1>5. ASSUME NEW ok \in BOOLEAN, FinishEvent(ok) PROVE AheadInv'
  <2>1. UNCHANGED <<sent, head, fetch, last, disposed>>
    BY <1>5 DEF FinishEvent
  <2>2. events'.queue = events.queue /\ events'.running = NoEvent
    BY <1>5 DEF FinishEvent, TypeOK, EventsType
  <2>3. Messages' \subseteq Messages \cup {NoEvent}
    BY <2>1, <2>2 DEF Messages
  <2>4. head' >= head
    BY <2>1 DEF TypeOK, Snapshots
  <2>5. CASE ~(ok /\ events.phase = "open" /\ ~disposed)
    <3>1. UNCHANGED <<eventSeq, announced>>
      BY <1>5, <2>5 DEF FinishEvent
    <3> QED BY <2>1, <2>2, <2>3, <2>4, <3>1, QuietAhead, QuietFetches
  <2>6. CASE ok /\ events.phase = "open" /\ ~disposed
    <3> USE DEF AheadInv
    <3> DEFINE e == events.running
    <3>1. /\ e # NoEvent /\ eventSeq' = e.seq
          /\ announced' = IF e.snap # 0 THEN e.snap
                          ELSE IF announced # 0
                                  /\ Revision(e.good) # Revision(announced)
                               THEN 0 ELSE announced
      BY <1>5, <2>6 DEF FinishEvent
    <3>2. e \in Messages /\ e.seq > eventSeq /\ e.seq \in Nat /\ e.snap \in Nat
      BY <2>6, <3>1, MessageType, EventNumbers DEF Messages, AnnouncedAhead
    <3>3. eventSeq \in Nat /\ announced \in Nat
      BY DEF TypeOK, Snapshots
    <3>4. \A g \in Messages : g.seq \in Nat /\ g.snap \in Nat
      BY MessageType, EventNumbers
    <3>5. \A g \in Pending' : g \in Pending /\ g.seq > e.seq
      BY <2>3, <3>1, <3>2, <3>3, <3>4 DEF Pending, NoEvent
    <3> HIDE DEF e
    <3>6. MessagesOrdered' /\ FetchedSoFar'
      <4>1. NoEvent.seq = 0 /\ NoEvent.snap = 0 /\ head \in Nat
        BY DEF NoEvent, TypeOK, Snapshots
      <4>2. \A n : Revision(n)' = Revision(n)
        BY DEF Revision
      <4>3. MessagesOrdered'
        BY <2>1, <2>3, <3>4, <4>1, <4>2, SentNumber DEF MessagesOrdered, Revision
      <4> QED BY <2>1, <4>3 DEF FetchedSoFar, SnapOf
    <3>7. PendingAhead'
      <4> SUFFICES ASSUME NEW g \in Pending
                   PROVE  g.seq > e.seq =>
                            /\ announced' # 0 => g.snap > announced'
                            /\ \A f \in Fetches :
                                 fetch[f].phase = "draining" \/ f = last =>
                                   g.snap > SnapOf(f)
        BY <2>1, <3>5 DEF PendingAhead, SnapOf
      <4>1. g.seq > e.seq /\ e.snap # 0 => g.snap > e.snap
        BY <3>2, <3>4 DEF MessagesOrdered, Pending
      <4> QED BY <2>6, <3>1, <4>1 DEF PendingAhead
    <3>8. AnnouncedAhead'
      <4>1. e.snap # 0 => e \in Pending
        BY <3>2 DEF Pending
      <4>2. e.snap # 0 => e.snap <= head /\ (last # 0 => e.snap > SnapOf(last))
        BY <2>6, <3>2, <4>1 DEF MessagesOrdered, PendingAhead, TypeOK
      <4>3. announced' # 0 => /\ announced' \in {e.snap, announced}
                              /\ announced' = e.snap => e.snap # 0
        BY <3>1
      <4>4. announced' # 0 => announced' <= head /\ (last # 0 => announced' > SnapOf(last))
        BY <4>2, <4>3 DEF AnnouncedAhead
      <4> QED BY <2>1, <2>2, <2>6, <4>4 DEF AnnouncedAhead, SnapOf
    <3> QED BY <3>6, <3>7, <3>8
  <2> QED BY <2>5, <2>6
<1>6. CASE Dispose
  <2> USE DEF AheadInv
  <2>1. /\ UNCHANGED <<sent, head, fetch>> /\ disposed'
        /\ last' = 0 /\ announced' = 0
    BY <1>6 DEF Dispose
  <2>2. events'.queue = events.queue /\ events'.running = events.running
    BY <1>6 DEF Dispose, TypeOK, EventsType
  <2>3. Messages' = Messages
    BY <2>1, <2>2 DEF Messages
  <2>4. MessagesOrdered'
    BY <2>1, <2>3 DEF MessagesOrdered, Revision
  <2>5. FetchedSoFar'
    BY <2>1 DEF FetchedSoFar, SnapOf, Fetches
  <2> QED BY <2>1, <2>4, <2>5 DEF PendingAhead, AnnouncedAhead
<1>7. CASE SubscribeEvents \/ UnsubscribeEvents
  <2>1. UNCHANGED <<sent, head, fetch, last, announced, disposed, eventSeq>>
    BY <1>7 DEF SubscribeEvents, UnsubscribeEvents
  <2>2. events'.queue = events.queue /\ events'.running = events.running
    BY <1>7 DEF SubscribeEvents, UnsubscribeEvents, TypeOK, EventsType
  <2>3. Messages' = Messages /\ head' >= head
    BY <2>1, <2>2 DEF Messages, TypeOK, Snapshots
  <2> QED BY <2>1, <2>2, <2>3, QuietAhead, QuietFetches
<1>8. CASE UNCHANGED <<sent, head, fetch, last, announced, disposed, eventSeq, events>>
  <2>1. Messages' = Messages /\ head' >= head
    BY <1>8 DEF Messages, TypeOK, Snapshots
  <2> QED BY <1>8, <2>1, QuietAhead, QuietFetches
<1>9. ASSUME NEW f \in Fetches, FetchReacts(f) \/ AskSnapshot(f) PROVE AheadInv'
  <2>1. UNCHANGED <<sent, head, disposed, eventSeq, events>>
    BY <1>9 DEF FetchReacts, SourceAnswers, SourceRejects, AcceptSnapshot,
                KeepSnapshot, InstallSnapshot, LoseSnapshot, AskSnapshot
  <2>2. Messages' = Messages /\ head' >= head
    BY <2>1 DEF Messages, TypeOK, Snapshots
  <2>3. UNCHANGED <<last, announced>> \/ (last' = f /\ announced' = 0)
    BY <1>9 DEF FetchReacts, SourceAnswers, SourceRejects, AcceptSnapshot,
                KeepSnapshot, InstallSnapshot, LoseSnapshot, AskSnapshot
  <2>4. FetchesAhead
    <3> USE DEF AheadInv, FetchesAhead
    <3>1. \A g \in Fetches : SnapOf(g) <= head /\ fetch[g].snap = SnapOf(g)
      BY DEF FetchedSoFar, SnapOf
    <3>2. last # 0 => fetch[last].phase = "over"
      BY DEF FollowInv, LastMounted
    <3>3. head # 0 /\ head <= head
      BY DEF TypeOK, Snapshots
    <3>4. CASE AskSnapshot(f) \/ SourceRejects(f) \/ KeepSnapshot(f)
      <4>1. UNCHANGED last /\ \E n \in {"asked", "over"} :
                                 fetch' = [fetch EXCEPT ![f].phase = n]
        BY <3>4 DEF AskSnapshot, SourceRejects, KeepSnapshot
      <4> QED BY <3>1, <4>1 DEF FetchedSoFar, TypeOK, FetchType
    <3>5. CASE SourceAnswers(f)
      BY <3>1, <3>2, <3>3, <3>5 DEF SourceAnswers, FetchedSoFar, TypeOK, FetchType
    <3>6. CASE AcceptSnapshot(f)
      <4>1. \A e \in Pending : e.snap > SnapOf(f)
        BY <3>6, AcceptedIsPassed DEF AcceptSnapshot
      <4> QED BY <3>1, <3>6, <4>1 DEF AcceptSnapshot, FetchedSoFar, TypeOK, FetchType
    <3>7. CASE InstallSnapshot(f) \/ LoseSnapshot(f)
      BY <3>1, <3>7 DEF InstallSnapshot, LoseSnapshot, Turn, FetchedSoFar,
                        TypeOK, FetchType
    <3> QED BY <1>9, <3>4, <3>5, <3>6, <3>7 DEF FetchReacts
  <2> QED BY <2>1, <2>2, <2>3, <2>4, QuietAhead
<1>10. ASSUME NEW s \in Subs, SubReacts(s) PROVE AheadInv'
  BY <1>8, <1>10 DEF SubReacts, SubscribeResolves, SubscribeRejects, DisposeRaw,
                     ListenerSettles, DeliverDelta, FinishDelta, FinishDrain
<1>11. CASE UNCHANGED vars
  BY <1>8, <1>11 DEF vars, session
<1>12. CASE SourceSteps
  BY <1>1, <1>2, <1>3, <1>8, <1>12 DEF SourceSteps, SendDelta
<1>13. CASE Calls
  BY <1>6, <1>7, <1>8, <1>9, <1>13
  DEF Calls, Subscribe, Unsubscribe, ReadRange, ResolvePick
<1>14. CASE OtherReactions
  BY <1>4, <1>5, <1>8, <1>14 DEF OtherReactions, FinishRead, FinishPick
<1> QED BY <1>9, <1>10, <1>11, <1>12, <1>13, <1>14 DEF Next

\* A new session has no message and no answer.
LEMMA InitAhead == Init => AheadInv
<1> SUFFICES ASSUME Init PROVE AheadInv
  OBVIOUS
<1>1. Messages = {NoEvent}
  BY DEF Init, Messages
<1>2. MessagesOrdered
  BY <1>1 DEF MessagesOrdered, Init, NoEvent
<1>3. FetchedSoFar /\ PendingAhead /\ AnnouncedAhead
  BY <1>1 DEF Init, FetchedSoFar, PendingAhead, Pending, AnnouncedAhead, NoEvent,
              SnapOf, Fetches
<1> QED BY <1>2, <1>3 DEF AheadInv

\* An announcement the session holds is about a snapshot it has still to fetch.
THEOREM AnnouncementIsAhead == Spec => []AnnouncedIsAhead
<1>1. Init => TypeOK /\ FollowInv /\ (RevisionsDoNotRecur => AheadInv)
  BY InitType, InitFollow, InitAhead
<1>2. /\ TypeOK /\ FollowInv /\ (RevisionsDoNotRecur => AheadInv)
      /\ [Next]_vars
      => (TypeOK /\ FollowInv /\ (RevisionsDoNotRecur => AheadInv))'
  <2>1. [Next]_vars => (RevisionsDoNotRecur' => RevisionsDoNotRecur)
    BY SettingStays DEF RevisionsDoNotRecur, Snapshots, Revision
  <2> QED BY <2>1, NextType, NextFollow, NextAhead
<1>3. AheadInv => AnnouncedIsAhead
  BY DEF AheadInv, AnnouncedAhead, AnnouncedIsAhead
<1>4. TypeOK /\ FollowInv /\ (RevisionsDoNotRecur => AheadInv) => AnnouncedIsAhead
  BY <1>3 DEF AnnouncedIsAhead
<1> QED BY <1>1, <1>2, <1>4, PTL DEF Spec
=============================================================================
