-------------------------- MODULE HostedRangeProofs --------------------------
(* The bytes a read gets are those it asked for: AnswersBelong of           *)
(* RangeTransport, for any number of reads, caches, channels and slots, and *)
(* the types of the composition it rests on.                                *)
(*                                                                          *)
(* An answer names a number and a cache, and every open source hears it.    *)
(* That suffices because whatever is on its way was asked for (Asks), a     *)
(* source never uses a number twice (IdsApart), and, as long as the page is *)
(* not loaded anew and every retry builds another cache, no two sources     *)
(* have one cache (CachesApart).                                            *)
EXTENDS HostedCacheProofs, SequenceTheorems

-----------------------------------------------------------------------------
(* The types, to the last field. RangeTypeOK says less of the channels and  *)
(* messages than the proofs need.                                           *)

SlotType == [stage: {"idle", "reading", "posting"}, request: Requests \cup {NoRequest}]
ChannelType ==
  [cache: Nat, open: BOOLEAN, queue: Seq(Requests), closing: Seq(Requests),
   slots: [1 .. MaxConcurrent -> SlotType]]
MessageType ==
  [type: {"response", "ready"}, cache: Nat, id: Nat, ok: BOOLEAN,
   range: Ranges \cup {<<0, 0>>}]

SourceType == [cache: Nat, nextId: Nat, state: {"open", "disposed", "gone"}]
ReadType == [source: DOMAIN sources, id: Nat, range: Ranges,
             state: {"waiting", "done", "failed", "disposed", "gone"},
             got: [cache: Nat, range: Ranges \cup {<<0, 0>>}]]
\* A channel queues no more than MAX_QUEUED_READS, and a busy slot has a request.
QueuesBounded == \A c \in DOMAIN channels : Len(channels[c].queue) <= MaxQueued
Filled(channel) ==
  \A s \in 1 .. MaxConcurrent :
    channel.slots[s].stage # "idle" => channel.slots[s].request \in Requests
SlotsFilled == \A c \in DOMAIN channels : Filled(channels[c])

TransportInv ==
  /\ bounds \in RangeSettings /\ shown \in BOOLEAN /\ hides \in 0 .. bounds.hides
  /\ sources \in Seq(SourceType) /\ reads \in Seq(ReadType)
  /\ toHost \in Seq(Requests) /\ toWebview \in Seq(MessageType)
  /\ channels \in Seq(ChannelType) /\ channels # <<>>
  /\ QueuesBounded /\ SlotsFilled
  /\ openRevision = Len(sources) /\ OpeningTypeOK

Items(list) == {list[i] : i \in DOMAIN list}

InSlots(channel) ==
  {channel.slots[s].request :
     s \in {t \in 1 .. MaxConcurrent : channel.slots[t].stage # "idle"}}
\* The requests a channel has: queued, to be refused, or being read.
Held(channel) == Items(channel.queue) \cup Items(channel.closing) \cup InSlots(channel)

\* What a setting of the transport contains.
LEMMA Settings ==
  ASSUME bounds \in RangeSettings
  PROVE  /\ bounds.ranges \in SUBSET Ranges /\ bounds.ranges # {}
         /\ bounds.hides \in Nat /\ bounds.retries \in Nat
<1>1. bounds \in [ranges: (SUBSET Ranges) \ {{}}, retries: Nat, hides: Nat,
                  rebuilt: BOOLEAN, faults: BOOLEAN]
  BY RangeAssumption
<1> QED BY <1>1

\* The length of a queue is a number.
LEMMA QueueLength ==
  ASSUME NEW channel \in ChannelType
  PROVE  Len(channel.queue) \in Nat
BY LenProperties DEF ChannelType

\* pump() only moves a request from the queue to a slot.
LEMMA PumpType ==
  ASSUME NEW channel \in ChannelType
  PROVE  /\ Pump(channel) \in ChannelType
         /\ Filled(channel) => Filled(Pump(channel))
         /\ Held(Pump(channel)) \subseteq Held(channel)
         /\ Len(Pump(channel).queue) <= Len(channel.queue)
         /\ Pump(channel).cache = channel.cache
         /\ Pump(channel).open = channel.open
         /\ Pump(channel).closing = channel.closing
<1> DEFINE free == {s \in DOMAIN channel.slots : channel.slots[s].stage = "idle"}
           slot == CHOOSE s \in free : \A t \in free : s <= t
<1>1. CASE ~(channel.open /\ free # {} /\ channel.queue # <<>>)
  <2>1. Pump(channel) = channel
    BY <1>1 DEF Pump
  <2>2. Len(channel.queue) \in Nat
    BY DEF ChannelType
  <2> QED BY <2>1, <2>2
<1>2. CASE channel.open /\ free # {} /\ channel.queue # <<>>
  <2> DEFINE taken == [stage |-> "reading", request |-> Head(channel.queue)]
             slots == [channel.slots EXCEPT ![slot] = taken]
             rest  == Tail(channel.queue)
  <2>1. Pump(channel) = [channel EXCEPT !.queue = rest, !.slots = slots]
    BY <1>2 DEF Pump
  <2>2. /\ Head(channel.queue) \in Requests /\ Tail(channel.queue) \in Seq(Requests)
        /\ Len(Tail(channel.queue)) <= Len(channel.queue)
    BY <1>2 DEF ChannelType
  <2>3. taken \in SlotType /\ taken.request = Head(channel.queue)
    BY <2>2 DEF SlotType
  <2> HIDE DEF slot, taken
  <2>4. /\ slots \in [1 .. MaxConcurrent -> SlotType]
        /\ \A s \in 1 .. MaxConcurrent : slots[s] = channel.slots[s] \/ slots[s] = taken
    BY <2>3 DEF ChannelType
  <2> HIDE DEF slots, rest
  <2>a. /\ Pump(channel) \in ChannelType
        /\ Pump(channel).queue = rest
        /\ Pump(channel).slots = slots
        /\ Pump(channel).cache = channel.cache
        /\ Pump(channel).open = channel.open
        /\ Pump(channel).closing = channel.closing
    BY <2>1, <2>2, <2>4 DEF ChannelType, rest
  <2>5. /\ Pump(channel) \in ChannelType
        /\ Pump(channel).queue = Tail(channel.queue)
        /\ Pump(channel).cache = channel.cache
        /\ Pump(channel).open = channel.open
        /\ Pump(channel).closing = channel.closing
        /\ \A s \in 1 .. MaxConcurrent :
             \/ Pump(channel).slots[s] = channel.slots[s]
             \/ Pump(channel).slots[s].request = Head(channel.queue)
    BY <2>3, <2>4, <2>a DEF rest
  <2>6. Items(Tail(channel.queue)) \cup {Head(channel.queue)} \subseteq Items(channel.queue)
    BY <1>2 DEF Items, ChannelType
  <2>7. Held(Pump(channel)) \subseteq Held(channel)
    BY <2>5, <2>6 DEF Held, InSlots
  <2> QED BY <2>2, <2>5, <2>7 DEF Filled
<1> QED BY <1>1, <1>2

\* The transport begins typed.
LEMMA InitTransport == Init => TransportInv
<1> SUFFICES ASSUME Init PROVE TransportInv
  OBVIOUS
<1> USE DEF Init, RangeInit
<1>1. NewChannel(1) \in ChannelType
  BY DEF NewChannel, ChannelType, SlotType, Idle
<1>2. Announcement(1) \in MessageType
  BY DEF Announcement, MessageType
<1>3. QueuesBounded /\ SlotsFilled
  BY RangeAssumption DEF QueuesBounded, SlotsFilled, Filled, NewChannel, Idle
<1>4. OpeningTypeOK /\ openRevision = Len(sources)
  BY InitOpeningInv DEF OpeningInv, OpeningInit
<1> QED BY <1>1, <1>2, <1>3, <1>4, Settings DEF TransportInv

\* The typing that the proofs use implies the one that is checked.
LEMMA TransportTyped == TransportInv => TypeOK
<1> SUFFICES ASSUME TransportInv PROVE TypeOK
  OBVIOUS
<1>1. \A m \in DOMAIN toWebview : toWebview[m] \in MessageType
  BY DEF TransportInv
<1>2. \A c \in DOMAIN channels : channels[c] \in ChannelType
  BY DEF TransportInv
<1>3. \A c \in DOMAIN channels :
        /\ Len(channels[c].queue) <= MaxQueued
        /\ \A s \in DOMAIN channels[c].slots :
             channels[c].slots[s].stage \in {"idle", "reading", "posting"}
  BY <1>2 DEF TransportInv, QueuesBounded, ChannelType, SlotType
<1>4. \A m \in DOMAIN toWebview : toWebview[m].type \in {"response", "ready"}
  BY <1>1 DEF MessageType
<1>5. RangeTypeOK
  BY <1>3, <1>4 DEF TransportInv, RangeTypeOK, SourceType, ReadType
<1> QED BY <1>5 DEF TransportInv, TypeOK

\* Replacing an element of a sequence.
LEMMA Replaced ==
  ASSUME NEW S, NEW list \in Seq(S), NEW i \in DOMAIN list, NEW x \in S
  PROVE  LET new == [list EXCEPT ![i] = x]
         IN  /\ new \in Seq(S) /\ Len(new) = Len(list) /\ DOMAIN new = DOMAIN list
             /\ new[i] = x /\ \A j \in DOMAIN list \ {i} : new[j] = list[j]
OBVIOUS

\* A function on the first numbers is a sequence.
LEMMA FunctionIsSeq ==
  ASSUME NEW n \in Nat, NEW S, NEW f \in [1 .. n -> S]
  PROVE  f \in Seq(S) /\ Len(f) = n /\ DOMAIN f = 1 .. n
BY IsASeq, LenProperties

\* What ends sources touches nothing but states.
LEMMA LeavingKeeps ==
  ASSUME sources \in Seq(SourceType), reads \in Seq(ReadType),
         NEW which, NEW how \in {"disposed", "gone"}, NEW list \in Seq(SourceType),
         Leave(which, how, list)
  PROVE  /\ sources' \in Seq(SourceType) /\ Len(sources') = Len(list)
         /\ DOMAIN sources' = DOMAIN list
         /\ \A g \in DOMAIN list : /\ sources'[g].cache = list[g].cache
                                   /\ sources'[g].nextId = list[g].nextId
         /\ DOMAIN reads' = DOMAIN reads /\ reads' \in Seq(ReadType)
         /\ \A r \in DOMAIN reads :
              /\ reads'[r].source = reads[r].source
              /\ reads'[r].id = reads[r].id /\ reads'[r].range = reads[r].range
              /\ reads'[r].got = reads[r].got
              /\ reads'[r].state = "done" => reads[r].state = "done"
<1>1. Len(list) \in Nat /\ DOMAIN list = 1 .. Len(list)
  BY LenProperties
<1>2. Len(reads) \in Nat /\ DOMAIN reads = 1 .. Len(reads)
  BY LenProperties
<1>3. sources' = [g \in 1 .. Len(list) |->
         IF g \in which /\ list[g].state = "open" THEN [list[g] EXCEPT !.state = how]
         ELSE list[g]]
  BY <1>1 DEF Leave
<1>4. \A g \in 1 .. Len(list) : list[g] \in SourceType /\ sources'[g] \in SourceType
  <2>1. \A b \in SourceType : [b EXCEPT !.state = how] \in SourceType
    BY DEF SourceType
  <2> QED BY <1>1, <1>3, <2>1
<1>5. sources' \in [1 .. Len(list) -> SourceType]
  BY <1>3, <1>4
<1>6. reads' = [r \in 1 .. Len(reads) |->
         IF reads[r].source \in which /\ Waiting(r) THEN [reads[r] EXCEPT !.state = how]
         ELSE reads[r]]
  BY <1>2 DEF Leave
<1>7. \A r \in 1 .. Len(reads) : reads[r] \in ReadType /\ reads'[r] \in ReadType
  <2>1. \A b \in ReadType : [b EXCEPT !.state = how] \in ReadType
    BY DEF ReadType
  <2> QED BY <1>2, <1>6, <2>1
<1>8. reads' \in [1 .. Len(reads) -> ReadType]
  BY <1>6, <1>7
<1>9. /\ sources' \in Seq(SourceType) /\ Len(sources') = Len(list)
      /\ DOMAIN sources' = DOMAIN list
  BY <1>1, <1>5, FunctionIsSeq
<1>10. reads' \in Seq(ReadType) /\ DOMAIN reads' = DOMAIN reads
  BY <1>2, <1>8, FunctionIsSeq
<1>11. \A g \in DOMAIN list : /\ sources'[g].cache = list[g].cache
                              /\ sources'[g].nextId = list[g].nextId
  BY <1>1, <1>3, <1>4 DEF SourceType
<1>12. \A r \in DOMAIN reads :
         /\ reads'[r].source = reads[r].source
         /\ reads'[r].id = reads[r].id /\ reads'[r].range = reads[r].range
         /\ reads'[r].got = reads[r].got
         /\ reads'[r].state = "done" => reads[r].state = "done"
  BY <1>2, <1>6, <1>7 DEF ReadType
<1> QED BY <1>9, <1>10, <1>11, <1>12

\* Posting keeps the messages typed.
LEMMA PostType ==
  ASSUME toWebview \in Seq(MessageType), NEW m \in MessageType,
         Post(<<m>>) \/ Post(<<>>)
  PROVE  /\ toWebview' \in Seq(MessageType)
         /\ \A i \in DOMAIN toWebview' :
              \/ i \in DOMAIN toWebview /\ toWebview'[i] = toWebview[i]
              \/ i = Len(toWebview) + 1 /\ toWebview'[i] = m /\ ~Post(<<>>)
<1>1. <<m>> \in Seq(MessageType) /\ <<>> \in Seq(MessageType)
  OBVIOUS
<1>2. toWebview' \in {toWebview, toWebview \o <<m>>, toWebview \o <<>>}
  BY DEF Post
<1>3. /\ toWebview \o <<>> = toWebview /\ toWebview \o <<m>> \in Seq(MessageType)
      /\ toWebview \o <<m>> = Append(toWebview, m)
  BY <1>1, ConcatEmptySeq, AppendIsConcat, ConcatProperties
<1>4. CASE toWebview' = toWebview
  BY <1>4
<1>5. CASE toWebview' = Append(toWebview, m) /\ toWebview' # toWebview
  <2>1. ~Post(<<>>)
    BY <1>3, <1>5 DEF Post
  <2> QED BY <1>3, <1>5, <2>1, AppendProperties
<1> QED BY <1>2, <1>3, <1>4, <1>5

\* What a step of the composition does to the transport.
RangeStep ==
  \/ \E o \in Revisions : DisposeSources({o})
  \/ \E o \in DOMAIN sources, range \in bounds.ranges : Read(o, range)
  \/ ReceiveAnswer \/ HandleRequest \/ RefuseQueued
  \/ \E c \in DOMAIN channels, s \in 1 .. MaxConcurrent :
        FreeSlot(c, s) \/ \E ok \in BOOLEAN : EndRead(c, s, ok)
  \/ CloseChannel \/ OpenChannel \/ Hide \/ Show
  \/ UNCHANGED rangeVars

\* The n-th opening comes with the n-th source; every other step leaves their number alone.
LEMMA RangeSteps ==
  ASSUME OpeningInv, TransportInv, [Next]_vars
  PROVE  \/ OpenHostedCache({activeRuntime}) /\ openRevision' = openRevision + 1
         \/ RangeStep /\ openRevision' = openRevision
<1>1. CASE OpenCache
  BY <1>1 DEF OpenCache, Open, RendererThrows, OpenTo
<1>2. CASE HidePage \/ ShownAgain
  BY <1>2 DEF HidePage, ShownAgain, RangeStep, PageGone, openingVars
<1>3. CASE Delivered \/ Requested \/ Refused \/ Closed \/ Reopened
  BY <1>3 DEF Delivered, Requested, Refused, Closed, Reopened, RangeStep, openingVars
<1>4. CASE ReadEnded \/ SlotFreed
  <2>1. bounds.faults \in BOOLEAN
    BY RangeAssumption DEF TransportInv
  <2> QED BY <1>4, <2>1 DEF ReadEnded, SlotFreed, EndOfRead, RangeStep, openingVars
<1>5. ASSUME NEW o \in Revisions, ReadSnapshot(o) \/ ReadMasks(o)
      PROVE  RangeStep /\ openRevision' = openRevision
  <2>1. o \in DOMAIN sources
    <3>1. o <= Len(sources)
      BY <1>5 DEF ReadSnapshot, ReadMasks, At, OpeningInv, OpeningTypeOK, Begun,
                  Revisions, TransportInv
    <3>2. DOMAIN sources = 1 .. Len(sources)
      BY LenProperties DEF TransportInv
    <3> QED BY <3>1, <3>2 DEF Revisions
  <2>2. bounds.ranges # {}
    BY Settings DEF TransportInv
  <2>3. MaskRange \in bounds.ranges
    BY <2>2 DEF MaskRange
  <2>4. Unasked(o) # {} => (CHOOSE range \in Unasked(o) : TRUE) \in bounds.ranges
    BY DEF Unasked
  <2>5. PICK range \in bounds.ranges : Read(o, range)
    BY <1>5, <2>3, <2>4 DEF ReadSnapshot, ReadMasks
  <2> QED BY <1>5, <2>1, <2>5 DEF RangeStep, ReadSnapshot, ReadMasks, openingVars
<1>6. ASSUME NEW o \in Revisions, OpeningStep(o), ~ReadSnapshot(o), ~ReadMasks(o)
      PROVE  RangeStep /\ openRevision' = openRevision
  <2>1. DisposeSources({o}) \/ UNCHANGED rangeVars
    BY <1>6 DEF OpeningStep, SessionOpens, SnapshotIsRead, SnapshotFails, OtherStepFails,
                IsMounted, ShowScene, SceneFails, Undone
  <2>2. openRevision' = openRevision
    BY <1>6 DEF OpeningStep, SessionOpens, SnapshotIsRead, SnapshotFails, OtherStepFails,
                IsMounted, ShowScene, SceneFails, SessionOpened, SnapshotRead,
                OpeningFails, Fails, Mounted, MasksRead, ShowFails
  <2> QED BY <2>1, <2>2 DEF RangeStep
<1>7. CASE UNCHANGED vars
  BY <1>7 DEF vars, openingVars, RangeStep
<1> QED BY <1>1, <1>2, <1>3, <1>4, <1>5, <1>6, <1>7 DEF Next

\* Answering reads keeps them typed, and touches nothing but states and bytes.
LEMMA SettledReads ==
  ASSUME reads \in Seq(ReadType), NEW m \in MessageType,
         reads' = [r \in DOMAIN reads |->
                     IF Takes(reads[r], m) THEN Settled(reads[r], m) ELSE reads[r]]
  PROVE  /\ reads' \in Seq(ReadType) /\ DOMAIN reads' = DOMAIN reads
         /\ \A r \in DOMAIN reads :
              /\ reads'[r].source = reads[r].source
              /\ reads'[r].id = reads[r].id /\ reads'[r].range = reads[r].range
              /\ reads'[r].state = "done" =>
                   \/ reads[r].state = "done" /\ reads'[r].got = reads[r].got
                   \/ Takes(reads[r], m) /\ reads'[r].got = Bytes(m.cache, m.range)
<1>1. Len(reads) \in Nat /\ DOMAIN reads = 1 .. Len(reads)
  BY LenProperties
<1>2. \A b \in ReadType :
        LET new == Settled(b, m)
        IN  /\ new \in ReadType /\ new.source = b.source
            /\ new.id = b.id /\ new.range = b.range
            /\ new.state = "done" => new.got = Bytes(m.cache, m.range)
  BY DEF Settled, ReadType, MessageType, Bytes
<1>3. \A r \in 1 .. Len(reads) : reads[r] \in ReadType /\ reads'[r] \in ReadType
  BY <1>1, <1>2
<1>4. reads' \in [1 .. Len(reads) -> ReadType]
  BY <1>1, <1>3
<1>5. reads' \in Seq(ReadType) /\ DOMAIN reads' = DOMAIN reads
  BY <1>1, <1>4, FunctionIsSeq
<1>6. \A r \in DOMAIN reads :
        /\ reads'[r].source = reads[r].source
        /\ reads'[r].id = reads[r].id /\ reads'[r].range = reads[r].range
        /\ reads'[r].state = "done" =>
             \/ reads[r].state = "done" /\ reads'[r].got = reads[r].got
             \/ Takes(reads[r], m) /\ reads'[r].got = Bytes(m.cache, m.range)
  BY <1>1, <1>2, <1>3
<1> QED BY <1>5, <1>6

\* Replacing one channel.
LEMMA ChannelUpdate ==
  ASSUME channels \in Seq(ChannelType), channels # <<>>, QueuesBounded, SlotsFilled,
         NEW c \in DOMAIN channels, NEW channel \in ChannelType,
         channels' = [channels EXCEPT ![c] = channel],
         Len(channel.queue) <= MaxQueued,
         Filled(channel)
  PROVE  /\ channels' \in Seq(ChannelType) /\ channels' # <<>>
         /\ QueuesBounded' /\ SlotsFilled'
         /\ Len(channels') = Len(channels) /\ DOMAIN channels' = DOMAIN channels
         /\ channels'[c] = channel
         /\ \A d \in DOMAIN channels \ {c} : channels'[d] = channels[d]
<1>1. /\ channels' \in Seq(ChannelType) /\ Len(channels') = Len(channels)
      /\ DOMAIN channels' = DOMAIN channels /\ channels'[c] = channel
      /\ \A d \in DOMAIN channels \ {c} : channels'[d] = channels[d]
  BY Replaced
<1>2. channels' # <<>>
  BY <1>1, EmptySeq
<1> QED BY <1>1, <1>2 DEF QueuesBounded, SlotsFilled

\* More sources leave the reads typed.
LEMMA WiderReads ==
  ASSUME DOMAIN sources \subseteq DOMAIN sources', NEW list \in Seq(ReadType)
  PROVE  list \in Seq(ReadType')
<1>1. ReadType \subseteq ReadType'
  BY DEF ReadType
<1> QED BY <1>1

\* Every step of the composition keeps the transport typed and the queues bounded.
LEMMA NextTransport == OpeningInv /\ TransportInv /\ [Next]_vars => TransportInv'
<1> SUFFICES ASSUME OpeningInv, TransportInv, [Next]_vars PROVE TransportInv'
  OBVIOUS
<1> USE DEF TransportInv
<1>o. OpeningTypeOK'
  BY NextIsOpeningNext, NextOpeningInv DEF OpeningInv
<1>l. /\ Len(channels) \in Nat \ {0} /\ DOMAIN channels = 1 .. Len(channels)
      /\ Len(channels) \in DOMAIN channels
      /\ Channel = channels[Len(channels)] /\ Channel \in ChannelType
  BY EmptySeq, LenProperties DEF Channel, Last
<1>1. CASE OpenHostedCache({activeRuntime}) /\ openRevision' = openRevision + 1
  <2>1. /\ toWebview # <<>> /\ Head(toWebview) \in MessageType
        /\ Tail(toWebview) \in Seq(MessageType)
    BY <1>1 DEF OpenHostedCache
  <2> DEFINE list == Append(sources, NewSource(Head(toWebview).cache))
  <2>2. list \in Seq(SourceType) /\ Len(list) = Len(sources) + 1
    BY <2>1, AppendProperties DEF NewSource, SourceType, MessageType
  <2>3. Leave({activeRuntime}, "disposed", list)
    BY <1>1 DEF OpenHostedCache
  <2>4. DOMAIN sources \subseteq DOMAIN list
    BY <2>2, LenProperties
  <2> HIDE DEF list
  <2>5. /\ sources' \in Seq(SourceType) /\ Len(sources') = Len(list)
        /\ DOMAIN sources' = DOMAIN list /\ reads' \in Seq(ReadType)
    BY <2>2, <2>3, LeavingKeeps
  <2>6. reads' \in Seq(ReadType')
    BY <2>4, <2>5, WiderReads
  <2> QED BY <1>1, <1>o, <2>1, <2>2, <2>5, <2>6
          DEF OpenHostedCache, QueuesBounded, SlotsFilled, page
<1>2. CASE RangeStep /\ openRevision' = openRevision
  <2> USE <1>o DEF page
  <2>1. ASSUME NEW which, NEW how \in {"disposed", "gone"}, Leave(which, how, sources)
        PROVE  /\ sources' \in Seq(SourceType) /\ openRevision' = Len(sources')
               /\ reads' \in Seq(ReadType')
    <3>1. /\ sources' \in Seq(SourceType) /\ Len(sources') = Len(sources)
          /\ DOMAIN sources' = DOMAIN sources /\ reads' \in Seq(ReadType)
      BY ZenonT(40), <2>1, LeavingKeeps
    <3> QED BY <1>2, <3>1 DEF ReadType
  <2>2. ASSUME NEW o \in Revisions, DisposeSources({o}) PROVE TransportInv'
    BY <2>1, <2>2 DEF DisposeSources, QueuesBounded, SlotsFilled
  <2>3. CASE Hide
    <3>1. hides' \in 0 .. bounds.hides
      BY <2>3, Settings DEF Hide
    <3>2. toWebview' \in Seq(MessageType)
      BY <2>3, EmptySeq DEF Hide
    <3> QED BY <2>1, <2>3, <3>1, <3>2 DEF Hide, QueuesBounded, SlotsFilled
  <2>4. ASSUME NEW o \in DOMAIN sources, NEW range \in bounds.ranges, Read(o, range)
        PROVE  TransportInv'
    <3>1. sources[o] \in SourceType /\ range \in Ranges
      BY Settings
    <3> DEFINE request == [cache |-> sources[o].cache, id |-> sources[o].nextId,
                           range |-> range]
               read == [source |-> o, id |-> sources[o].nextId, range |-> range,
                        state |-> "waiting", got |-> NoBytes]
               after == [sources[o] EXCEPT !.nextId = @ + 1]
    <3>2. request \in Requests /\ after \in SourceType
      <4>1. request \in Requests
        BY <3>1 DEF Requests, SourceType
      <4>2. sources[o].nextId + 1 \in Nat
        BY <3>1 DEF SourceType
      <4>3. after \in SourceType
        BY <3>1, <4>2 DEF SourceType
      <4> QED BY <4>1, <4>3
    <3>3. read \in ReadType
      BY <3>1 DEF ReadType, SourceType, NoBytes, Bytes
    <3>4. /\ reads' = Append(reads, read) /\ toHost' = Append(toHost, request)
          /\ sources' = [sources EXCEPT ![o] = after]
          /\ UNCHANGED <<bounds, page, toWebview, channels>>
      BY <2>4 DEF Read
    <3> HIDE DEF request, read, after
    <3>5. sources' \in Seq(SourceType) /\ Len(sources') = Len(sources)
          /\ DOMAIN sources' = DOMAIN sources
      BY <3>2, <3>4, Replaced
    <3>6. reads' \in Seq(ReadType')
      BY <3>3, <3>4, <3>5, AppendProperties, WiderReads
    <3>7. toHost' \in Seq(Requests)
      BY <3>2, <3>4, AppendProperties
    <3> QED BY <1>2, <3>4, <3>5, <3>6, <3>7 DEF QueuesBounded, SlotsFilled
  <2>5. CASE ReceiveAnswer
    <3>1. /\ Head(toWebview) \in MessageType /\ Tail(toWebview) \in Seq(MessageType)
          /\ Head(toWebview).type = "response"
      BY <2>5 DEF ReceiveAnswer
    <3>2. reads' \in Seq(ReadType)
      BY <2>5, <3>1, SettledReads DEF ReceiveAnswer
    <3>3. reads' \in Seq(ReadType')
      BY <2>5, <3>2, WiderReads DEF ReceiveAnswer
    <3> QED BY <1>2, <2>5, <3>1, <3>3 DEF ReceiveAnswer, QueuesBounded, SlotsFilled
  <2>6. CASE HandleRequest
    <3> DEFINE request == Head(toHost)
               queued == [Channel EXCEPT !.queue = Append(@, request)]
    <3>1. request \in Requests /\ Tail(toHost) \in Seq(Requests)
      BY <2>6 DEF HandleRequest
    <3>2. UNCHANGED <<bounds, sources, reads, page>> /\ toHost' = Tail(toHost)
      BY <2>6 DEF HandleRequest
    <3>3. CASE /\ ~Full(Channel) /\ UNCHANGED toWebview
               /\ channels' = [channels EXCEPT ![Len(channels)] = Pump(queued)]
      <4>1. /\ Append(Channel.queue, request) \in Seq(Requests)
            /\ Len(Append(Channel.queue, request)) <= MaxQueued
        BY <1>l, <3>1, <3>3, RangeAssumption, AppendProperties DEF Full, ChannelType
      <4>2. /\ queued \in ChannelType /\ Len(queued.queue) <= MaxQueued
            /\ Filled(queued)
        BY <1>l, <4>1 DEF ChannelType, SlotsFilled, Filled
      <4> HIDE DEF queued
      <4>3. /\ Pump(queued) \in ChannelType /\ Len(Pump(queued).queue) <= MaxQueued
            /\ Filled(Pump(queued))
        <5>1. /\ Pump(queued) \in ChannelType /\ Filled(Pump(queued))
              /\ Len(Pump(queued).queue) <= Len(queued.queue)
          BY <4>2, PumpType
        <5>2. Len(Pump(queued).queue) \in Nat /\ Len(queued.queue) \in Nat
          BY SMTT(30), <4>2, <5>1 DEF ChannelType
        <5> QED BY <4>2, <5>1, <5>2, RangeAssumption
      <4>4. /\ channels' \in Seq(ChannelType) /\ channels' # <<>>
            /\ QueuesBounded' /\ SlotsFilled'
        BY <1>l, <3>3, <4>3, ChannelUpdate
      <4> QED BY <1>2, <3>1, <3>2, <3>3, <4>4 DEF ReadType
    <3>4. CASE Post(<<Answer(request, FALSE)>>) /\ UNCHANGED channels
      <4>1. Answer(request, FALSE) \in MessageType
        BY <3>1 DEF Answer, MessageType, Requests
      <4>2. toWebview' \in Seq(MessageType)
        BY <3>4, <4>1, PostType
      <4> QED BY <1>2, <3>1, <3>2, <3>4, <4>2 DEF ReadType, QueuesBounded, SlotsFilled
    <3>5. CASE UNCHANGED <<channels, toWebview>>
      BY <1>2, <3>1, <3>2, <3>5 DEF ReadType, QueuesBounded, SlotsFilled
    <3> QED BY <2>6, <3>3, <3>4, <3>5 DEF HandleRequest
  <2>7. CASE RefuseQueued
    <3> DEFINE request == Head(Channel.closing)
               channel == [Channel EXCEPT !.closing = Tail(@)]
    <3>1. request \in Requests /\ channel \in ChannelType
      <4>1. Channel.closing \in Seq(Requests) /\ Channel.closing # <<>>
        BY <1>l, <2>7 DEF RefuseQueued, ChannelType
      <4>2. request \in Requests /\ Tail(Channel.closing) \in Seq(Requests)
        BY <4>1
      <4> QED BY <1>l, <4>2 DEF ChannelType
    <3>2. Answer(request, FALSE) \in MessageType
      BY <3>1 DEF Answer, MessageType, Requests
    <3>3. toWebview' \in Seq(MessageType)
      BY <2>7, <3>2, PostType DEF RefuseQueued
    <3>4. channels' = [channels EXCEPT ![Len(channels)] = channel]
      <4>1. channels' = [channels EXCEPT
                           ![Len(channels)].closing = Tail(Channel.closing)]
        BY <1>l, <2>7 DEF RefuseQueued
      <4> QED BY <1>l, <4>1
    <3>5. Len(channel.queue) <= MaxQueued /\ Filled(channel)
      BY <1>l DEF ChannelType, QueuesBounded, SlotsFilled, Filled
    <3> HIDE DEF channel
    <3>6. /\ channels' \in Seq(ChannelType) /\ channels' # <<>>
          /\ QueuesBounded' /\ SlotsFilled'
      BY <1>l, <3>1, <3>4, <3>5, ChannelUpdate
    <3> QED BY <1>2, <2>7, <3>3, <3>6 DEF RefuseQueued, ReadType
  <2>8. ASSUME NEW c \in DOMAIN channels, NEW s \in 1 .. MaxConcurrent, FreeSlot(c, s)
        PROVE  TransportInv'
    <3> DEFINE freed == [channels[c] EXCEPT !.slots[s] = Idle]
    <3>1. /\ freed \in ChannelType /\ Filled(freed) /\ Len(freed.queue) <= MaxQueued
      <4>1. channels[c] \in ChannelType
        OBVIOUS
      <4>2. Idle \in SlotType
        BY DEF Idle, SlotType
      <4> DEFINE slots == [channels[c].slots EXCEPT ![s] = Idle]
      <4>3. slots \in [1 .. MaxConcurrent -> SlotType]
        BY <4>1, <4>2 DEF ChannelType
      <4>4. \A t \in 1 .. MaxConcurrent :
              slots[t].stage # "idle" => slots[t].request \in Requests
        BY <4>1 DEF ChannelType, SlotsFilled, Filled, Idle
      <4>5. freed = [channels[c] EXCEPT !.slots = slots]
        BY <4>1 DEF ChannelType
      <4> HIDE DEF slots, freed
      <4>6. /\ freed \in ChannelType /\ freed.slots = slots
            /\ freed.queue = channels[c].queue
        BY <4>1, <4>3, <4>5 DEF ChannelType
      <4> QED BY <4>4, <4>6 DEF QueuesBounded, Filled
    <3> HIDE DEF freed
    <3>2. /\ Pump(freed) \in ChannelType /\ Filled(Pump(freed))
          /\ Len(Pump(freed).queue) <= Len(freed.queue)
      BY <3>1, PumpType
    <3>3. Len(Pump(freed).queue) <= MaxQueued
      <4>1. Len(Pump(freed).queue) \in Nat /\ Len(freed.queue) \in Nat
        BY <3>1, <3>2, QueueLength
      <4> QED BY <3>1, <3>2, <4>1, RangeAssumption
    <3>4. channels' = [channels EXCEPT ![c] = Pump(freed)]
      BY <2>8 DEF FreeSlot, freed
    <3>5. /\ channels' \in Seq(ChannelType) /\ channels' # <<>>
          /\ QueuesBounded' /\ SlotsFilled'
      BY <3>2, <3>3, <3>4, ChannelUpdate
    <3> QED BY <1>2, <2>8, <3>5 DEF FreeSlot, ReadType
  <2>9. ASSUME NEW c \in DOMAIN channels, NEW s \in 1 .. MaxConcurrent,
               NEW ok \in BOOLEAN, EndRead(c, s, ok)
        PROVE  TransportInv'
    <3> DEFINE channel == [channels[c] EXCEPT !.slots[s].stage = "posting"]
    <3>1. channels[c] \in ChannelType /\ channels[c].slots[s].stage = "reading"
      BY <2>9 DEF EndRead
    <3>2. channels[c].slots[s].request \in Requests
      BY <3>1 DEF SlotsFilled, Filled
    <3>3. /\ channel \in ChannelType /\ Filled(channel)
          /\ channel.queue = channels[c].queue
      BY ZenonT(40), <3>1, <3>2 DEF ChannelType, SlotType, SlotsFilled, Filled
    <3>4. Answer(channels[c].slots[s].request, ok) \in MessageType
      BY <3>2 DEF Answer, MessageType, Requests
    <3>5. toWebview' \in Seq(MessageType)
      BY <2>9, <3>4, PostType DEF EndRead
    <3>6. channels' = [channels EXCEPT ![c] = channel]
      BY <2>9 DEF EndRead
    <3> HIDE DEF channel
    <3>7. /\ channels' \in Seq(ChannelType) /\ channels' # <<>>
          /\ QueuesBounded' /\ SlotsFilled'
      BY <3>3, <3>6, ChannelUpdate DEF QueuesBounded
    <3> QED BY <1>2, <2>9, <3>5, <3>7 DEF EndRead, ReadType
  <2>10. CASE CloseChannel
    <3> DEFINE channel == [Channel EXCEPT !.open = FALSE, !.queue = <<>>,
                                          !.closing = Channel.queue]
    <3>1. /\ channel \in ChannelType /\ Filled(channel)
          /\ Len(channel.queue) <= MaxQueued
      <4>1. <<>> \in Seq(Requests) /\ Len(<<>>) = 0
        OBVIOUS
      <4>2. channel \in ChannelType
        BY <1>l, <4>1 DEF ChannelType
      <4>3. channel.slots = Channel.slots /\ channel.queue = <<>>
        BY <1>l DEF ChannelType
      <4>4. Filled(Channel)
        BY <1>l DEF SlotsFilled
      <4> QED BY <4>1, <4>2, <4>3, <4>4, RangeAssumption DEF Filled
    <3>2. channels' = [channels EXCEPT ![Len(channels)] = channel]
      BY <2>10 DEF CloseChannel
    <3> HIDE DEF channel
    <3>3. /\ channels' \in Seq(ChannelType) /\ channels' # <<>>
          /\ QueuesBounded' /\ SlotsFilled'
      BY <1>l, <3>1, <3>2, ChannelUpdate
    <3> QED BY <1>2, <2>10, <3>3 DEF CloseChannel, ReadType
  <2>11. CASE OpenChannel
    <3> DEFINE cache == IF bounds.rebuilt THEN Channel.cache + 1 ELSE Channel.cache
    <3>1. cache \in Nat
      BY <1>l DEF ChannelType
    <3>2. /\ channels' = Append(channels, NewChannel(cache))
          /\ Post(<<Announcement(cache)>>)
      BY <2>11 DEF OpenChannel
    <3> HIDE DEF cache
    <3>3. NewChannel(cache) \in ChannelType /\ Filled(NewChannel(cache))
          /\ Len(NewChannel(cache).queue) <= MaxQueued
      BY <3>1, RangeAssumption DEF NewChannel, ChannelType, SlotType, Idle, Filled
    <3>4. Announcement(cache) \in MessageType
      BY <3>1 DEF Announcement, MessageType
    <3>5. toWebview' \in Seq(MessageType)
      BY <3>2, <3>4, PostType
    <3>6. /\ channels' \in Seq(ChannelType) /\ channels' # <<>>
          /\ QueuesBounded' /\ SlotsFilled'
      <4> DEFINE new == NewChannel(cache)
      <4> HIDE DEF new
      <4>1. /\ channels' \in Seq(ChannelType)
            /\ Len(channels') = Len(channels) + 1
            /\ \A c \in 1 .. Len(channels) : channels'[c] = channels[c]
            /\ channels'[Len(channels) + 1] = new
        BY <3>2, <3>3, AppendProperties DEF new
      <4>2. DOMAIN channels' = 1 .. Len(channels) + 1
        BY <4>1, LenProperties
      <4>3. \A c \in DOMAIN channels' : c \in DOMAIN channels \/ c = Len(channels) + 1
        BY <1>l, <4>2
      <4>4. QueuesBounded'
        BY <1>l, <3>3, <4>1, <4>3 DEF QueuesBounded, new
      <4>5. SlotsFilled'
        BY <1>l, <3>3, <4>1, <4>3 DEF SlotsFilled, new
      <4> QED BY <1>l, <4>1, <4>4, <4>5, EmptySeq
    <3> QED BY <1>2, <2>11, <3>5, <3>6 DEF OpenChannel, ReadType
  <2>12. CASE Show
    <3>1. Announcement(Channel.cache) \in MessageType
      BY <1>l DEF Announcement, MessageType, ChannelType
    <3>2. toWebview' \in Seq(MessageType)
      BY <2>12, <3>1 DEF Show
    <3> QED BY <1>2, <2>12, <3>2 DEF Show, QueuesBounded, SlotsFilled, ReadType
  <2>13. CASE UNCHANGED rangeVars
    BY <1>2, <2>13 DEF rangeVars, QueuesBounded, SlotsFilled, ReadType
  <2> QED BY <1>2, <2>2, <2>3, <2>4, <2>5, <2>6, <2>7, <2>8, <2>9, <2>10, <2>11,
             <2>12, <2>13 DEF RangeStep
<1> HIDE DEF TransportInv
<1> QED BY <1>1, <1>2, RangeSteps
-----------------------------------------------------------------------------
(* The inductive invariant of AnswersBelong.                                *)

\* Somebody has asked for what this request or answer is about.
Asks(q) ==
  \E r \in DOMAIN reads :
    /\ reads[r].id = q.id /\ reads[r].range = q.range
    /\ sources[reads[r].source].cache = q.cache

\* All that is on its way or held by a channel has been asked for.
HostAsked     == \A q \in Items(toHost) : Asks(q)
ChannelsAsked == \A c \in DOMAIN channels : \A q \in Held(channels[c]) : Asks(q)
AnswersAsked  == \A i \in DOMAIN toWebview : toWebview[i].type = "response" => Asks(toWebview[i])

\* A source numbers its reads upwards.
IdsApart ==
  /\ \A r \in DOMAIN reads : reads[r].id < sources[reads[r].source].nextId
  /\ \A r, q \in DOMAIN reads :
       reads[r].source = reads[q].source /\ reads[r].id = reads[q].id => r = q

\* A cache is announced once and opened once.
Ready(i) == i \in DOMAIN toWebview /\ toWebview[i].type = "ready"
CachesApart ==
  hides = 0 /\ bounds.rebuilt =>
    /\ shown
    /\ \A c \in DOMAIN channels : channels[c].cache = c
    /\ \A g \in DOMAIN sources : sources[g].cache <= Len(channels)
    /\ \A g, h \in DOMAIN sources : sources[g].cache = sources[h].cache => g = h
    /\ \A i \in DOMAIN toWebview : Ready(i) =>
         /\ toWebview[i].cache <= Len(channels)
         /\ \A g \in DOMAIN sources : sources[g].cache # toWebview[i].cache
    /\ \A i, j \in DOMAIN toWebview :
         Ready(i) /\ Ready(j) /\ toWebview[i].cache = toWebview[j].cache => i = j

RangeInv ==
  /\ TransportInv
  /\ HostAsked /\ ChannelsAsked /\ AnswersAsked
  /\ IdsApart /\ CachesApart /\ AnswersBelong

\* Nothing has been asked for in the beginning.
LEMMA InitRangeInv == Init => RangeInv
<1> SUFFICES ASSUME Init PROVE RangeInv
  OBVIOUS
<1>1. TransportInv
  BY InitTransport
<1>2. Held(NewChannel(1)) = {}
  BY DEF Held, Items, InSlots, NewChannel, Idle
<1>3. /\ sources = <<>> /\ reads = <<>> /\ toHost = <<>> /\ shown
      /\ channels = <<NewChannel(1)>> /\ toWebview = <<Announcement(1)>>
  BY DEF Init, RangeInit
<1>4. HostAsked /\ IdsApart /\ AnswersBelong
  BY <1>3 DEF HostAsked, IdsApart, AnswersBelong, Items
<1>5. ChannelsAsked
  BY <1>2, <1>3 DEF ChannelsAsked
<1>6. AnswersAsked
  BY <1>3 DEF AnswersAsked, Announcement
<1>7. CachesApart
  BY <1>3 DEF CachesApart, Announcement, NewChannel
<1> QED BY <1>1, <1>4, <1>5, <1>6, <1>7 DEF RangeInv

\* Dropping the head of a list.
LEMMA TailItems ==
  ASSUME NEW S, NEW list \in Seq(S), list # <<>>
  PROVE  /\ Items(Tail(list)) \subseteq Items(list) /\ Head(list) \in Items(list)
         /\ \A i \in DOMAIN Tail(list) : i + 1 \in DOMAIN list /\ Tail(list)[i] = list[i + 1]
BY DEF Items

\* What is asked for is never forgotten or changed.
Remembered ==
  /\ \A r \in DOMAIN reads :
       /\ r \in DOMAIN reads'
       /\ reads'[r].source = reads[r].source
       /\ reads'[r].id = reads[r].id /\ reads'[r].range = reads[r].range
  /\ \A g \in DOMAIN sources : g \in DOMAIN sources' /\ sources'[g].cache = sources[g].cache

\* Nothing is asked for, and no source opened.
Quiet ==
  /\ Remembered
  /\ DOMAIN reads' = DOMAIN reads /\ DOMAIN sources' = DOMAIN sources
  /\ \A g \in DOMAIN sources : sources'[g].nextId = sources[g].nextId

\* No read is answered.
NothingRead ==
  \A r \in DOMAIN reads :
    reads'[r].state = "done" => reads[r].state = "done" /\ reads'[r].got = reads[r].got

\* Every read has a source.
LEMMA SourceOfRead == TransportInv => \A r \in DOMAIN reads : reads[r].source \in DOMAIN sources
<1> SUFFICES ASSUME TransportInv, NEW r \in DOMAIN reads PROVE reads[r].source \in DOMAIN sources
  OBVIOUS
<1>1. reads[r] \in ReadType
  BY DEF TransportInv
<1> QED BY <1>1 DEF ReadType

\* What has been asked for stays asked for.
LEMMA StillAsked ==
  ASSUME TransportInv, Remembered, NEW q, Asks(q) PROVE Asks(q)'
<1>1. PICK r \in DOMAIN reads :
        /\ reads[r].id = q.id /\ reads[r].range = q.range
        /\ sources[reads[r].source].cache = q.cache
  BY DEF Asks
<1>2. reads[r].source \in DOMAIN sources
  BY SourceOfRead
<1> QED BY <1>1, <1>2 DEF Asks, Remembered

\* The numbers of the reads stay apart when nothing is asked for.
LEMMA QuietIds == ASSUME TransportInv, IdsApart, Quiet PROVE IdsApart'
BY SourceOfRead DEF IdsApart, Quiet, Remembered

\* The caches stay apart when no source is opened and no cache announced: messages are
\* dropped in front, and answers added at the end.
LEMMA QuietCaches ==
  ASSUME TransportInv, TransportInv', CachesApart, Quiet, UNCHANGED <<bounds, page>>,
         Len(channels') = Len(channels), DOMAIN channels' = DOMAIN channels,
         \A c \in DOMAIN channels : channels'[c].cache = channels[c].cache,
         NEW d \in Nat,
         \A i \in DOMAIN toWebview' :
           toWebview'[i].type = "ready" =>
             i + d \in DOMAIN toWebview /\ toWebview'[i] = toWebview[i + d]
  PROVE  CachesApart'
<1> SUFFICES ASSUME hides = 0, bounds.rebuilt PROVE CachesApart'
  BY DEF CachesApart, page
<1>1. \A i \in DOMAIN toWebview' : Ready(i)' =>
        /\ i \in Int /\ i + d \in DOMAIN toWebview /\ toWebview'[i] = toWebview[i + d]
        /\ Ready(i + d)
  <2>1. DOMAIN toWebview' \subseteq Int
    BY LenProperties DEF TransportInv
  <2> QED BY <2>1 DEF Ready
<1>2. shown' /\ \A c \in DOMAIN channels' : channels'[c].cache = c
  BY DEF CachesApart, page
<1>3. /\ \A g \in DOMAIN sources' : sources'[g].cache <= Len(channels')
      /\ \A g, h \in DOMAIN sources' : sources'[g].cache = sources'[h].cache => g = h
  BY DEF CachesApart, Quiet, Remembered
<1>4. \A i \in DOMAIN toWebview' : Ready(i)' =>
        /\ toWebview'[i].cache <= Len(channels')
        /\ \A g \in DOMAIN sources' : sources'[g].cache # toWebview'[i].cache
  BY <1>1 DEF CachesApart, Quiet, Remembered
<1>5. \A i, j \in DOMAIN toWebview' :
        Ready(i)' /\ Ready(j)' /\ toWebview'[i].cache = toWebview'[j].cache => i = j
  <2> TAKE i, j \in DOMAIN toWebview'
  <2> HAVE Ready(i)' /\ Ready(j)' /\ toWebview'[i].cache = toWebview'[j].cache
  <2>1. i + d = j + d
    BY <1>1 DEF CachesApart
  <2> QED BY <1>1, <2>1
<1> QED BY <1>2, <1>3, <1>4, <1>5 DEF CachesApart

\* Reads keep the bytes they have got.
LEMMA QuietBytes ==
  ASSUME TransportInv, AnswersBelong, Quiet, NothingRead, UNCHANGED bounds,
         hides' = hides \/ hides' # 0
  PROVE  AnswersBelong'
BY SourceOfRead DEF AnswersBelong, Quiet, Remembered, NothingRead

\* Disposing sources, or losing the page, asks for nothing and answers nothing.
LEMMA LeaveQuiet ==
  ASSUME TransportInv, NEW which, NEW how \in {"disposed", "gone"},
         Leave(which, how, sources)
  PROVE  Quiet /\ NothingRead
<1>1. /\ DOMAIN sources' = DOMAIN sources
      /\ \A g \in DOMAIN sources : /\ sources'[g].cache = sources[g].cache
                                   /\ sources'[g].nextId = sources[g].nextId
      /\ DOMAIN reads' = DOMAIN reads
      /\ \A r \in DOMAIN reads :
           /\ reads'[r].source = reads[r].source
           /\ reads'[r].id = reads[r].id /\ reads'[r].range = reads[r].range
           /\ reads'[r].got = reads[r].got
           /\ reads'[r].state = "done" => reads[r].state = "done"
  BY ZenonT(40), LeavingKeeps DEF TransportInv
<1> QED BY <1>1 DEF Quiet, Remembered, NothingRead

\* So does a step that leaves the sources and their reads alone.
LEMMA SameQuiet == UNCHANGED <<sources, reads>> => Quiet /\ NothingRead
BY DEF Quiet, Remembered, NothingRead

\* A step that changes one channel, answers one of its requests or none, and leaves the
\* sources alone.
LEMMA ChannelStep ==
  ASSUME RangeInv, TransportInv', UNCHANGED <<bounds, page, sources, reads>>,
         NEW c \in DOMAIN channels, NEW channel \in ChannelType,
         channels' = [channels EXCEPT ![c] = channel],
         channel.cache = channels[c].cache,
         \A q \in Held(channel) : Asks(q),
         toHost' = toHost \/ (toHost # <<>> /\ toHost' = Tail(toHost)),
         \/ UNCHANGED toWebview
         \/ \E q \in Requests, ok \in BOOLEAN :
              Asks(q) /\ (Post(<<Answer(q, ok)>>) \/ Post(<<>>))
  PROVE  RangeInv'
<1>1. Quiet /\ NothingRead
  BY SameQuiet
<1>2. HostAsked'
  <2>1. Items(toHost') \subseteq Items(toHost)
    BY TailItems DEF RangeInv, TransportInv
  <2> QED BY <1>1, <2>1, StillAsked DEF RangeInv, HostAsked, Quiet
<1>3. /\ Len(channels') = Len(channels) /\ DOMAIN channels' = DOMAIN channels
      /\ channels'[c] = channel /\ \A d \in DOMAIN channels \ {c} : channels'[d] = channels[d]
  BY Replaced DEF RangeInv, TransportInv
<1>4. ChannelsAsked'
  <2>1. \A d \in DOMAIN channels' : \A x \in Held(channels'[d]) : Asks(x)
    BY <1>3 DEF RangeInv, ChannelsAsked
  <2>2. \A d \in DOMAIN channels' : \A x \in Held(channels'[d]) : Asks(x)'
    BY <1>1, <2>1, StillAsked DEF RangeInv, Quiet
  <2> QED BY <2>2 DEF ChannelsAsked, Held, Items, InSlots
<1>5. \A i \in DOMAIN toWebview' :
        \/ i \in DOMAIN toWebview /\ toWebview'[i] = toWebview[i]
        \/ toWebview'[i].type = "response" /\ Asks(toWebview'[i])
  <2>1. ASSUME NEW q \in Requests, NEW ok \in BOOLEAN, Asks(q),
               Post(<<Answer(q, ok)>>) \/ Post(<<>>)
        PROVE  \A i \in DOMAIN toWebview' :
                 \/ i \in DOMAIN toWebview /\ toWebview'[i] = toWebview[i]
                 \/ toWebview'[i].type = "response" /\ Asks(toWebview'[i])
    <3> DEFINE m == Answer(q, ok)
    <3>1. m \in MessageType /\ m.type = "response" /\ Asks(m)
      BY <2>1 DEF Answer, MessageType, Requests, Asks
    <3>2. Post(<<m>>) \/ Post(<<>>)
      BY <2>1
    <3> HIDE DEF m
    <3> QED BY <3>1, <3>2, PostType DEF RangeInv, TransportInv
  <2>2. CASE UNCHANGED toWebview
    BY <2>2
  <2> QED BY <2>1, <2>2
<1>6. AnswersAsked'
  <2>2. \A i \in DOMAIN toWebview' :
          toWebview'[i].type = "response" => Asks(toWebview'[i])
    BY <1>5 DEF RangeInv, AnswersAsked
  <2>3. ASSUME NEW i \in DOMAIN toWebview', toWebview'[i].type = "response"
        PROVE  Asks(toWebview[i])'
    <3> DEFINE x == toWebview'[i]
    <3>1. Asks(x)
      BY <2>2, <2>3
    <3> HIDE DEF x
    <3>2. reads' = reads /\ sources' = sources
      OBVIOUS
    <3>3. \E r \in DOMAIN reads' :
            /\ reads'[r].id = x.id /\ reads'[r].range = x.range
            /\ sources'[reads'[r].source].cache = x.cache
      BY <3>1, <3>2 DEF Asks
    <3> QED BY <3>3 DEF Asks, x
  <2> QED BY <2>3 DEF AnswersAsked
<1>7. CachesApart'
  <2>1. \A i \in DOMAIN toWebview' : toWebview'[i].type = "ready" =>
          i + 0 \in DOMAIN toWebview /\ toWebview'[i] = toWebview[i + 0]
    <3>2. DOMAIN toWebview' \subseteq Int
      BY DEF TransportInv
    <3> QED BY <1>5, <3>2
  <2> QED BY <1>1, <1>3, <2>1, QuietCaches DEF RangeInv
<1>8. IdsApart' /\ AnswersBelong'
  BY <1>1, QuietIds, QuietBytes DEF RangeInv, page
<1> QED BY <1>2, <1>4, <1>6, <1>7, <1>8 DEF RangeInv
\* A step of the webview's side or of the page: channels stay, and messages are at most
\* dropped in front.
LEMMA WebviewStep ==
  ASSUME RangeInv, TransportInv', Quiet, NothingRead \/ AnswersBelong',
         UNCHANGED <<bounds, page, toHost, channels>>,
         toWebview' = toWebview \/ (toWebview # <<>> /\ toWebview' = Tail(toWebview))
  PROVE  RangeInv'
<1> USE DEF RangeInv
<1>1. HostAsked'
  BY StillAsked DEF HostAsked, Quiet
<1>2. ChannelsAsked'
  <2>1. \A c \in DOMAIN channels : \A x \in Held(channels[c]) : Asks(x)'
    BY StillAsked DEF ChannelsAsked, Quiet
  <2> QED BY <2>1 DEF ChannelsAsked, Held, Items, InSlots
<1>3. PICK d \in {0, 1} :
        \A i \in DOMAIN toWebview' :
          i + d \in DOMAIN toWebview /\ toWebview'[i] = toWebview[i + d]
  <2>1. CASE toWebview' = toWebview
    <3>1. \A i \in DOMAIN toWebview' : i + 0 = i
      BY LenProperties DEF TransportInv
    <3> QED BY <2>1, <3>1
  <2>2. CASE toWebview # <<>> /\ toWebview' = Tail(toWebview)
    BY <2>2, TailItems DEF TransportInv
  <2> QED BY <2>1, <2>2
<1>4. AnswersAsked'
  <2>1. ASSUME NEW i \in DOMAIN toWebview', toWebview'[i].type = "response"
        PROVE  Asks(toWebview[i])'
    <3> DEFINE x == toWebview[i + d]
    <3>1. Asks(x) /\ x = toWebview'[i]
      BY <1>3, <2>1 DEF AnswersAsked
    <3> HIDE DEF x
    <3>2. \E r \in DOMAIN reads' :
            /\ reads'[r].id = x.id /\ reads'[r].range = x.range
            /\ sources'[reads'[r].source].cache = x.cache
      <4>1. PICK r \in DOMAIN reads :
              /\ reads[r].id = x.id /\ reads[r].range = x.range
              /\ sources[reads[r].source].cache = x.cache
        BY <3>1 DEF Asks
      <4>2. reads[r].source \in DOMAIN sources
        BY SourceOfRead
      <4> QED BY <4>1, <4>2 DEF Quiet, Remembered
    <3> QED BY <3>1, <3>2 DEF Asks
  <2> QED BY <2>1 DEF AnswersAsked
<1>5. CachesApart'
  <2>1. d \in Nat
    OBVIOUS
  <2> QED BY <1>3, <2>1, QuietCaches
<1>6. IdsApart' /\ AnswersBelong'
  BY QuietIds, QuietBytes DEF page
<1> QED BY <1>1, <1>2, <1>4, <1>5, <1>6

\* The answer that a read takes is the one it asked for.
LEMMA AnswerStep == ASSUME RangeInv, ReceiveAnswer PROVE Quiet /\ AnswersBelong'
<1> DEFINE m == Head(toWebview)
<1>1. m \in MessageType /\ m.type = "response" /\ Asks(m)
  <2>1. toWebview # <<>> /\ toWebview \in Seq(MessageType)
    BY DEF ReceiveAnswer, RangeInv, TransportInv
  <2>2. 1 \in DOMAIN toWebview /\ m = toWebview[1] /\ m \in MessageType
    BY <2>1
  <2>3. m.type = "response"
    BY DEF ReceiveAnswer
  <2> QED BY <2>2, <2>3 DEF RangeInv, AnswersAsked
<1>2. reads' = [r \in DOMAIN reads |->
                  IF Takes(reads[r], m) THEN Settled(reads[r], m) ELSE reads[r]]
  BY DEF ReceiveAnswer
<1> HIDE DEF m
<1>3. /\ DOMAIN reads' = DOMAIN reads
      /\ \A r \in DOMAIN reads :
           /\ reads'[r].source = reads[r].source
           /\ reads'[r].id = reads[r].id /\ reads'[r].range = reads[r].range
           /\ reads'[r].state = "done" =>
                \/ reads[r].state = "done" /\ reads'[r].got = reads[r].got
                \/ Takes(reads[r], m) /\ reads'[r].got = Bytes(m.cache, m.range)
  BY <1>1, <1>2, SettledReads DEF RangeInv, TransportInv
<1>4. Quiet
  BY <1>3 DEF ReceiveAnswer, Quiet, Remembered
<1>5. ASSUME hides = 0, bounds.rebuilt, NEW r \in DOMAIN reads, Takes(reads[r], m)
      PROVE  m.cache = sources[reads[r].source].cache /\ m.range = reads[r].range
  <2>1. PICK q \in DOMAIN reads :
          /\ reads[q].id = m.id /\ reads[q].range = m.range
          /\ sources[reads[q].source].cache = m.cache
    BY <1>1 DEF Asks
  <2>2. reads[r].id = m.id /\ sources[reads[r].source].cache = m.cache
    BY <1>5 DEF Takes
  <2>3. reads[q].source = reads[r].source
    BY <1>5, <2>1, <2>2, SourceOfRead DEF RangeInv, CachesApart
  <2>4. q = r
    BY <2>1, <2>2, <2>3 DEF RangeInv, IdsApart
  <2> QED BY <2>1, <2>2, <2>4
<1>6. AnswersBelong'
  BY <1>3, <1>5 DEF RangeInv, AnswersBelong, ReceiveAnswer, page
<1> QED BY <1>4, <1>6

\* A read gets a number of its own, and its request is its own.
LEMMA ReadStep ==
  ASSUME RangeInv, TransportInv', NEW o \in DOMAIN sources, NEW range, Read(o, range)
  PROVE  RangeInv'
<1> USE DEF RangeInv
<1> DEFINE request == [cache |-> sources[o].cache, id |-> sources[o].nextId, range |-> range]
           read == [source |-> o, id |-> sources[o].nextId, range |-> range,
                    state |-> "waiting", got |-> NoBytes]
           n == Len(reads) + 1
<1>1. /\ reads' = Append(reads, read) /\ toHost' = Append(toHost, request)
      /\ UNCHANGED <<bounds, page, toWebview, channels>>
  BY DEF Read
<1>2. /\ sources[o] \in SourceType /\ DOMAIN sources' = DOMAIN sources
      /\ sources'[o].nextId = sources[o].nextId + 1
      /\ \A g \in DOMAIN sources :
           /\ sources'[g].cache = sources[g].cache
           /\ g # o => sources'[g].nextId = sources[g].nextId
  <2> DEFINE after == [sources[o] EXCEPT !.nextId = @ + 1]
  <2>1. sources[o] \in SourceType
    BY DEF TransportInv
  <2>2. /\ after.nextId = sources[o].nextId + 1 /\ after.cache = sources[o].cache
        /\ sources' = [sources EXCEPT ![o] = after]
    BY <2>1 DEF Read, SourceType
  <2> HIDE DEF after
  <2> QED BY <2>1, <2>2 DEF TransportInv
<1>3. /\ n \in Nat /\ n \notin DOMAIN reads
      /\ DOMAIN reads' = DOMAIN reads \cup {n} /\ reads'[n] = read
      /\ \A r \in DOMAIN reads : reads'[r] = reads[r]
  BY SMTT(30), <1>1 DEF TransportInv
<1>4. Remembered
  BY <1>2, <1>3 DEF Remembered
<1>5. HostAsked'
  <2>1. Items(toHost') \subseteq Items(toHost) \cup {request}
    BY <1>1 DEF Items, TransportInv
  <2>2. ASSUME NEW q, q = request PROVE Asks(q)'
    <3>1. /\ n \in DOMAIN reads' /\ reads'[n].id = q.id /\ reads'[n].range = q.range
          /\ reads'[n].source = o /\ sources'[o].cache = q.cache
      BY <1>2, <1>3, <2>2
    <3> QED BY <3>1 DEF Asks
  <2>3. \A q \in Items(toHost) : Asks(q)'
    BY <1>4, StillAsked DEF HostAsked
  <2> HIDE DEF request
  <2>4. \A q \in Items(toHost') : Asks(q)'
    BY <2>1, <2>2, <2>3
  <2> QED BY <2>4 DEF HostAsked, Items
<1>6. ChannelsAsked'
  <2>1. \A c \in DOMAIN channels : \A x \in Held(channels[c]) : Asks(x)'
    BY <1>4, StillAsked DEF ChannelsAsked
  <2> QED BY <1>1, <2>1 DEF ChannelsAsked, Held, Items, InSlots
<1>7. AnswersAsked'
  <2>1. \A i \in DOMAIN toWebview : toWebview[i].type = "response" =>
          \E r \in DOMAIN reads' :
            /\ reads'[r].id = toWebview[i].id /\ reads'[r].range = toWebview[i].range
            /\ sources'[reads'[r].source].cache = toWebview[i].cache
    BY <1>4, SourceOfRead DEF AnswersAsked, Asks, Remembered
  <2> QED BY <1>1, <2>1 DEF AnswersAsked, Asks
<1>8. IdsApart'
  <2>1. sources[o].nextId \in Nat
    BY <1>2 DEF SourceType
  <2>2. \A r \in DOMAIN reads :
          reads[r].id \in Nat /\ sources[reads[r].source] \in SourceType
    <3>1. \A r \in DOMAIN reads : reads[r] \in ReadType /\ reads[r].source \in DOMAIN sources
      BY SourceOfRead DEF TransportInv
    <3> QED BY SMTT(30), <3>1 DEF TransportInv, ReadType
  <2>3. \A r \in DOMAIN reads : reads[r].id < sources[reads[r].source].nextId
    BY DEF IdsApart
  <2>4. \A r \in DOMAIN reads' : reads'[r].id < sources'[reads'[r].source].nextId
    BY <1>2, <1>3, <2>1, <2>2, <2>3, SourceOfRead DEF SourceType
  <2>5. \A r \in DOMAIN reads : ~(reads[r].source = o /\ reads[r].id = read.id)
    BY <2>1, <2>2, <2>3
  <2>6. \A r, q \in DOMAIN reads' :
          reads'[r].source = reads'[q].source /\ reads'[r].id = reads'[q].id => r = q
    BY <1>3, <2>5 DEF IdsApart
  <2> QED BY <2>4, <2>6 DEF IdsApart
<1>9. CachesApart'
  BY <1>1, <1>2 DEF CachesApart, Ready, page
<1>10. AnswersBelong'
  BY <1>1, <1>2, <1>3, SourceOfRead DEF AnswersBelong, page
<1> QED BY <1>5, <1>6, <1>7, <1>8, <1>9, <1>10
\* A source is opened for a cache that has none.
LEMMA OpenStep ==
  ASSUME RangeInv, TransportInv', NEW replaced, OpenHostedCache(replaced)
  PROVE  RangeInv'
<1> USE DEF RangeInv
<1> DEFINE m == Head(toWebview)
           list == Append(sources, NewSource(m.cache))
           n == Len(sources) + 1
<1>1. /\ toWebview # <<>> /\ m.type = "ready" /\ toWebview' = Tail(toWebview) /\ shown
      /\ Leave(replaced, "disposed", list)
      /\ UNCHANGED <<bounds, page, toHost, channels>>
  BY DEF OpenHostedCache
<1>2. /\ toWebview \in Seq(MessageType) /\ 1 \in DOMAIN toWebview /\ m = toWebview[1]
      /\ m \in MessageType
  BY <1>1 DEF TransportInv
<1>3. NewSource(m.cache) \in SourceType
  BY <1>2 DEF NewSource, SourceType, MessageType
<1>4. /\ list \in Seq(SourceType) /\ n \in Nat /\ n \notin DOMAIN sources
      /\ DOMAIN list = DOMAIN sources \cup {n} /\ list[n] = NewSource(m.cache)
      /\ \A g \in DOMAIN sources : list[g] = sources[g]
  <2> DEFINE new == NewSource(m.cache)
  <2> HIDE DEF new
  <2>1. /\ Append(sources, new) \in Seq(SourceType) /\ n \in Nat /\ n \notin DOMAIN sources
        /\ DOMAIN Append(sources, new) = DOMAIN sources \cup {n} /\ Append(sources, new)[n] = new
        /\ \A g \in DOMAIN sources : Append(sources, new)[g] = sources[g]
    <3>1. new \in SourceType /\ sources \in Seq(SourceType)
      BY <1>3 DEF TransportInv, new
    <3>2. /\ Len(sources) \in Nat /\ DOMAIN sources = 1 .. Len(sources)
          /\ Append(sources, new) \in Seq(SourceType)
          /\ Len(Append(sources, new)) = n /\ Append(sources, new)[n] = new
          /\ \A g \in 1 .. Len(sources) : Append(sources, new)[g] = sources[g]
      BY <3>1, AppendProperties, LenProperties
    <3>3. DOMAIN Append(sources, new) = 1 .. n
      BY <3>2, LenProperties
    <3> QED BY <3>2, <3>3
  <2> QED BY <2>1 DEF new
<1> HIDE DEF list, m
<1>5. /\ DOMAIN sources' = DOMAIN list
      /\ \A g \in DOMAIN list : /\ sources'[g].cache = list[g].cache
                                /\ sources'[g].nextId = list[g].nextId
      /\ DOMAIN reads' = DOMAIN reads
      /\ \A r \in DOMAIN reads :
           /\ reads'[r].source = reads[r].source
           /\ reads'[r].id = reads[r].id /\ reads'[r].range = reads[r].range
           /\ reads'[r].got = reads[r].got
           /\ reads'[r].state = "done" => reads[r].state = "done"
  BY <1>1, <1>4, LeavingKeeps DEF TransportInv
<1>6. Remembered
  BY <1>4, <1>5 DEF Remembered
<1>7. /\ \A i \in DOMAIN toWebview' :
           i \in Nat \ {0} /\ i + 1 \in DOMAIN toWebview /\ toWebview'[i] = toWebview[i + 1]
  <2>1. DOMAIN toWebview' \subseteq Nat \ {0}
    BY LenProperties DEF TransportInv
  <2> QED BY <1>1, <1>2, <2>1, TailItems
<1>8. HostAsked'
  <2>1. \A q \in Items(toHost) : Asks(q)'
    BY <1>6, StillAsked DEF HostAsked
  <2> QED BY <1>1, <2>1 DEF HostAsked, Items
<1>9. ChannelsAsked'
  <2>1. \A c \in DOMAIN channels : \A x \in Held(channels[c]) : Asks(x)'
    BY <1>6, StillAsked DEF ChannelsAsked
  <2> QED BY <1>1, <2>1 DEF ChannelsAsked, Held, Items, InSlots
<1>10. AnswersAsked'
  <2>1. \A i \in DOMAIN toWebview : toWebview[i].type = "response" =>
          \E r \in DOMAIN reads' :
            /\ reads'[r].id = toWebview[i].id /\ reads'[r].range = toWebview[i].range
            /\ sources'[reads'[r].source].cache = toWebview[i].cache
    BY <1>6, SourceOfRead DEF AnswersAsked, Asks, Remembered
  <2> QED BY <1>7, <2>1 DEF AnswersAsked, Asks
<1>11. IdsApart'
  BY <1>4, <1>5, SourceOfRead DEF IdsApart
<1>12. CachesApart'
  <2> SUFFICES ASSUME hides = 0, bounds.rebuilt PROVE CachesApart'
    BY <1>1 DEF CachesApart, page
  <2>1. /\ sources'[n].cache = m.cache /\ DOMAIN sources' = DOMAIN sources \cup {n}
        /\ \A g \in DOMAIN sources : sources'[g].cache = sources[g].cache
    BY <1>4, <1>5 DEF NewSource
  <2>2. /\ Ready(1) /\ m.cache <= Len(channels)
        /\ \A g \in DOMAIN sources : sources[g].cache # m.cache
    BY <1>1, <1>2 DEF CachesApart, Ready
  <2>3. /\ \A g \in DOMAIN sources' : sources'[g].cache <= Len(channels')
        /\ \A g, h \in DOMAIN sources' : sources'[g].cache = sources'[h].cache => g = h
    BY <1>1, <2>1, <2>2 DEF CachesApart
  <2>4. \A i \in DOMAIN toWebview' : Ready(i)' => Ready(i + 1) /\ i + 1 # 1
    BY <1>7 DEF Ready
  <2>5. \A i \in DOMAIN toWebview' : Ready(i)' =>
          /\ toWebview'[i].cache <= Len(channels')
          /\ \A g \in DOMAIN sources' : sources'[g].cache # toWebview'[i].cache
    <3> TAKE i \in DOMAIN toWebview'
    <3> HAVE Ready(i)'
    <3>1. /\ i + 1 \in DOMAIN toWebview /\ toWebview'[i] = toWebview[i + 1]
          /\ Ready(i + 1) /\ i + 1 # 1
      BY <1>7, <2>4
    <3>2. toWebview[i + 1].cache # m.cache
      BY <1>2, <2>2, <3>1 DEF CachesApart
    <3>3. /\ toWebview[i + 1].cache <= Len(channels)
          /\ \A g \in DOMAIN sources : sources[g].cache # toWebview[i + 1].cache
      BY <3>1 DEF CachesApart
    <3> QED BY <1>1, <2>1, <3>1, <3>2, <3>3
  <2>6. \A i, j \in DOMAIN toWebview' :
          Ready(i)' /\ Ready(j)' /\ toWebview'[i].cache = toWebview'[j].cache => i = j
    <3> TAKE i, j \in DOMAIN toWebview'
    <3> HAVE Ready(i)' /\ Ready(j)' /\ toWebview'[i].cache = toWebview'[j].cache
    <3>1. i + 1 = j + 1
      BY <1>7, <2>4 DEF CachesApart
    <3> QED BY <1>7, <3>1
  <2> QED BY <1>1, <2>3, <2>5, <2>6 DEF CachesApart, page
<1>13. AnswersBelong'
  BY <1>1, <1>4, <1>5, SourceOfRead DEF AnswersBelong, page
<1> QED BY <1>8, <1>9, <1>10, <1>11, <1>12, <1>13

\* The next cache has a name of its own.
LEMMA ChannelOpens == ASSUME RangeInv, TransportInv', OpenChannel PROVE RangeInv'
<1> USE DEF RangeInv
<1> DEFINE cache == IF bounds.rebuilt THEN Channel.cache + 1 ELSE Channel.cache
           n == Len(channels) + 1
<1>1. /\ channels' = Append(channels, NewChannel(cache)) /\ Post(<<Announcement(cache)>>)
      /\ UNCHANGED <<bounds, sources, reads, page, toHost>>
  BY DEF OpenChannel
<1>2. /\ Channel = channels[Len(channels)] /\ Len(channels) \in DOMAIN channels
      /\ Channel \in ChannelType /\ Len(channels) \in Nat
  BY EmptySeq, LenProperties DEF Channel, Last, TransportInv
<1>3. cache \in Nat /\ Announcement(cache) \in MessageType
  BY <1>2 DEF ChannelType, Announcement, MessageType
<1>4. Quiet /\ NothingRead
  BY <1>1, SameQuiet
<1> HIDE DEF cache
<1>5. /\ Len(channels') = n /\ DOMAIN channels' = DOMAIN channels \cup {n}
      /\ channels'[n] = NewChannel(cache)
      /\ \A c \in DOMAIN channels : channels'[c] = channels[c]
  <2> DEFINE new == NewChannel(cache)
  <2>1. channels' = Append(channels, new)
    BY <1>1
  <2> HIDE DEF new
  <2>2. /\ Len(channels') = n /\ DOMAIN channels' = DOMAIN channels \cup {n}
        /\ channels'[n] = new /\ \A c \in DOMAIN channels : channels'[c] = channels[c]
    BY <2>1 DEF TransportInv
  <2> QED BY <2>2 DEF new
<1>6. \A i \in DOMAIN toWebview' :
        \/ i \in DOMAIN toWebview /\ toWebview'[i] = toWebview[i]
        \/ i = Len(toWebview) + 1 /\ toWebview'[i] = Announcement(cache)
  BY <1>1, <1>3, PostType DEF TransportInv
<1>7. HostAsked'
  BY <1>1 DEF HostAsked, Asks
<1>8. ChannelsAsked'
  <2>1. Held(NewChannel(cache)) = {}
    BY DEF Held, Items, InSlots, NewChannel, Idle
  <2>2. \A c \in DOMAIN channels' : \A x \in Held(channels'[c]) : Asks(x)
    BY <1>5, <2>1 DEF ChannelsAsked
  <2>3. \A c \in DOMAIN channels' : \A x \in Held(channels'[c]) : Asks(x)'
    BY <1>4, <2>2, StillAsked DEF Quiet
  <2> QED BY <2>3 DEF ChannelsAsked, Held, Items, InSlots
<1>9. AnswersAsked'
  <2>1. \A i \in DOMAIN toWebview : toWebview[i].type = "response" =>
          \E r \in DOMAIN reads' :
            /\ reads'[r].id = toWebview[i].id /\ reads'[r].range = toWebview[i].range
            /\ sources'[reads'[r].source].cache = toWebview[i].cache
    BY <1>1 DEF AnswersAsked, Asks
  <2>2. Announcement(cache).type # "response"
    BY DEF Announcement
  <2> QED BY <1>6, <2>1, <2>2 DEF AnswersAsked, Asks
<1>10. CachesApart'
  <2> SUFFICES ASSUME hides = 0, bounds.rebuilt PROVE CachesApart'
    BY <1>1 DEF CachesApart, page
  <2>1. cache = n /\ NewChannel(cache).cache = n /\ Announcement(cache).cache = n
    BY <1>2 DEF CachesApart, cache, NewChannel, Announcement
  <2>2. \A c \in DOMAIN channels' : channels'[c].cache = c
    BY <1>5, <2>1 DEF CachesApart
  <2>3. \A g \in DOMAIN sources : sources[g].cache \in Nat /\ sources[g].cache <= Len(channels)
    <3>1. \A g \in DOMAIN sources : sources[g] \in SourceType
      BY DEF TransportInv
    <3> QED BY <3>1 DEF CachesApart, SourceType
  <2>4. \A i \in DOMAIN toWebview' : Ready(i)' =>
          \/ /\ Ready(i) /\ toWebview'[i] = toWebview[i] /\ toWebview[i].cache \in Nat
             /\ toWebview[i].cache <= Len(channels)
          \/ i = Len(toWebview) + 1 /\ toWebview'[i].cache = n
    <3>1. \A i \in DOMAIN toWebview : toWebview[i].cache \in Nat
      <4>1. \A i \in DOMAIN toWebview : toWebview[i] \in MessageType
        BY DEF TransportInv
      <4> QED BY <4>1 DEF MessageType
    <3> QED BY <1>6, <2>1, <3>1 DEF CachesApart, Ready
  <2>5. \A i \in DOMAIN toWebview' : Ready(i)' =>
          /\ toWebview'[i].cache <= Len(channels')
          /\ \A g \in DOMAIN sources' : sources'[g].cache # toWebview'[i].cache
    BY <1>1, <1>2, <1>5, <2>3, <2>4 DEF CachesApart, Ready
  <2>6. \A i, j \in DOMAIN toWebview' :
          Ready(i)' /\ Ready(j)' /\ toWebview'[i].cache = toWebview'[j].cache => i = j
    BY <1>2, <2>4 DEF CachesApart, Ready
  <2>7. \A g \in DOMAIN sources' : sources'[g].cache <= Len(channels')
    BY <1>1, <1>2, <1>5, <2>3
  <2> QED BY <1>1, <2>2, <2>5, <2>6, <2>7 DEF CachesApart, page
<1>11. IdsApart' /\ AnswersBelong'
  BY <1>1, <1>4, QuietIds, QuietBytes DEF page
<1> QED BY <1>7, <1>8, <1>9, <1>10, <1>11
\* Every step of the composition keeps the invariant.
LEMMA NextRangeInv == OpeningInv /\ RangeInv /\ [Next]_vars => RangeInv'
<1> SUFFICES ASSUME OpeningInv, RangeInv, [Next]_vars PROVE RangeInv'
  OBVIOUS
<1>t. TransportInv /\ TransportInv'
  BY NextTransport DEF RangeInv
<1>l. /\ Len(channels) \in DOMAIN channels
      /\ Channel = channels[Len(channels)] /\ Channel \in ChannelType
  BY <1>t, EmptySeq, LenProperties DEF Channel, Last, TransportInv
<1>h. \A c \in DOMAIN channels : channels[c] \in ChannelType
  BY <1>t DEF TransportInv
<1>1. CASE OpenHostedCache({activeRuntime})
  BY <1>1, <1>t, OpenStep
<1>2. CASE RangeStep
  <2>1. ASSUME NEW o \in Revisions, DisposeSources({o}) PROVE RangeInv'
    <3>1. /\ Leave({o}, "disposed", sources)
          /\ UNCHANGED <<bounds, page, toHost, toWebview, channels>>
      BY <2>1 DEF DisposeSources
    <3>2. Quiet /\ NothingRead
      BY <1>t, <3>1, LeaveQuiet
    <3> QED BY <1>t, <3>1, <3>2, WebviewStep
  <2>2. ASSUME NEW o \in DOMAIN sources, NEW range \in bounds.ranges, Read(o, range)
        PROVE  RangeInv'
    BY <1>t, <2>2, ReadStep
  <2>3. CASE ReceiveAnswer
    <3>1. /\ toWebview # <<>> /\ toWebview' = Tail(toWebview)
          /\ UNCHANGED <<bounds, page, toHost, channels>>
      BY <2>3 DEF ReceiveAnswer, page
    <3> QED BY <1>t, <2>3, <3>1, AnswerStep, WebviewStep
  <2>4. CASE HandleRequest
    <3> DEFINE request == Head(toHost)
               queued == [Channel EXCEPT !.queue = Append(@, request)]
    <3>1. /\ toHost # <<>> /\ toHost' = Tail(toHost)
          /\ UNCHANGED <<bounds, sources, reads, page>>
          /\ \/ channels' = [channels EXCEPT ![Len(channels)] = Pump(queued)] /\ UNCHANGED toWebview
             \/ Post(<<Answer(request, FALSE)>>) /\ UNCHANGED channels
             \/ UNCHANGED <<channels, toWebview>>
      BY <2>4 DEF HandleRequest
    <3>2. request \in Requests /\ Asks(request)
      BY <1>t, <3>1, TailItems DEF TransportInv, RangeInv, HostAsked
    <3> HIDE DEF request
    <3>3. \A q \in Held(Channel) : Asks(q)
      BY <1>l DEF RangeInv, ChannelsAsked
    <3>4. channels = [channels EXCEPT ![Len(channels)] = Channel]
      BY <1>l, <1>t DEF TransportInv
    <3>5. /\ Pump(queued) \in ChannelType /\ Pump(queued).cache = Channel.cache
          /\ \A q \in Held(Pump(queued)) : Asks(q)
      <4>1. /\ queued \in ChannelType /\ queued.cache = Channel.cache
            /\ queued.queue = Append(Channel.queue, request)
            /\ queued.closing = Channel.closing /\ queued.slots = Channel.slots
        <5>1. Append(Channel.queue, request) \in Seq(Requests)
          BY <1>l, <3>2, AppendProperties DEF ChannelType
        <5> QED BY <1>l, <5>1 DEF ChannelType
      <4> HIDE DEF queued
      <4>2. Items(queued.queue) \subseteq Items(Channel.queue) \cup {request}
        BY <1>l, <4>1 DEF Items, ChannelType
      <4>3. Held(queued) \subseteq Held(Channel) \cup {request}
        BY <4>1, <4>2 DEF Held, InSlots
      <4> QED BY <3>2, <3>3, <4>1, <4>3, PumpType
    <3> HIDE DEF queued
    <3>6. CASE channels' = [channels EXCEPT ![Len(channels)] = Pump(queued)] /\ UNCHANGED toWebview
      BY <1>l, <1>t, <3>1, <3>2, <3>5, <3>6, ChannelStep
    <3>7. CASE UNCHANGED channels /\ (UNCHANGED toWebview \/ Post(<<Answer(request, FALSE)>>))
      BY <1>l, <1>t, <3>1, <3>2, <3>3, <3>4, <3>7, ChannelStep
    <3> QED BY <3>1, <3>6, <3>7
  <2>5. CASE RefuseQueued
    <3> DEFINE request == Head(Channel.closing)
               channel == [Channel EXCEPT !.closing = Tail(Channel.closing)]
    <3>1. /\ Channel.closing # <<>> /\ Post(<<Answer(request, FALSE)>>)
          /\ UNCHANGED <<bounds, sources, reads, page, toHost>>
      BY <2>5 DEF RefuseQueued
    <3>2. channels' = [channels EXCEPT ![Len(channels)] = channel]
      BY <1>l, <2>5 DEF RefuseQueued
    <3>3. /\ Channel.closing \in Seq(Requests)
          /\ Items(Tail(Channel.closing)) \subseteq Items(Channel.closing)
          /\ request \in Items(Channel.closing) /\ request \in Requests
          /\ Tail(Channel.closing) \in Seq(Requests)
      <4>1. Channel.closing \in Seq(Requests)
        BY <1>l DEF ChannelType
      <4> QED BY <3>1, <4>1, TailItems
    <3>4. /\ channel \in ChannelType /\ channel.cache = Channel.cache
          /\ channel.queue = Channel.queue /\ channel.slots = Channel.slots
          /\ channel.closing = Tail(Channel.closing)
      BY <1>l, <3>3 DEF ChannelType
    <3> HIDE DEF channel, request
    <3>5. Held(channel) \subseteq Held(Channel) /\ request \in Held(Channel)
      BY <3>3, <3>4 DEF Held, InSlots
    <3>6. Asks(request) /\ \A q \in Held(channel) : Asks(q)
      BY <1>l, <3>5 DEF RangeInv, ChannelsAsked
    <3> QED BY <1>l, <1>t, <3>1, <3>2, <3>3, <3>4, <3>6, ChannelStep
  <2>6. ASSUME NEW c \in DOMAIN channels, NEW s \in 1 .. MaxConcurrent, FreeSlot(c, s)
        PROVE  RangeInv'
    <3> DEFINE slots == [channels[c].slots EXCEPT ![s] = Idle]
               freed == [channels[c] EXCEPT !.slots = slots]
    <3>1. /\ channels' = [channels EXCEPT ![c] = Pump(freed)]
          /\ UNCHANGED <<bounds, sources, reads, page, toHost, toWebview>>
      BY <1>h, <2>6 DEF FreeSlot, ChannelType
    <3>2. slots \in [1 .. MaxConcurrent -> SlotType]
      BY <1>h DEF ChannelType, SlotType, Idle
    <3>3. \A t \in 1 .. MaxConcurrent :
            slots[t].stage # "idle" => slots[t] = channels[c].slots[t]
      BY <1>h DEF ChannelType, Idle
    <3> HIDE DEF slots
    <3>4. /\ freed \in ChannelType /\ freed.cache = channels[c].cache
          /\ freed.queue = channels[c].queue /\ freed.closing = channels[c].closing
          /\ freed.slots = slots
      BY <1>h, <3>2 DEF ChannelType
    <3> HIDE DEF freed
    <3>5. InSlots(freed) \subseteq InSlots(channels[c])
      BY <3>3, <3>4 DEF InSlots
    <3>6. \A q \in Held(Pump(freed)) : Asks(q)
      BY <3>4, <3>5, PumpType DEF Held, RangeInv, ChannelsAsked
    <3>7. Pump(freed) \in ChannelType /\ Pump(freed).cache = channels[c].cache
      BY <3>4, PumpType
    <3> QED BY <1>t, <3>1, <3>6, <3>7, ChannelStep
  <2>7. ASSUME NEW c \in DOMAIN channels, NEW s \in 1 .. MaxConcurrent,
               NEW ok \in BOOLEAN, EndRead(c, s, ok)
        PROVE  RangeInv'
    <3> DEFINE request == channels[c].slots[s].request
               posting == [stage |-> "posting", request |-> request]
               slots == [channels[c].slots EXCEPT ![s] = posting]
               channel == [channels[c] EXCEPT !.slots = slots]
    <3>1. /\ channels[c].slots[s].stage = "reading" /\ channels[c].slots[s] \in SlotType
          /\ Post(<<Answer(request, ok)>>) \/ Post(<<>>)
          /\ UNCHANGED <<bounds, sources, reads, page, toHost>>
      BY <1>h, <2>7 DEF EndRead, ChannelType
    <3>2. channels' = [channels EXCEPT ![c] = channel]
      <4>1. posting = [channels[c].slots[s] EXCEPT !.stage = "posting"]
        BY <3>1 DEF SlotType
      <4>2. channels' = [channels EXCEPT ![c].slots[s].stage = "posting"]
        BY <2>7 DEF EndRead
      <4> QED BY <4>1, <4>2
    <3>3. request \in Requests
      BY <1>t, <3>1 DEF TransportInv, SlotsFilled, Filled
    <3>4. posting \in SlotType
      BY <3>3 DEF SlotType
    <3>5. /\ slots \in [1 .. MaxConcurrent -> SlotType]
          /\ \A t \in 1 .. MaxConcurrent :
               /\ slots[t].request = channels[c].slots[t].request
               /\ slots[t].stage # "idle" => channels[c].slots[t].stage # "idle"
      BY <1>h, <3>1, <3>4 DEF ChannelType
    <3> HIDE DEF slots
    <3>6. /\ channel \in ChannelType /\ channel.cache = channels[c].cache
          /\ channel.queue = channels[c].queue /\ channel.closing = channels[c].closing
          /\ channel.slots = slots
      BY <1>h, <3>5 DEF ChannelType
    <3>7. request \in InSlots(channels[c])
      BY <3>1 DEF InSlots
    <3> HIDE DEF channel, request
    <3>8. InSlots(channel) \subseteq InSlots(channels[c])
      BY <3>5, <3>6 DEF InSlots
    <3>9. Asks(request) /\ \A q \in Held(channel) : Asks(q)
      BY <3>6, <3>7, <3>8 DEF Held, RangeInv, ChannelsAsked
    <3> QED BY <1>t, <3>1, <3>2, <3>3, <3>6, <3>9, ChannelStep
  <2>8. CASE CloseChannel
    <3> DEFINE channel == [Channel EXCEPT !.open = FALSE, !.queue = <<>>,
                                          !.closing = Channel.queue]
    <3>1. /\ channels' = [channels EXCEPT ![Len(channels)] = channel]
          /\ UNCHANGED <<bounds, sources, reads, page, toHost, toWebview>>
      BY <2>8 DEF CloseChannel
    <3>2. <<>> \in Seq(Requests) /\ Items(<<>>) = {}
      BY DEF Items
    <3>3. channel \in ChannelType
      BY <1>l, <3>2 DEF ChannelType
    <3>4. /\ channel.cache = Channel.cache /\ channel.queue = <<>>
          /\ channel.closing = Channel.queue /\ channel.slots = Channel.slots
      BY <1>l DEF ChannelType
    <3> HIDE DEF channel
    <3>5. \A q \in Held(channel) : Asks(q)
      BY <1>l, <3>2, <3>4 DEF Held, InSlots, RangeInv, ChannelsAsked
    <3> QED BY <1>l, <1>t, <3>1, <3>3, <3>4, <3>5, ChannelStep
  <2>9. CASE OpenChannel
    BY <1>t, <2>9, ChannelOpens
  <2>10. CASE Hide
    <3>1. /\ Leave(DOMAIN sources, "gone", sources) /\ toWebview' = <<>> /\ hides' = hides + 1
          /\ UNCHANGED <<bounds, toHost, channels>>
      BY <2>10 DEF Hide
    <3>2. Quiet /\ NothingRead
      BY <1>t, <3>1, LeaveQuiet
    <3>3. hides' # 0
      BY <1>t, <3>1, Settings DEF TransportInv
    <3>4. HostAsked'
      <4>1. \A q \in Items(toHost) : Asks(q)'
        BY <1>t, <3>2, StillAsked DEF RangeInv, HostAsked, Quiet
      <4> QED BY <3>1, <4>1 DEF HostAsked, Items
    <3>5. ChannelsAsked'
      <4>1. \A c \in DOMAIN channels : \A x \in Held(channels[c]) : Asks(x)'
        BY <1>t, <3>2, StillAsked DEF RangeInv, ChannelsAsked, Quiet
      <4> QED BY <3>1, <4>1 DEF ChannelsAsked, Held, Items, InSlots
    <3>6. AnswersAsked' /\ CachesApart' /\ AnswersBelong'
      BY <3>1, <3>3 DEF AnswersAsked, CachesApart, AnswersBelong
    <3>7. IdsApart'
      BY <1>t, <3>2, QuietIds DEF RangeInv
    <3> QED BY <1>t, <3>4, <3>5, <3>6, <3>7 DEF RangeInv
  <2>11. CASE Show
    <3>1. /\ ~shown /\ UNCHANGED <<bounds, hides, sources, reads, toHost, channels>>
          /\ toWebview' \in {<<Announcement(Channel.cache)>>, <<>>}
      BY <2>11 DEF Show
    <3>2. HostAsked' /\ ChannelsAsked' /\ IdsApart' /\ AnswersBelong'
      BY <3>1 DEF RangeInv, HostAsked, ChannelsAsked, IdsApart, AnswersBelong, Asks, Held,
                  Items, InSlots
    <3>3. AnswersAsked'
      BY <3>1 DEF AnswersAsked, Announcement
    <3>4. CachesApart'
      BY <3>1 DEF RangeInv, CachesApart
    <3> QED BY <1>t, <3>2, <3>3, <3>4 DEF RangeInv
  <2>12. CASE UNCHANGED rangeVars
    <3>1. Quiet /\ NothingRead
      BY <2>12, SameQuiet DEF rangeVars
    <3> QED BY <1>t, <2>12, <3>1, WebviewStep DEF rangeVars
  <2> QED BY <1>2, <2>1, <2>2, <2>3, <2>4, <2>5, <2>6, <2>7, <2>8, <2>9, <2>10, <2>11,
             <2>12 DEF RangeStep
<1> QED BY <1>t, <1>1, <1>2, RangeSteps

\* However many caches are opened, channels replaced and pages loaded anew, both parts keep
\* their types and the queue of a channel its bound.
THEOREM HostedTypeCorrect == Spec => []TypeOK
<1>1. Init => OpeningInv
  BY InitOpeningInv DEF Init
<1>2. OpeningInv /\ TransportInv /\ [Next]_vars => OpeningInv'
  BY NextIsOpeningNext, NextOpeningInv
<1> QED BY <1>1, <1>2, InitTransport, NextTransport, TransportTyped, PTL DEF Spec

\* A read that succeeds gets the bytes it asked for, of its own cache, whichever sources
\* listen, channels are closed and answers come late.
THEOREM ReadsGetTheirBytes == Spec => []AnswersBelong
<1>1. Init => OpeningInv
  BY InitOpeningInv DEF Init
<1>2. OpeningInv /\ RangeInv /\ [Next]_vars => OpeningInv'
  BY NextIsOpeningNext, NextOpeningInv
<1>3. RangeInv => AnswersBelong
  BY DEF RangeInv
<1> QED BY <1>1, <1>2, <1>3, InitRangeInv, NextRangeInv, PTL DEF Spec
=============================================================================
