--------------------------- MODULE RangeTransport ---------------------------
(* The byte ranges of a cache file on their way to the webview: the         *)
(* MessageRangeSource of the webview, the CacheRangeChannel of the          *)
(* extension and the two message queues between them.                       *)
(*                                                                          *)
(* A source numbers its reads from 1. Its requests and their answers carry  *)
(* that number and the identifier of the cache, nothing of the source       *)
(* itself. The channel works off its queue with MaxConcurrent reads at a    *)
(* time, which end in any order. Sources and channels are replaced: the     *)
(* extension closes its channel and opens another one when the user retries *)
(* the drawing, and VS Code destroys the page of a hidden editor and loads  *)
(* it anew when the editor is shown again.                                  *)
(*                                                                          *)
(* Who reads, and when a source is disposed, is said in HostedCache.        *)
EXTENDS Naturals, Sequences, FiniteSets

CONSTANTS
  Ranges,         \* what may be read: pairs of an offset and a length
  MaxConcurrent,  \* MAX_CONCURRENT_READS
  MaxQueued,      \* MAX_QUEUED_READS
  RangeSettings   \* bounds: [ranges: SUBSET Ranges, retries, hides: Nat,
                  \*   rebuilt, faults: BOOLEAN]

\* A cache file is never empty.
ASSUME RangeAssumption ==
  /\ MaxConcurrent \in Nat /\ MaxQueued \in Nat
  /\ RangeSettings \subseteq
       [ranges: (SUBSET Ranges) \ {{}}, retries: Nat, hides: Nat,
        rebuilt: BOOLEAN, faults: BOOLEAN]

VARIABLES
  bounds,     \* the setting of this behaviour
  sources,    \* the sources the webview has opened; the last one is current
  reads,      \* the reads of all sources, in the order they were asked for
  shown,      \* the editor is visible: its page exists
  hides,      \* how often it has been hidden
  toHost,     \* requests on their way
  toWebview,  \* answers and announcements on their way
  channels    \* the channels the extension has opened, in their order

page      == <<shown, hides>>
rangeVars == <<bounds, sources, reads, page, toHost, toWebview, channels>>

\* The bytes of a range of a cache.
Bytes(cache, range) == [cache |-> cache, range |-> range]
NoBytes   == Bytes(0, <<0, 0>>)

NoRequest == [cache |-> 0, id |-> 0, range |-> <<0, 0>>]
Requests  == [cache: Nat, id: Nat, range: Ranges]
Idle      == [stage |-> "idle", request |-> NoRequest]

Last(s)  == s[Len(s)]
Channel  == Last(channels)

\* What a message is: an answer to a request, or the announcement of a cache.
Answer(request, ok) ==
  [type |-> "response", cache |-> request.cache, id |-> request.id,
   ok |-> ok, range |-> request.range]
Announcement(cache) ==
  [type |-> "ready", cache |-> cache, id |-> 0, ok |-> TRUE, range |-> <<0, 0>>]

\* VS Code drops what is posted to an editor that is hidden.
Post(messages) == toWebview' = IF shown THEN toWebview \o messages ELSE toWebview

NewSource(cache)  == [cache |-> cache, nextId |-> 1, state |-> "open"]
NewChannel(cache) ==
  [cache |-> cache, open |-> TRUE, queue |-> <<>>, closing |-> <<>>,
   slots |-> [s \in 1 .. MaxConcurrent |-> Idle]]

RangeInit ==
  /\ bounds \in RangeSettings
  /\ sources = <<>>
  /\ channels = <<NewChannel(1)>>
  /\ reads = <<>>
  /\ shown = TRUE /\ hides = 0
  /\ toHost = <<>>
  /\ toWebview = <<Announcement(1)>>

-----------------------------------------------------------------------------
(* The webview's side. *)

Waiting(r) == reads[r].state = "waiting"
Read(g, range) ==
  /\ sources[g].state = "open"
  /\ reads' = Append(reads, [source |-> g, id |-> sources[g].nextId, range |-> range,
                             state |-> "waiting", got |-> NoBytes])
  /\ toHost' = Append(toHost, [cache |-> sources[g].cache, id |-> sources[g].nextId,
                               range |-> range])
  /\ sources' = [sources EXCEPT ![g].nextId = @ + 1]
  /\ UNCHANGED <<bounds, page, toWebview, channels>>

\* What becomes of a read that is answered: only the length can be compared.
Settled(read, answer) ==
  IF answer.ok /\ answer.range[2] = read.range[2]
  THEN [read EXCEPT !.state = "done", !.got = Bytes(answer.cache, answer.range)]
  ELSE [read EXCEPT !.state = "failed"]

\* Mutant: the answers of other caches are taken.
TakesAny(read, answer) == read.state = "waiting" /\ read.id = answer.id

\* Every open source hears every answer, and takes those of its cache it waits for.
Takes(read, answer) ==
  /\ read.state = "waiting" /\ read.id = answer.id
  /\ sources[read.source].cache = answer.cache
ReceiveAnswer ==
  /\ shown /\ toWebview # <<>> /\ Head(toWebview).type = "response"
  /\ reads' = [r \in DOMAIN reads |->
                 IF Takes(reads[r], Head(toWebview))
                 THEN Settled(reads[r], Head(toWebview)) ELSE reads[r]]
  /\ toWebview' = Tail(toWebview)
  /\ UNCHANGED <<bounds, sources, page, toHost, channels>>

\* The sources that end, by dispose() or with their page, leave their reads without an
\* answer; dispose() rejects them.
Leave(which, how, list) ==
  /\ sources' = [g \in DOMAIN list |->
       IF g \in which /\ list[g].state = "open" THEN [list[g] EXCEPT !.state = how]
       ELSE list[g]]
  /\ reads' = [r \in DOMAIN reads |->
       IF reads[r].source \in which /\ Waiting(r) THEN [reads[r] EXCEPT !.state = how]
       ELSE reads[r]]

DisposeSources(which) ==
  /\ Leave(which, "disposed", sources)
  /\ UNCHANGED <<bounds, page, toHost, toWebview, channels>>

\* openHostedCache(): a cache is announced and gets a source. The sources in `replaced`
\* are disposed.
OpenHostedCache(replaced) ==
  /\ shown /\ toWebview # <<>> /\ Head(toWebview).type = "ready"
  /\ Leave(replaced, "disposed", Append(sources, NewSource(Head(toWebview).cache)))
  /\ toWebview' = Tail(toWebview)
  /\ UNCHANGED <<bounds, page, toHost, channels>>

-----------------------------------------------------------------------------
(* The extension's side. *)

\* pump(): as many queued reads are started as slots are free.
Pump(channel) ==
  LET free == {s \in DOMAIN channel.slots : channel.slots[s].stage = "idle"}
  IN IF channel.open /\ free # {} /\ channel.queue # <<>>
     THEN LET slot == CHOOSE s \in free : \A t \in free : s <= t
          IN [channel EXCEPT
                !.queue = Tail(@),
                !.slots[slot] = [stage |-> "reading", request |-> Head(channel.queue)]]
     ELSE channel

\* Mutant: one request too many is queued.
FullLater(channel) == Len(channel.queue) > MaxQueued

Full(channel) == Len(channel.queue) >= MaxQueued

\* A request reaches the channel registered for its cache; without one it is lost.
HandleRequest ==
  /\ toHost # <<>>
  /\ toHost' = Tail(toHost)
  /\ LET request == Head(toHost)
         served  == Channel.open /\ Channel.cache = request.cache
     IN \/ /\ served /\ ~Full(Channel)
           /\ channels' = [channels EXCEPT
                             ![Len(channels)] = Pump([Channel EXCEPT !.queue = Append(@, request)])]
           /\ UNCHANGED toWebview
        \/ /\ served /\ Full(Channel)
           /\ Post(<<Answer(request, FALSE)>>)
           /\ UNCHANGED channels
        \/ /\ ~served
           /\ UNCHANGED <<channels, toWebview>>
  /\ UNCHANGED <<bounds, sources, reads, page>>

\* execute(): the bytes are there, or the file is too short. A channel that has
\* been closed meanwhile says nothing.
EndRead(c, s, ok) ==
  /\ channels[c].slots[s].stage = "reading"
  /\ channels' = [channels EXCEPT ![c].slots[s].stage = "posting"]
  /\ Post(IF channels[c].open THEN <<Answer(channels[c].slots[s].request, ok)>> ELSE <<>>)
  /\ UNCHANGED <<bounds, sources, reads, page, toHost>>

\* Mutant: the next read is only started by the next request.
FreeOnly(c, s) ==
  /\ channels[c].slots[s].stage = "posting"
  /\ channels' = [channels EXCEPT ![c].slots[s] = Idle]
  /\ UNCHANGED <<bounds, sources, reads, page, toHost, toWebview>>

\* Its finally: once the answer is posted, the slot is free for the next read.
FreeSlot(c, s) ==
  /\ channels[c].slots[s].stage = "posting"
  /\ channels' = [channels EXCEPT ![c] = Pump([channels[c] EXCEPT !.slots[s] = Idle])]
  /\ UNCHANGED <<bounds, sources, reads, page, toHost, toWebview>>

\* stopCurrent(): the channel is disposed. What is queued is refused one by one.
CloseChannel ==
  /\ Channel.open
  /\ Len(channels) <= bounds.retries
  /\ channels' = [channels EXCEPT ![Len(channels)] =
                    [Channel EXCEPT !.open = FALSE, !.queue = <<>>, !.closing = Channel.queue]]
  /\ UNCHANGED <<bounds, sources, reads, page, toHost, toWebview>>

RefuseQueued ==
  /\ Channel.closing # <<>>
  /\ Post(<<Answer(Head(Channel.closing), FALSE)>>)
  /\ channels' = [channels EXCEPT ![Len(channels)].closing = Tail(@)]
  /\ UNCHANGED <<bounds, sources, reads, page, toHost>>

\* The drawing is prepared again: a channel is opened and its cache announced.
\* The cache is another one when the drawing has been rebuilt.
OpenChannel ==
  /\ ~Channel.open /\ Channel.closing = <<>>
  /\ LET cache == IF bounds.rebuilt THEN Channel.cache + 1 ELSE Channel.cache
     IN /\ channels' = Append(channels, NewChannel(cache))
        /\ Post(<<Announcement(cache)>>)
  /\ UNCHANGED <<bounds, sources, reads, page, toHost>>

-----------------------------------------------------------------------------
(* The editor is hidden and shown again. *)

Hide ==
  /\ shown /\ hides < bounds.hides
  /\ shown' = FALSE /\ hides' = hides + 1
  /\ toWebview' = <<>>
  /\ Leave(DOMAIN sources, "gone", sources)
  /\ UNCHANGED <<bounds, toHost, channels>>

\* The page reports that it is ready, and is told of the cache there is.
Show ==
  /\ ~shown
  /\ shown' = TRUE
  /\ toWebview' = IF Channel.open THEN <<Announcement(Channel.cache)>> ELSE <<>>
  /\ UNCHANGED <<bounds, hides, sources, reads, toHost, channels>>

-----------------------------------------------------------------------------
EndOfRead(c, s) == \E ok \in {TRUE, ~bounds.faults} : EndRead(c, s, ok)

\* Every variable has the values it is described with.
RangeTypeOK ==
  /\ bounds \in RangeSettings
  /\ sources \in Seq([cache: Nat, nextId: Nat, state: {"open", "disposed", "gone"}])
  /\ reads \in Seq([source: DOMAIN sources, id: Nat, range: Ranges,
                    state: {"waiting", "done", "failed", "disposed", "gone"}, got: [cache: Nat, range: Ranges \cup {<<0, 0>>}]])
  /\ shown \in BOOLEAN /\ hides \in 0 .. bounds.hides
  /\ toHost \in Seq(Requests)
  /\ \A i \in DOMAIN toWebview : toWebview[i].type \in {"response", "ready"}
  /\ \A c \in DOMAIN channels :
       /\ Len(channels[c].queue) <= MaxQueued
       /\ \A s \in DOMAIN channels[c].slots :
            channels[c].slots[s].stage \in {"idle", "reading", "posting"}

\* A read that succeeds gets the bytes it asked for, of its own cache, although several
\* sources listen, ids begin again at 1 with each, and answers of a closed channel are
\* still on their way. The page is not loaded anew here and a retry builds another cache:
\* sources of one and the same cache cannot tell their answers apart.
AnswersBelong ==
  hides = 0 /\ bounds.rebuilt =>
    \A r \in DOMAIN reads :
      reads[r].state = "done" =>
        reads[r].got = Bytes(sources[reads[r].source].cache, reads[r].range)
=============================================================================
