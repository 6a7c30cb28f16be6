# A specification of the 2D CAD viewer

The repository is a viewer for DWG drawings. A VS Code extension converts a
drawing into a binary scene cache with an external converter and hands it to a
webview in bounded ranges; the webview draws it. Between the two stands
`packages/viewer-core`, which knows neither VS Code nor WebGL: it negotiates a
session with a render *source*, keeps the revision the viewer is at, applies
*Render Deltas* to what is shown, and resolves picks. Everything is
single-threaded JavaScript, so there are no data races; what is hard is what
happens at an `await`, when a call fails half way, when a message comes late or
twice, when something is disposed while it is in use, and when several windows
work on one cache directory. These modules specify that.

## 1. Inventory

### Parts modelled

**Render delta controller** (`viewer-core/src/render-delta-controller.mjs`).
State: the committed overlay (revision, sequence, tombstones, upserts,
external identities, invalidated dependencies, counts), at most one preview, at
most one asynchronous delta in preparation, the two disposal flags. Operations:
`applyCommitted`, `applyPreview`, `promotePreview`, `rollbackPreview`,
`applyCommittedAsync`, `dispose`, `disposeAsync`. It drives a renderer adapter,
whose screen changes only by the deltas it is handed. Hard: a staged delta is
prepared across an await during which anything may be called; every adapter
call may fail; a failed clean-up must not lose GPU resources; the renderer and
the controller are two copies of one scene. Correct means: both copies agree, a
cancelled delta never reaches the screen, what is retained is bounded, a
disposal completes.

**Render source session** (`viewer-core/src/render-source-session.mjs`). State:
the last snapshot, the announced one, the applied delta sequence, delta
subscriptions (each with a queue of deliveries that runs one at a time), the
revision event subscription, range handles and read budgets. Operations:
`getSnapshot`, `subscribeRenderDeltas`, `subscribeRevisionEvents`, `readRange`,
`resolvePick`, `dispose`. It is called by the viewer, and calls the viewer's
listeners; it calls the source, and the source calls it. Hard: `getSnapshot`
awaits twice; deltas and events arrive late, twice or out of order; a
subscription drains while its replacement opens. Correct means: the revision of
the session is that of the scene, picks are for what is shown, snapshots and
sequences do not go back, a disposed session says nothing.

**Scene cache manager** (`vscode-extension/src/scene-cache-manager.ts`). State:
of one manager, the storage directories it has initialized, the preparation that
runs and whether it is disposed; of one process, the chain of maintenance
promises all its managers share; on disk, generations of caches (one per engine
revision) and session directories, with a lease file per manager. Operations:
`initialize` (sweep, lease), `prepare` (look up, convert, commit a preview,
commit the cache), release, eviction, `dispose`. Every window has managers of
its own, and nothing but the file system between them. Hard: every check of the
disk is separated by an await from what depends on it; the drawing may be saved
while it is read; a window may crash anywhere; a directory may refuse to be
removed, a lease unreadable, a listing too long. Correct means: a cache is what
its name says, the bound holds when the last window has left, sessions and
crashes leave nothing behind that could be removed, a disposal completes, and
leases and readers protect what they are documented to protect.

**Editor session** (`vscode-extension/src/extension.ts`,
`resolveCustomEditor`). State: the generation counter and the queue of starts,
the cancellation controller, the cache manager of the start that runs, the
channels registered for the webview, the releases it owes, the reference
controller, the message the webview should be showing. Operations:
`requestStart` (first start, retry, rebuild), `start`, `stopCurrent`,
`onPreview`, `publishCache`, cancellation, the webview's messages,
`disposeSession`. It calls the cache manager, the reference controller and the
webview, and each of them, the user and VS Code call it. Hard: everything of the
above happens at any await of a start, and what a start has begun goes on when
it is superseded. Correct means: one converter at a time; the webview is told
only of what can be read; nothing is read after it is deleted; every start ends,
and says how; a closed editor leaves nothing.

**External references** (`xref-controller.ts` and `bounded-task-queue.ts` of the
extension, the queue and the panel in the webview's `main.mjs`). State: in the
extension, the caches that may report references with their depth and
ancestors, the references that are pending, what has been prepared, two task
queues and the waiters for mountings; in the webview, the status of each
reference, the announced caches that wait to be mounted, and what is mounted
where. Operations: discovery, resolution, conversion, announcement, mounting and
its timeout, loading and linking by hand. The two sides only exchange messages.
Hard: a page that is hidden is destroyed and starts anew while the controller
goes on; two references may be the same file; references nest and refer back; a
reference may be loaded again while its first mounting is awaited. Correct
means: every reference gets an answer, what the panel says is what is mounted,
a button that is offered does something, and converters never overlap.

**Range transport** (`range-channel.ts`, `host-range-source.mjs`). State: a
channel per cache with a bounded queue and a bounded number of active reads; a
source per opening with the reads it waits for. Operations: read, answer,
refuse, dispose on either side. Hard: reads end in any order, answers carry
only a number that begins again with each source, channels and sources are
replaced independently, messages to a hidden page are lost. Correct means: a
read gets its own bytes, and none of the current opening waits for ever.

**Opening a cache** (`openHostedCache` and `openCache` in `main.mjs`,
`viewer-runtime.mjs`). State: the revision of the last opening, and the active
runtime, scene and interaction. Hard: nothing stops an opening that is
superseded; it notices at its next look at the revision, and any step may fail,
even the first, before anything guards it. Correct means: the last opening wins,
the others hold nothing of what they took.

### Parts not modelled

`PROJECT.json` lists every part with the reason, and every hazard at its line.

- *Left out for want of room*: the service event and selection controllers,
  layers and comparison of revisions, the renderer's streaming of details and
  its delta adapter, the managed engine, the native document session, the
  worker's range proxy, the disk cache of the text search. They have state and
  awaits, and could be modelled as the parts above are.
- *Only by what they accept*: the protocol's parsers.
- *Not at all*: the converters (C, C#), the codec of the scene cache, drawing,
  geometry and typography are sequential numeric code of which a model on the
  level of messages would say nothing; the UI forwards clicks; evidence files,
  benchmarks and scripts are no running system.

## 2. Modules

| Module | What it is |
| --- | --- |
| `RenderDeltaData` | deltas, overlays and scenes, and how a delta changes each |
| `AtomicScene` | the abstract promise: a stable and a shown scene that change by whole deltas |
| `RenderDelta` | the controller and its adapter |
| `RenderDeltaProofs` | theorems about `RenderDelta` |
| `MCRenderDelta` | nine deltas for TLC |
| `RenderSession` | the session, its source and its viewer |
| `RenderSessionProofs` | theorems about `RenderSession` |
| `MCRenderSession` | sources with histories of snapshots for TLC |
| `SceneCacheStore` | cache managers in several windows, and the disk they share |
| `SceneCacheStoreProofs` | theorems about `SceneCacheStore` |
| `MCSceneCacheStore` | two managers in one window or in two |
| `EditorSession` | one editor panel, its starts, channels and webview |
| `EditorSessionProofs` | theorems about `EditorSession` |
| `MCEditorSession` | settings and users for TLC |
| `References` | the reference controller, the webview's mount queue and panel, and their messages |
| `ReferencesProofs` | theorems about the controller and its conversions |
| `ReferencesPanelProofs` | the theorem that the panel tells the truth |
| `MCReferences` | drawings whose references share files, nest and refer back |
| `RangeTransport` | range channels, message sources and the messages between them |
| `ViewerOpening` | openings of caches in the webview that overtake one another |
| `HostedCache` | composes the two: each opening reads through a source of its own |
| `HostedCacheProofs` | theorems about the openings, alone and composed |
| `HostedRangeProofs` | theorems about the reads of the composition |
| `MCHostedCache` | drawings of one to three ranges for TLC |

Every asynchronous method is cut at each of its awaits: an action is what runs
without interruption. An argument check that throws before anything changes is
a guard. State names are those of the code; `map` in `PROJECT.json` gives the
lines of each definition. Definitions whose comment begins with "Mutant:" are
not part of the specification: each is a plausible mistake at that place and
shows that the properties would notice it.

`HostedCache` has no state of its own: it joins a step of `ViewerOpening` with
the step of `RangeTransport` it causes. `openCache()` is called with a new
source, `getSnapshot()` waits for its reads, a disposal rejects them, and a page
that is hidden takes both along. How the modules meet: an announcement of
`RangeTransport` is the ready message of `EditorSession`; the channel it is read
through is one of `EditorSession`'s; `OpenDrawing` of `References` is the last
step of an opening in `ViewerOpening`; and the conversions of `References` are
`prepare()` of `SceneCacheStore`.

`RenderSession`, `SceneCacheStore` and `EditorSession` have a variable `setting`
(`drawing` in `References`, `bounds` in `RangeTransport`) that is chosen in `Init` and never changes: the source a session is opened on,
the windows and cache modes of the managers, the configuration of an editor and
what its user does. One run thereby covers several configurations.

### How the models simplify

- *Delta controller.* An overlay is a set of Render IDs with the tokens of their
  external identities; payloads are their sizes. A call the code refuses is a
  disabled action, except where the refusal changes something.
- *Session.* A snapshot is the number of the call that fetched it; a revision
  is a snapshot's revision and a number of deltas. The listener stands for the
  delta controller, which accepts a delta that follows what it has.
  A listener that awaits `getSnapshot()` or its own disposal is left out, since
  the code cannot serve it (it is listed as a hazard). A new snapshot that needs
  an announcement is published only while the events are subscribed to.
- *Store.* There is one drawing and a cache ID is one of its versions. A manager
  prepares one cache at a time, as the editor's starts do. Changing the engine
  under a manager, legacy names, and temporary files that go stale while their
  converter is alive are left out. Time is the set of managers whose lease has
  expired, and only a dead process's does: `isFreshLease` counts an old lease of
  a process that runs.
  Calls of the file system fail in two ways, which a setting allows or does not.
  "call": a directory cannot be listed or a lease not written, and the method
  fails with it. "ignored": the code goes on. `rm()` of a directory is atomic if
  it succeeds, and one that is refused leaves any part of it (`Remnants`); a
  lease, a cache or a preview may stay when it should go (`Done`); a lease may be
  taken for fresh that is not (`TakenForFresh`: its file cannot be read, its
  process ID belongs to another process now, or is not ours to ask about). A
  listing has `MaxEntries` entries at most (`Listings`), counted over what the
  model keeps in a directory: places, leases, or files with temporary files.
  Making a directory, marking a use and removing one's own temporary file always
  succeed. `spared` is a history variable: which places a manager ought to have
  removed or pruned, and did not for one of these reasons. The properties name it
  where the code gives no more; no action reads it. `Parts` is `AllSubSeqs` of the
  community modules, spelled out for the provers.
- *Editor.* The drawing does not change and has one reference, which has no
  references of its own. Closing a set of channels is one step, and so is
  calling a set of releases. The progress texts are one message. Whether a
  message reaches a webview that is being loaded is a free choice. Fonts, plot
  styles, images, settings, search and export are left out.
- *References.* A search finds one file or none; a file stands for its cache.
  "searching" stands for "converting" as well. Reading a cache and mounting it is
  one step; every parent is inserted at least once. The disposal of the
  controller is in `EditorSession`; switching views, which mounts everything
  anew, is left out. Whoever waits for a mounting is identified by reference and
  file, as in the code.
- *Ranges.* An opening reads its ranges in their order and awaits them together,
  as part of its snapshot. An invalid request is refused like one too many. A
  retry closes one channel and opens another; a preview, whose channel lives
  beside that of the full cache, is left out, and so are references' sources.
- *Openings.* A disposal runs in the turn in which it is asked for: those of
  renderer, session and source do in this build. `openCache()` passes no signal.
  Making the renderer may throw, which only the caller of `openCache()` notices:
  the opening has then ended ("thrown") and holds its source for good.
  The revisions of a page that is loaded anew go on instead of starting at 1.

## 3. Runs

The passing runs reach between seven hundred (`render_delta`) and 1.6 million
(`session`) distinct states, and each ends within a few minutes.

| Run | Bounds | What it shows |
| --- | --- | --- |
| `render_delta` | nine deltas on three keys and four revisions, four kinds of adapter | the controller's invariants, disposal, and that it implements `AtomicScene` |
| `session` | four sources: overlapping fetches, replaced subscriptions, requests, announcements | revision, announcements, picks, silence after disposal |
| `session_settle` | one subscription, one delta, two fetches | `getSnapshot()` and disposal settle |
| `session_install` | three announced snapshots, one subscription | **violated**: snapshots are installed in order |
| `store` | two windows, two preparations each, two versions, bound of one file, listings of three entries, two files left by earlier windows | caches are what they are called; the bound at rest |
| `store_faults` | one window with a manager of each mode, two such windows of which one crashes, two sessions of which one crashes; calls that fail, are ignored, or both; listings of one entry, no file within the bound | nothing is left behind that could be removed; disposal completes |
| `store_eviction` | two windows on one generation | **violated**: eviction spares readers |
| `store_leases` | two windows with different engines | **violated**: a lease protects its generation |
| `editor` | three starts without a reference, one or two with one; preview, cancellation, hiding, both modes | one converter; what is announced can be read; starts end and are answered; a closed editor is clean |
| `editor_stale` | two starts with a reference | **violated**: a registered channel has its file |
| `references` | eleven drawings of up to five references to two files; two tasks, depth two, four references; a failure anywhere, two clicks, one hide, slow mountings | references settle; the panel agrees with what is mounted; conversions do not overlap or repeat |
| `hosted_cache` | seven drawings of up to three ranges; two active reads, one queued; two retries, one hide, a failure anywhere | reads get their own bytes; the last opening is shown; it ends |

Why the bounds are enough:

- *Deltas.* The nine deltas contain two branches from one base, a chain that
  returns to where it began, a stale sequence number, a removal of what was
  replaced and the reverse. Each limit is met exactly by one chain and
  exceeded by another. A preparation overlaps with everything else, since there
  is at most one.
- *Session.* Two subscriptions are one that drains and its replacement; the code
  keeps no third. Two deltas are one to apply and one to repeat or overtake it.
  Three snapshots are the one shown, one announced and one that overtakes it.
- *Store.* Races over the disk are between a manager that looks and one that
  acts; one that crashes and one that sweeps. Two versions are enough for a
  drawing that changes under a conversion, and two files for a bound of one. Up
  to four files, and two temporary ones, exceed a listing of three. In
  `store_faults` two sessions and a generation exceed a listing of one, and a
  bound of zero has every cache evicted, or fail to be.
- *Editor.* Three starts are one that runs, one that waits and one that
  supersedes both. A reference needs two: the start that began it and the one it
  outlives.
- *References.* Two files are enough for a shared file, a chain, a circle and an
  overlay; five references exceed the limit of four, and the third file of a
  chain the depth of two. Two slots are one that converts and one that overtakes
  it with a cached file; both may be held by dialogs. Two clicks are two loads of
  one reference.
- *Ranges.* With two active reads and a queue of one, three ranges meet both
  limits, and a fourth request, of an older source, exceeds them. Three openings are one that is shown,
  one that is superseded while it opens and the one that counts.

`CHECK_DEADLOCK FALSE` is in every configuration: a viewer, session, manager or
editor that has been disposed of stops, and so does one that has used up its
bounds. That nothing stops too early is what the liveness properties say.

## 4. Fairness

- *Delta controller* (`FairSpec`): the event loop runs promise reactions and the
  adapter's promises settle, one way or the other. Calls are never assumed.
- *Session*: the source answers, or refuses, every request, a listener settles,
  and reactions run. That the source publishes, sends a delta or an event is not
  assumed, nor that anybody disposes of anything.
- *Store*: file system calls return, with an error if they must, and converters
  exit (one that is cancelled is killed if it does not). A process that crashes stops: its
  steps are disabled, and fairness asks nothing of it.
- *Editor*: promises settle, converters exit, and a webview that is shown loads.
  That a preview is ever drawn is *not* assumed, since a webview may be hidden,
  except in `UncancelledAreAnswered`: there the code's timer stands behind it,
  and the property has the assumption in its own text. `SupersededEnds` and
  `CleanWhenClosed` hold without it.
- *References*: messages to a page that exists are handled, the mount queue goes
  on, searches and conversions end, and the timer fires. Nothing makes the user
  close a dialog or show an editor again: `ReferencesSettle` says what is so
  while the page is shown, unless dialogs hold every slot.
- *Hosted cache*: messages are delivered while the page exists, reads of a file
  end, posted answers free their slot, and what is awaited is continued. A retry
  and the opening of its new channel are not assumed: `OpeningSettles` speaks of
  the times when the page is shown and a channel is open.

## 5. Proofs

`RenderDeltaProofs` proves, for every set of deltas and keys, every limit and
every kind of adapter:

| Theorem | |
| --- | --- |
| `TypeCorrect` | every variable keeps its type |
| `ScreenAgreement` | the renderer shows what the controller answers from |
| `StagedOwnership` | a prepared transaction has exactly one owner |
| `NoOvertaking` | nothing changes the overlay under a preparation |
| `CancelIsFinal` | what was aborted is not committed |
| `Coherence` | no Render ID is both hidden and replaced |
| `Retention` | what is retained is bounded |
| `Refinement` | the controller and its renderer implement `AtomicScene` |

They rest on two assumptions. `DataAssumption` (in `RenderDeltaData`): a delta
that has passed the protocol's parser is well formed, that is its
two sets of IDs are disjoint and its tokens are tokens. `LimitAssumption`
(in `RenderDelta`): the limits are positive integers, which the constructor
checks, and `NoDelta` is no delta. TLC evaluates both in `render_delta`.

The argument. None of the invariants is inductive alone. `TypeInv` adds to
`TypeOK` that a pending operation has a delta. `IInv` is `TypeInv` and four
parts that need one another: `Lifecycle` (what the disposal flags, the closer
and the phase of the pending operation say of each other), `StagedOwned`,
`NothingOvertakesPreparation` and `ScreenAgrees`. That the screen agrees after a
staged commit needs the overlay to be still the one the delta was prepared on;
that it is needs the calls that could change it to be refused while one is
pending; and that none is left over at disposal needs the ownership. The
lemma all of it leans on is `ApplyIsDraw`: applying a delta to the overlay and
replaying it on the screen commute. `Coherence` and `Retention` have
an invariant of their own, `GoodOverlays`, about every overlay the controller
holds, the one in preparation among them. `Refinement` follows by cases over
the actions: a step that changes what is shown is one of the abstract
scene's, every other one stutters.

`HostedCacheProofs` proves, for any number of openings, channels and ranges:

| Theorem | |
| --- | --- |
| `OpeningsShowLatest` | a superseded opening never takes the screen, and at rest nothing is held but what is shown and the sources of openings without a renderer (`LatestIsShown`) |
| `HostedOpenings` | the composition implements the openings by themselves |
| `HostedShowsLatest` | hence `LatestIsShown` holds of the composition |

The one assumption is `MaxOpeningsAssumption`, that the bound of the model is a
natural number. `LatestIsShown` is not inductive: it says nothing of an opening
that is about to look at its revision. `OpeningInv` adds who holds resources
(`Holders`: the openings whose runtime is not open yet, and the active runtime),
that the active runtime is the current opening past its mount
(`ActiveIsCurrent`), and conversely that a current opening past its mount is
active (`CurrentIsActive`). The last is what makes the check `activeScene = o`
after the draw order has been read equivalent to the check of the revision, so
that a discarded opening never takes a later one's runtime with it. Each
step of `HostedCache` contains a step of `ViewerOpening` or leaves its
variables alone, which gives the second theorem.

`HostedRangeProofs` adds, for any number of reads, caches, channels and slots:

| Theorem | |
| --- | --- |
| `HostedTypeCorrect` | types, and the bound on a channel's queue |
| `ReadsGetTheirBytes` | a read gets its own bytes (`AnswersBelong`) |

under `RangeAssumption`, that the limits are natural numbers and a setting names
the ranges of a cache. An answer carries a number and a cache, and every open
source hears it. `Asks` says that what is on its way, in a request, a slot or an
answer, was asked for by a read under that number; `IdsApart` that a source uses
a number once; `CachesApart` that two sources have different caches. The last
holds while the page is not loaded anew and a retry builds another cache, which
is where `AnswersBelong` has its precondition from.

`RenderSessionProofs` proves, for any number of fetches, subscriptions and
deltas, and any history of the source:

| Theorem | |
| --- | --- |
| `TypeCorrect` | types |
| `SessionFollowsScene` | the session's revision is the scene's (`RevisionFollowsScene`) |
| `PickIsResolvedForScene` | a pick is for what is shown (`PickIsCurrent`) |
| `DisposedIsSilent` | nothing is served after a disposal (`SilentWhenDisposed`) |
| `AnnouncementIsAhead` | an announcement is still to be fetched (`AnnouncedIsAhead`) |

under `SessionAssumption`: the bounds are natural numbers and a source has a
snapshot. The first three rest on `FollowInv`: the last snapshot is the one that
is mounted (`LastMounted`), of its deltas one at a time is in a listener's hands
(`OneInFlight`, `SubsFollow`), and that is the next one (`InFlightIsNext`), so
that the scene is ahead by this delta or not at all. Silence is shown action by
action. `AnnouncedIsAhead` needs an order on everything that
is on its way: events are numbered in the order of the snapshots they announce
(`MessagesOrdered`), what is fetched has been produced (`FetchedSoFar`), and an
event still to be delivered announces something newer than every announcement
and every answer accepted, those that wait for a disposal among them
(`PendingAhead`).

`SceneCacheStoreProofs` proves, for any managers, processes, generations and
settings, any bound and any files that earlier windows left:

| Theorem | |
| --- | --- |
| `StoreTypeCorrect` | types, among them the queues of maintenance |
| `CachesMatchTheirNames` | a cache holds the version in its name (`CacheMatchesSource`) |
| `SessionsLeaveNothing` | a session that has gone left nothing, or was refused (`SessionLeavesNothing`) |
| `GenerationsFitAtRest` | without faults, the bound holds when the last window has left (`WithinBoundAtRest`) |
| `CrashedSessionsAreSwept` | a later window removes what a crash left, or could not (`CrashLeftoversSwept`) |

under `StoreAssumption`: managers are not generations, the bounds are numbers, a
listing has an entry, and the files found at the start have different names and
hold what their names say. The settings are any, so that but for the bound
nothing is assumed of the calls that fail. All but the last are parts of one invariant (`StoreCorrect`). The bound is
the hard one: `WithinBoundAtRest` speaks of the end, and what has to be said before is
that a generation may exceed the bound only while some manager with storage has
still to look at it (`WillFit`: it has not begun its eviction, or
what its eviction will leave fits), or one has had a listing that was cut short
(`Spared`). A manager may leave without pruning because
it saw a fresh lease; `LeasesHold` says that a lease belongs to another such
manager, as long as leases can be removed. The last theorem follows a session
directory through the sweep: a manager without storage when the lease expired has
either not listed the sessions yet or still has the directory before it
(`Ahead`), and stays so until the directory is gone or on record as spared
(`Sweeps`). That nobody makes a place again that is gone, or adds to what a
refused removal left of a session, is what `Written` says of a step.

`EditorSessionProofs` proves, for any number of starts and any configuration
(`EditorAssumption`):

| Theorem | |
| --- | --- |
| `EditorTypeCorrect` | types |
| `OneConverterRuns` | one converter at a time (`OneConverter`) |
| `ReadyCacheIsReadable` | what a webview is told of can be read (`ActiveIsReadable`) |

`OneConverter` says nothing of a stop that is under way. A process belongs to the
start or the reference that awaits its exit (`ConvertersRun`); starts run one at
a time (`StartRuns`). What keeps a start apart from an earlier start's reference
is that only the controller of the last published start discovers one, with the
current manager (`ControllerIsCurrent`), and that a stop takes this manager and
waits until it is idle (`ReferenceAwaited`). `NothingShared` says that a start
registers nothing until it publishes, which `ActiveIsReadable` needs.

`ReferencesProofs` and `ReferencesPanelProofs` prove, for any drawing, any
concurrency and any limits:

| Theorem | |
| --- | --- |
| `ReferencesTypeCorrect` | types of tasks, messages and mounted paths |
| `ConversionsAreSingle` | one conversion at a time, none repeated (`ConvertsOnce`) |
| `PanelTellsTheTruth` | the panel shows what is mounted (`PanelAgrees`) |

under `ReferencesAssumption`: the limits are positive, as in the code, and a
drawing's references are known by their cache and block (`WellFormed`).
Two tasks run, and one conversion: a slot is in the queue of conversions exactly
while its task waits or converts, once, and only the first converts
(`ConversionsHold`). `PanelAgrees` speaks of a system at rest; its invariant
`PanelHolds` says of every state on the way that what is known of a reference in the
tasks, the messages and the webview belongs together. One task works for a
reference, which is pending as long (`Served`); a task that waits for a mounting
has its answer underway, in one of three queues, and no answer is for a task that
is over (`Awaited`); "ready" is shown of what is mounted (`Shown`); nothing is
known of a reference before its cache is reported (`NothingElse`, `Reports`);
and while no button was used nobody loads what the panel offers to load
(`Unused`). The last is why one click is allowed and two are not.
All steps of the controller are of one kind (`ControllerKeeps`): messages are
taken, a task ends or goes on, free slots take those that wait.

With these every invariant, action property and refinement of a passing run is a theorem,
and so is `CrashLeftoversSwept`, which is a safety property in temporal form. What
stays with TLC:

- *Liveness*: `DisposalCompletes` (of both modules), `SnapshotsSettle`,
  `SubscriptionsDrain`, `SupersededEnds`, `UncancelledAreAnswered`,
  `CleanWhenClosed`, `ReferencesSettle` and `OpeningSettles`. The prover does not
  reason about fairness.
- *What the code does not keep*: `InstallsInOrder`, `EvictionSparesReaders`,
  `LeaseProtects` and `RegisteredHasFile`, for which TLC has counterexamples.

## 6. What disagrees with the documents

Four runs are expected to be violated; `PROJECT.json` quotes the sentences.

1. **`session_install`** (`render-source-session.mjs:345`). `getSnapshot()`
   checks its answer, awaits the disposal of the old subscription, and
   installs without looking again. A newer announcement that came in between is
   forgotten, and the older of two answers may be installed last.
2. **`store_eviction`** (`scene-cache-manager.ts:779`). Looking for leases,
   listing caches and removing them are separate awaits: another window may open
   a reader on a cache that is already chosen.
3. **`store_leases`** (`scene-cache-manager.ts:783`). A manager takes its lease
   after its maintenance, and another window's sweep removes a directory some
   awaits after it found no lease in it.
4. **`editor_stale`** (`extension.ts:1267`). A reference of an earlier start is
   registered in the next one: `publishCache()` asks whether the *signal*
   of its start has fired, which a retry of a finished start does not do. Its
   file has been deleted.

Seen while modelling, without a run of their own (the hazards list most of them):
a snapshot that is installed although the session was disposed of during the
await; a late delivery of a closed subscription that sets the sequence back,
given a listener that accepts deltas out of sequence; the handle of a reference
whose panel closes during the second check of `publishCache()`
(`extension.ts:1271`); the preview of a cancelled conversion, whose channel
stays until the next start; an error told to a webview that is hidden, which is
not told again.

Seen in the models of this list, where a property has the exception in its text:

- *Removals that are refused* (`scene-cache-manager.ts:431`, `:852`, `:877`,
  `:1035-1039`). The code removes a session's directory when it is disposed of,
  what a sweep finds and what an eviction has chosen, ignores a failure, and goes
  on: the disposal is fulfilled, the storage ready, the eviction counts the file
  as removed. What is left is a matter of the next sweep. `SessionLeavesNothing`
  and `CrashLeftoversSwept` except what its manager was refused, and
  `WithinBoundAtRest` settings in which calls fail.
- *Leases taken for fresh* (`scene-cache-manager.ts:944-957`). A lease counts if a
  process with its ID runs, whichever it is, if that one may not be asked about,
  and if reading it fails with any error but that it is not there. A crashed
  window's session may stay as long as that is so; `CrashLeftoversSwept` excepts
  it.
- *Long listings* (`scene-cache-manager.ts:125`). No directory is read beyond
  4096 entries (line 59): a sweep may miss places, and a pruning the very files
  that exceed the bound. `CrashLeftoversSwept` and `WithinBoundAtRest` except what
  was not listed.
- *A renderer that cannot be made* (`main.mjs:6792`). The constructor throws
  without WebGL2 (`renderer.mjs:3056-3058`), outside of the `try` of
  `openCache()`. `openHostedCache()`'s caller reports the error
  (`main.mjs:7366-7385`), but the opening's `MessageRangeSource` is never disposed
  of: its listener stays until the page ends. `LatestIsShown` excepts the sources
  of such openings (`Thrown`).
- *A revision that returns* (`render-source-session.mjs:609`). Revision ids are
  hashes of contents, so that undoing an edit brings one back. An announcement of
  it that is delivered late is then taken for a new one and falls behind the
  snapshot that has been fetched. `AnnouncedIsAhead` speaks of histories in which
  no replaced revision returns (`RevisionsDoNotRecur`).
- *A cancellation in time* (`extension.ts:1210`). A cancellation after the last
  check of the signal lets the preparation succeed, and `start()` then returns
  without a word, although `docs/architecture.md:449-450` says that cancellation
  remains explicit: the webview shows the last progress message for ever.
  `UncancelledAreAnswered` leaves cancelled starts out.
- *An overlay that is attached as well* (`xref-controller.ts:479`). A cache keeps
  what it was registered with first. If it was first met as an overlay and is
  attached at a second place, the webview reports its references when it is
  mounted there, and the controller drops the report: they stay "waiting" for
  ever, and one that is not loaded has a button that does nothing.
  `ReferencesSettle` leaves such drawings out (`SameKind`), and `PanelAgrees` speaks
  of panels whose caches are all listened to (`ListenedTo`).
- *A circle through a shared file* (the same line). Ancestors are those of the
  path that came first, so that a file both of two others refer to may be mounted
  below itself, as far as files are discovered (once each) and the depth allows.
  `docs/architecture.md:651-652` says nested references retain the cycle limit.
- *Nested references of a file that is mounted later at a second place* are
  missing there: a cache reports its references once, and they are mounted
  wherever their parent is at that moment.
- *Loads of one reference that overlap* (`xref-controller.ts:574`): by a second
  click, a page that is loaded anew, or a mounting that takes longer than the
  timer. The second refuses the waiter of the first; the reference is shown as an
  error although it is mounted, its buttons do nothing once the other has
  succeeded, or a late answer is ignored. `PanelAgrees` leaves the three out. A
  page that is loaded anew also counts its references towards the limit again.
- *Reads that are active when their channel is closed* get no answer, nor do
  requests without a channel (`range-channel.ts:172`, `extension.ts:1353`). An
  opening that waits for one is superseded, but keeps its renderer and session
  until the page ends. `OpeningSettles` speaks of the last opening.
- *One cache identifier twice.* A page that is loaded anew, or a retry that finds
  the cache it had, counts its reads from 1 again, and an answer that is still on
  its way is taken for the new read of that number if its length fits.
  `AnswersBelong` leaves the two cases out. In the model openings read in one
  order and nothing would come of it; nothing in the code fixes that order.

## 7. Plan

Done: `RenderDelta` with `AtomicScene`, `RenderSession`, `SceneCacheStore`,
`EditorSession`, `References`, and `HostedCache` with `RangeTransport` and
`ViewerOpening`; and the proofs of every safety property their passing runs check.

Proofs to come: action properties that the invariants above make provable and no run
states yet, such as that a cache ID of a generation changes its contents only by being
removed and converted anew; the weaker facts that do hold where a document is
violated (what an eviction spares when the windows share a process; in which
order snapshots are installed when at most one `getSnapshot()` is under way);
and an abstract specification of the store, a map from
cache IDs to contents that windows add to and evict from.

Further parts, if the project grows: the service event and selection controllers
around a session, `ManagedEngine` with several windows that install one
converter, `NativeDocumentSession`, the comparison presentations with their
rollback over two targets, and detail streaming with its GPU cache.
