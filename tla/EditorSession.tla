--------------------------- MODULE EditorSession ---------------------------
(***************************************************************************)
(* The session of one editor panel in the extension host                    *)
(* (vscode-extension/src/extension.ts, resolveCustomEditor): starting,      *)
(* retrying, cancelling and closing it, the caches it prepares through a    *)
(* SceneCacheManager of its own for every start, the range channels it      *)
(* opens on them, and what its webview is told.                             *)
(*                                                                         *)
(* Every await is a cut; closing a set of channels is one step, and so is   *)
(* calling a set of releases.  The drawing does not change and has one      *)
(* external reference, so a kind of cache has the same ID in every start.   *)
(* Font, plot style and image channels, settings, search matches and the    *)
(* export of files are left out.                                           *)
(***************************************************************************)
EXTENDS Integers, Sequences, FiniteSets

CONSTANTS
    MaxStarts,      \* bound: calls of requestStart()
    Settings        \* the settings and scenarios an editor may be opened in

\* starts bounds requestStart() further; progressive is the setting
\* dwgViewer.progressivePreview, persistent the cache mode; xrefs says whether
\* the drawing has a reference, cancels and hides what its user may do.
Setting ==
    [starts: 1..MaxStarts, progressive: BOOLEAN, persistent: BOOLEAN,
     xrefs: BOOLEAN, cancels: BOOLEAN, hides: BOOLEAN]

ASSUME EditorAssumption == MaxStarts \in Nat \ {0} /\ Settings \subseteq Setting

Starts == 1..MaxStarts
None == 0
Kinds == {"preview", "root", "xref"}
Item == [start: Starts, kind: Kinds]
It(g, kind) == [start |-> g, kind |-> kind]

\* What the webview is told, and about which start.
Message == [start: Starts, kind: {"preparing", "preview", "ready", "error",
                                  "cancelled"}]
NoMessage == [start |-> None, kind |-> "none"]

VARIABLES
    setting,
    disposed, generation, startQueue,
    running, stage,          \* the start that runs
    preview,                 \* its onPreview()
    conversion,              \* the start whose AbortController may be aborted
    aborted,                 \* the starts whose signal has fired
    waiter,                  \* the start that waits for the preview's first frame
    sceneCacheManager,
    managers,                \* that of each start
    converters,              \* the processes that run
    rangeChannels,           \* of each kind of cache, the start that registered it
    open,                    \* channels whose file handle is open
    files,
    cacheReleases, previewRelease,
    xrefController, xrefStopped,
    xref,                    \* prepareSource() of the reference, for each start
    stops,                   \* calls of stopCurrent(): a start's, the disposal's
    activeMessage, pendingMessage,
    webview, webviewReady,
    screen                   \* the last message a webview that is shown received

requests == <<disposed, generation, startQueue>>
controls == <<conversion, aborted, waiter>>
engines == <<sceneCacheManager, managers, converters>>
channels == <<rangeChannels, open, files, cacheReleases, previewRelease>>
references == <<xrefController, xrefStopped, xref>>
views == <<activeMessage, pendingMessage, webview, webviewReady, screen>>
session == <<requests, running, stage, preview, controls, engines, channels,
             references, stops, views>>
vars == <<setting, session>>

Progressive == setting.progressive
Persistent == setting.persistent

Stops == {"start", "disposal"}
NoStop == [at |-> "idle", channels |-> {}, releases |-> {}, manager |-> None]

\* Where a start is while its call of prepare() is pending.
Preparing == {"storage", "previewing", "converting", "exited", "committing"}

TypeOK ==
    /\ setting \in Settings
    /\ disposed \in BOOLEAN /\ generation \in 0..MaxStarts + 1
    /\ startQueue \in Seq(Starts)
    /\ running \in Starts \cup {None}
    /\ stage \in Preparing \cup {"idle", "stopping", "adapter", "prepared",
                                 "opening", "aborted", "failed"}
    /\ preview \in {"none", "offered", "opening", "waiting", "done"}
    /\ conversion \in Starts \cup {None} /\ aborted \subseteq Starts
    /\ waiter \in Starts \cup {None}
    /\ sceneCacheManager \in Starts \cup {None}
    /\ managers \in [Starts -> {"none", "live", "disposed", "gone"}]
    /\ converters \subseteq Item
    /\ rangeChannels \in [Kinds -> Starts \cup {None}]
    /\ open \subseteq Item /\ files \subseteq Item
    /\ cacheReleases \subseteq Item /\ previewRelease \in Starts \cup {None}
    /\ xrefController \in Starts \cup {None} /\ xrefStopped \subseteq Starts
    /\ xref \in [Starts -> {"none", "found", "storage", "converting", "committing",
                            "publish", "opening", "opened", "done"}]
    /\ stops \in [Stops -> [at: {"idle", "channels", "releases", "manager", "done"},
                            channels: SUBSET Item, releases: SUBSET Item,
                            manager: Starts \cup {None}]]
    /\ {activeMessage, pendingMessage, screen} \subseteq Message \cup {NoMessage}
    /\ webview \in {"none", "loading", "shown", "hidden"}
    /\ webviewReady \in BOOLEAN

Init ==
    /\ setting \in Settings
    /\ disposed = FALSE
    /\ IF Progressive THEN generation = 0 /\ startQueue = << >>
                      ELSE generation = 1 /\ startQueue = <<1>>
    /\ running = None /\ stage = "idle" /\ preview = "none"
    /\ conversion = None /\ aborted = {} /\ waiter = None
    /\ sceneCacheManager = None
    /\ managers = [g \in Starts |-> "none"]
    /\ converters = {}
    /\ rangeChannels = [k \in Kinds |-> None]
    /\ open = {} /\ files = {} /\ cacheReleases = {} /\ previewRelease = None
    /\ xrefController = None /\ xrefStopped = {}
    /\ xref = [g \in Starts |-> "none"]
    /\ stops = [w \in Stops |-> NoStop]
    /\ activeMessage = NoMessage /\ pendingMessage = NoMessage
    /\ webview = IF Progressive THEN "loading" ELSE "none"
    /\ webviewReady = FALSE /\ screen = NoMessage

-----------------------------------------------------------------------------
(* Helpers.                                                                *)

\* A cache of a session has a file of its own; a persistent one is shared.
File(g, kind) == IF Persistent THEN It(1, kind) ELSE It(g, kind)

\* release()
Released(some) == IF Persistent THEN files ELSE files \ some

\* Mutant: there always is a controller.
AbortAnyway(g) ==
    /\ aborted' = aborted \cup {g}
    /\ waiter' = IF waiter = g THEN None ELSE waiter

\* Mutant: the wait for the first frame does not listen to the signal.
AbortSignalOnly(g) == aborted' = aborted \cup ({g} \ {None}) /\ UNCHANGED waiter

\* The signal of a start fires, and with it the wait for the first frame.
Abort(g) ==
    /\ aborted' = aborted \cup ({g} \ {None})
    /\ waiter' = IF waiter = g THEN None ELSE waiter

\* A start that is no longer wanted.
Stale(g) == disposed \/ g \in aborted \/ g # generation

\* A message reaches the webview while it is shown, perhaps while it is being
\* loaded, and not while it is hidden.
Deliver(m) ==
    \/ webview \in {"shown", "loading"} /\ screen' = m
    \/ webview # "shown" /\ UNCHANGED screen

\* postState()
PostState(m) ==
    IF webviewReady THEN Deliver(m) /\ UNCHANGED pendingMessage
    ELSE pendingMessage' = m /\ UNCHANGED screen

InitializeWebview ==
    webview' = IF webview = "none" /\ ~disposed THEN "loading" ELSE webview

-----------------------------------------------------------------------------
(* stopCurrent().                                                          *)

\* Mutant: the manager is not awaited.
NoManager == None

ManagerTaken == sceneCacheManager

ForgetMessages == activeMessage' = NoMessage /\ pendingMessage' = NoMessage

\* What it does before its first await.
BeginStop(who) ==
    LET used == {k \in Kinds : rangeChannels[k] # None}
        registered == {It(rangeChannels[k], k) : k \in used}
        previews == IF previewRelease = None THEN {}
                    ELSE {File(previewRelease, "preview")}
    IN  /\ stops' = [stops EXCEPT ![who] =
              [at |-> "channels", channels |-> registered,
               releases |-> cacheReleases \cup previews, manager |-> ManagerTaken]]
        /\ aborted' = aborted \cup ({conversion} \ {None})
        /\ conversion' = None /\ waiter' = None
        /\ sceneCacheManager' = None
        /\ rangeChannels' = [k \in Kinds |-> None]
        /\ cacheReleases' = {} /\ previewRelease' = None
        /\ xrefStopped' = xrefStopped \cup ({xrefController} \ {None})
        /\ xrefController' = None
        /\ ForgetMessages

CloseChannels(who) ==
    /\ stops[who].at = "channels"
    /\ open' = open \ stops[who].channels
    /\ stops' = [stops EXCEPT ![who].at = "releases"]
    /\ UNCHANGED <<setting, requests, running, stage, preview, controls, engines,
                   rangeChannels, files, cacheReleases, previewRelease,
                   references, views>>

\* The releases settle, and the manager is disposed of.
ReleaseCaches(who) ==
    LET m == stops[who].manager IN
    /\ stops[who].at = "releases"
    /\ files' = Released(stops[who].releases)
    /\ managers' = [g \in Starts |-> IF g = m THEN "disposed" ELSE managers[g]]
    /\ stops' = [stops EXCEPT ![who].at = IF m = None THEN "done" ELSE "manager"]
    /\ UNCHANGED <<setting, requests, running, stage, preview, controls,
                   sceneCacheManager, converters, rangeChannels, open,
                   cacheReleases, previewRelease, references, views>>

\* activePreparations of the manager of a start.
Busy(g) ==
    \/ running = g /\ stage \in Preparing
    \/ xref[g] \in {"storage", "converting", "committing"}

\* SceneCacheManager.dispose() waits for its preparations and, in a session,
\* removes its directory.
ManagerGone(who) ==
    LET m == stops[who].manager IN
    /\ stops[who].at = "manager" /\ ~Busy(m)
    /\ managers' = [managers EXCEPT ![m] = "gone"]
    /\ files' = Released({It(m, k) : k \in Kinds})
    /\ stops' = [stops EXCEPT ![who].at = "done"]
    /\ UNCHANGED <<setting, requests, running, stage, preview, controls,
                   sceneCacheManager, converters, rangeChannels, open,
                   cacheReleases, previewRelease, references, views>>

StopStep(who) == CloseChannels(who) \/ ReleaseCaches(who) \/ ManagerGone(who)

-----------------------------------------------------------------------------
(* start().                                                                *)

\* requestStart(), from an event handler.
Request ==
    /\ ~disposed /\ generation < setting.starts
    /\ generation' = generation + 1
    /\ startQueue' = Append(startQueue, generation + 1)
    /\ Abort(conversion)
    /\ UNCHANGED <<disposed, conversion>>

BeginStart ==
    /\ running = None /\ startQueue # << >>
    /\ running' = Head(startQueue) /\ startQueue' = Tail(startQueue)
    /\ stage' = "stopping" /\ preview' = "none"
    /\ BeginStop("start")
    /\ UNCHANGED <<setting, disposed, generation, managers, converters, open,
                   files, xref, webview, webviewReady, screen>>

\* The end of start(), and its finally block.
EndStart ==
    /\ running' = None /\ stage' = "idle"
    /\ conversion' = IF conversion = running THEN None ELSE conversion
    /\ UNCHANGED <<startQueue, preview, aborted, waiter>>

Unchecked == UNCHANGED <<disposed, generation>>

AfterStop ==
    /\ stage = "stopping" /\ stops["start"].at = "done"
    /\ stops' = [stops EXCEPT !["start"] = NoStop]
    /\ IF disposed \/ running # generation
       THEN EndStart /\ UNCHANGED <<activeMessage, pendingMessage, screen>>
       ELSE /\ conversion' = running /\ stage' = "adapter"
            /\ activeMessage' = NoMessage
            /\ PostState([start |-> running, kind |-> "preparing"])
            /\ UNCHANGED <<startQueue, running, preview, aborted, waiter>>
    /\ Unchecked
    /\ UNCHANGED <<setting, engines, channels, references, webview, webviewReady>>

Continue(next) == stage' = next /\ UNCHANGED <<requests, running, controls,
                                               stops>>

\* resolveViewerAdapter() has settled; prepare() begins with its signal.
ResolveAdapter ==
    /\ stage = "adapter"
    /\ \/ Continue("failed") /\ UNCHANGED <<sceneCacheManager, managers>>
       \/ /\ managers' = [managers EXCEPT ![running] = "live"]
          /\ sceneCacheManager' = running
          /\ Continue(IF running \in aborted THEN "aborted" ELSE "storage")
    /\ UNCHANGED <<setting, preview, converters, channels, references, views>>

\* engine.convert() with a signal that may have fired.
Convert ==
    IF running \in aborted THEN Continue("aborted") /\ UNCHANGED converters
    ELSE /\ Continue("converting")
         /\ converters' = converters \cup {It(running, "root")}

\* A cache that is there is reused without another look at the signal, unless
\* the start was forced; a preview that is there is offered first.
Lookup ==
    LET root == File(running, "root") IN
    /\ stage = "storage"
    /\ \/ Continue("failed") /\ UNCHANGED <<converters, files, preview>>
       \/ /\ Persistent /\ root \in files
          /\ Continue("prepared") /\ UNCHANGED <<converters, files, preview>>
       \/ /\ files' = IF Persistent THEN files \ {root} ELSE files
          /\ IF Persistent /\ Progressive /\ File(running, "preview") \in files
             THEN /\ Continue("previewing") /\ preview' = "offered"
                  /\ UNCHANGED converters
             ELSE Convert /\ UNCHANGED preview
    /\ UNCHANGED <<setting, sceneCacheManager, managers, rangeChannels, open,
                   cacheReleases, previewRelease, references, views>>

AfterPreview ==
    /\ stage = "previewing" /\ preview = "done"
    /\ Convert
    /\ UNCHANGED <<setting, preview, sceneCacheManager, managers, channels,
                   references, views>>

\* The converter has published a preview.
Offer ==
    /\ stage = "converting" /\ Progressive /\ preview = "none"
    /\ running \notin aborted
    /\ files' = files \cup {File(running, "preview")}
    /\ preview' = "offered"
    /\ UNCHANGED <<setting, requests, running, stage, controls, engines,
                   rangeChannels, open, cacheReleases, previewRelease,
                   references, stops, views>>

\* The process has exited, killed or not.
ConverterExits ==
    /\ It(running, "root") \in converters
    /\ converters' = converters \ {It(running, "root")}
    /\ Continue("exited")
    /\ UNCHANGED <<setting, preview, sceneCacheManager, managers, channels,
                   references, views>>

Converted ==
    /\ stage = "exited" /\ preview \in {"none", "done"}
    /\ IF running \in aborted THEN Continue("aborted")
       ELSE Continue("committing") \/ Continue("failed")
    /\ UNCHANGED <<setting, preview, engines, channels, references, views>>

\* The last steps of prepare(), which look at no signal.
Commit ==
    /\ stage = "committing"
    /\ \/ Continue("failed") /\ UNCHANGED files
       \/ Continue("prepared") /\ files' = files \cup {File(running, "root")}
    /\ UNCHANGED <<setting, preview, engines, rangeChannels, open, cacheReleases,
                   previewRelease, references, views>>

\* The promise of prepare() is fulfilled.
Prepared ==
    /\ stage = "prepared"
    /\ cacheReleases' = cacheReleases \cup {File(running, "root")}
    /\ IF Stale(running) THEN EndStart /\ Unchecked
       ELSE Continue("opening") /\ UNCHANGED preview
    /\ UNCHANGED <<setting, engines, rangeChannels, open, files, previewRelease,
                   references, stops, views>>

\* CacheRangeChannel.open() has settled.
Publish ==
    LET ready == [start |-> running, kind |-> "ready"] IN
    /\ stage = "opening" /\ File(running, "root") \in files
    /\ EndStart
    /\ IF Stale(running)
       THEN UNCHANGED <<rangeChannels, open, xrefController, xref, activeMessage,
                        webview, screen>>
       ELSE /\ rangeChannels' = [rangeChannels EXCEPT !["root"] = running]
            /\ open' = open \cup {It(running, "root")}
            /\ xrefController' = running
            /\ xref' = [xref EXCEPT ![running] =
                            IF setting.xrefs THEN "found" ELSE "none"]
            /\ activeMessage' = ready
            /\ InitializeWebview
            /\ IF webviewReady THEN Deliver(ready) ELSE UNCHANGED screen
    /\ Unchecked
    /\ UNCHANGED <<setting, engines, files, cacheReleases, previewRelease,
                   xrefStopped, stops, pendingMessage, webviewReady>>

OpenFails ==
    /\ stage = "opening" /\ File(running, "root") \notin files
    /\ Continue("failed")
    /\ UNCHANGED <<setting, preview, engines, channels, references, views>>

\* Mutant: nothing is told.
CatchSilently ==
    /\ stage \in {"aborted", "failed"}
    /\ EndStart
    /\ UNCHANGED <<pendingMessage, screen, webview>>
    /\ Unchecked
    /\ UNCHANGED <<setting, engines, channels, references, stops, activeMessage,
                   webviewReady>>

\* The catch block.
Catch ==
    /\ stage \in {"aborted", "failed"}
    /\ EndStart
    /\ IF disposed \/ running # generation
       THEN UNCHANGED <<pendingMessage, screen, webview>>
       ELSE /\ PostState([start |-> running,
                          kind |-> IF stage = "aborted" THEN "cancelled"
                                   ELSE "error"])
            /\ InitializeWebview
    /\ Unchecked
    /\ UNCHANGED <<setting, engines, channels, references, stops, activeMessage,
                   webviewReady>>

StartStep ==
    \/ BeginStart \/ AfterStop \/ ResolveAdapter \/ Lookup \/ AfterPreview
    \/ Converted \/ Commit \/ Prepared \/ Publish \/ OpenFails \/ Catch
-----------------------------------------------------------------------------
(* onPreview().                                                            *)

PreviewCut == UNCHANGED <<setting, requests, running, stage, conversion,
                          aborted, engines, cacheReleases, references, stops,
                          activeMessage, pendingMessage, webview, webviewReady>>

\* preview.release()
PreviewReleased == files' = Released({File(running, "preview")})

CheckPreview ==
    /\ preview = "offered"
    /\ IF Stale(running) THEN preview' = "done" /\ PreviewReleased
       ELSE preview' = "opening" /\ UNCHANGED files
    /\ PreviewCut /\ UNCHANGED <<waiter, rangeChannels, open, previewRelease,
                                 screen>>

\* Mutant: it is not looked at again after the channel is open.
StillWanted(g) == FALSE

Unwanted(g) == Stale(g)

\* The channel is open, the message posted.  A preview that was there before
\* is waited for, unless the webview does not get the message.
PublishPreview ==
    /\ preview = "opening"
    /\ IF Unwanted(running)
       THEN /\ preview' = "done" /\ PreviewReleased
            /\ UNCHANGED <<waiter, rangeChannels, open, previewRelease, screen>>
       ELSE /\ rangeChannels' = [rangeChannels EXCEPT !["preview"] = running]
            /\ open' = open \cup {It(running, "preview")}
            /\ previewRelease' = running
            /\ Deliver([start |-> running, kind |-> "preview"])
            /\ IF stage = "previewing" /\ webview = "shown"
               THEN preview' = "waiting" /\ waiter' = running
               ELSE preview' = "done" /\ UNCHANGED waiter
            /\ UNCHANGED files
    /\ PreviewCut

FrameSettled ==
    /\ preview = "waiting" /\ waiter # running
    /\ preview' = "done"
    /\ PreviewCut /\ UNCHANGED <<waiter, rangeChannels, open, files,
                                 previewRelease, screen>>

PreviewStep == CheckPreview \/ PublishPreview \/ FrameSettled

\* disposePreview(), when the webview reports an error of the preview or the
\* first frame of the full cache.
DisposePreview ==
    /\ ~disposed /\ webview = "shown" /\ previewRelease # None
    /\ rangeChannels' = [rangeChannels EXCEPT !["preview"] = None]
    /\ open' = open \ {It(rangeChannels["preview"], "preview")}
    /\ previewRelease' = None
    /\ files' = Released({File(previewRelease, "preview")})
    /\ waiter' = None
    /\ UNCHANGED <<setting, requests, running, stage, preview, conversion,
                   aborted, engines, cacheReleases, references, stops, views>>

\* settlePreviewFrame(), on its first frame or after ten seconds.
PreviewFrame ==
    /\ waiter # None /\ waiter' = None
    /\ UNCHANGED <<setting, requests, running, stage, preview, conversion,
                   aborted, engines, channels, references, stops, views>>

-----------------------------------------------------------------------------
(* XrefController.prepareSource() of the reference, and publishCache().     *)

XrefCut == UNCHANGED <<setting, requests, running, stage, preview, controls,
                       sceneCacheManager, managers, xrefController, xrefStopped,
                       previewRelease, stops, views>>

XrefAt(g, from, to) == xref[g] = from /\ xref' = [xref EXCEPT ![g] = to]

\* The webview has found the reference in the root's cache.
Discover(g) ==
    /\ XrefAt(g, "found", "storage")
    /\ xrefController = g /\ webview = "shown"
    /\ XrefCut /\ UNCHANGED <<converters, rangeChannels, open, files,
                              cacheReleases>>

XrefLookup(g) ==
    /\ \/ XrefAt(g, "storage", "done") /\ UNCHANGED converters
       \/ /\ Persistent /\ File(g, "xref") \in files
          /\ XrefAt(g, "storage", "publish") /\ UNCHANGED converters
       \/ /\ g \notin xrefStopped
          /\ XrefAt(g, "storage", "converting")
          /\ converters' = converters \cup {It(g, "xref")}
    /\ XrefCut /\ UNCHANGED <<rangeChannels, open, files, cacheReleases>>

XrefConverted(g) ==
    /\ converters' = converters \ {It(g, "xref")}
    /\ \/ XrefAt(g, "converting", "done")
       \/ g \notin xrefStopped /\ XrefAt(g, "converting", "committing")
    /\ XrefCut /\ UNCHANGED <<rangeChannels, open, files, cacheReleases>>

XrefCommit(g) ==
    /\ XrefAt(g, "committing", "publish")
    /\ files' = files \cup {File(g, "xref")}
    /\ XrefCut /\ UNCHANGED <<converters, rangeChannels, open, cacheReleases>>

\* publishCache() up to its await.
PublishXref(g) ==
    /\ XrefAt(g, "publish",
              IF rangeChannels["xref"] # None THEN "done" ELSE "opening")
    /\ cacheReleases' = cacheReleases \cup {File(g, "xref")}
    /\ XrefCut /\ UNCHANGED <<converters, rangeChannels, open, files>>

\* CacheRangeChannel.open() opens the file, and reads its size.
OpenXref(g) ==
    /\ IF File(g, "xref") \in files
       THEN XrefAt(g, "opening", "opened") /\ open' = open \cup {It(g, "xref")}
       ELSE XrefAt(g, "opening", "done") /\ UNCHANGED open
    /\ XrefCut /\ UNCHANGED <<converters, rangeChannels, files, cacheReleases>>

\* Mutant: it is not looked at again.
RegisterXrefAlways(g) ==
    /\ XrefAt(g, "opened", "done")
    /\ rangeChannels' = [rangeChannels EXCEPT !["xref"] = g]
    /\ XrefCut /\ UNCHANGED <<open, converters, files, cacheReleases>>

\* publishCache() after its await.
RegisterXref(g) ==
    /\ XrefAt(g, "opened", "done")
    /\ IF disposed \/ g \in aborted
       THEN open' = open \ {It(g, "xref")} /\ UNCHANGED rangeChannels
       ELSE rangeChannels' = [rangeChannels EXCEPT !["xref"] = g] /\ UNCHANGED open
    /\ XrefCut /\ UNCHANGED <<converters, files, cacheReleases>>

XrefStep(g) ==
    \/ XrefLookup(g) \/ XrefConverted(g) \/ XrefCommit(g)
    \/ PublishXref(g) \/ OpenXref(g) \/ RegisterXref(g)

-----------------------------------------------------------------------------
(* The user and the webview.                                               *)

\* A retry or rebuild from the webview.
Retry ==
    /\ webview = "shown"
    /\ Request
    /\ UNCHANGED <<setting, running, stage, preview, engines, channels,
                   references, stops, views>>

\* dwg-webview-ready/1.  A message that came before it may still be shown.
WebviewReady ==
    /\ webview = "loading" /\ ~disposed
    /\ webview' = "shown" /\ webviewReady' = TRUE
    /\ LET m == IF activeMessage # NoMessage THEN activeMessage ELSE pendingMessage
       IN  IF m = NoMessage /\ Progressive
           THEN Request /\ UNCHANGED screen
           ELSE /\ screen' = IF m = NoMessage THEN screen ELSE m
                /\ UNCHANGED <<requests, controls>>
    /\ UNCHANGED <<setting, running, stage, preview, engines, channels,
                   references, stops, activeMessage, pendingMessage>>

\* VS Code drops the content of a webview that is hidden, and loads it anew.
Hide ==
    /\ setting.hides /\ webview \in {"loading", "shown"}
    /\ webview' = "hidden" /\ screen' = NoMessage
    /\ UNCHANGED <<setting, requests, running, stage, preview, controls,
                   engines, channels, references, stops, activeMessage,
                   pendingMessage, webviewReady>>

Show ==
    /\ webview = "hidden" /\ webview' = "loading"
    /\ UNCHANGED <<setting, requests, running, stage, preview, controls,
                   engines, channels, references, stops, activeMessage,
                   pendingMessage, webviewReady, screen>>

\* The button of the progress notification, while prepare() is pending.
Cancel ==
    /\ setting.cancels /\ stage \in Preparing
    /\ Abort(running)
    /\ UNCHANGED <<setting, requests, running, stage, preview, conversion,
                   engines, channels, references, stops, views>>

\* disposeSession()
Dispose ==
    /\ ~disposed /\ disposed' = TRUE /\ generation' = generation + 1
    /\ BeginStop("disposal")
    /\ UNCHANGED <<setting, startQueue, running, stage, preview, managers,
                   converters, open, files, xref, webview, webviewReady,
                   screen>>

Users ==
    \/ Retry \/ Hide \/ Show \/ Cancel \/ Dispose \/ DisposePreview \/ PreviewFrame
    \/ Offer \/ \E g \in Starts : Discover(g)

Next ==
    \/ Users \/ WebviewReady \/ StartStep \/ ConverterExits \/ PreviewStep
    \/ \E who \in Stops : StopStep(who)
    \/ \E g \in Starts : XrefStep(g)

Spec == Init /\ [][Next]_vars

\* Promises settle, converters exit and a webview that is shown loads.
FairSpec ==
    /\ Spec
    /\ WF_session(StartStep \/ ConverterExits) /\ WF_session(PreviewStep)
    /\ WF_session(WebviewReady)
    /\ \A who \in Stops : WF_session(StopStep(who))
    /\ \A g \in Starts : WF_session(XrefStep(g))

-----------------------------------------------------------------------------
(* Properties.                                                             *)

\* "Retries never overlap processes": of all the starts of a panel and their
\* references, one converter runs at a time, whatever is cancelled.
OneConverter == Cardinality(converters) <= 1

\* A ready message that a webview may be sent, now or when it is loaded anew,
\* is for a root cache whose channel is registered and open.
ReadyIsOpen ==
    activeMessage # NoMessage =>
        /\ rangeChannels["root"] = activeMessage.start
        /\ It(activeMessage.start, "root") \in open

HasFile(k) == rangeChannels[k] # None => File(rangeChannels[k], k) \in files

\* A channel that is registered has its file: caches of a session are deleted
\* "after those channels close".
RegisteredHasFile == \A k \in Kinds : HasFile(k)

\* So it is for the drawing and its preview, and what the webview is told of
\* can be read.
ActiveIsReadable == ReadyIsOpen /\ HasFile("root") /\ HasFile("preview")

\* References of an earlier start, which may register a channel too late.
OldReferences == setting.xrefs /\ setting.starts > 1

\* A closed editor ends with no open channel, no converter and, in a session,
\* no file, but for what a reference of an earlier start leaves.
CleanWhenClosed ==
    <>[](disposed /\ ~OldReferences =>
            open = {} /\ converters = {} /\ (Persistent \/ files = {}))

Told(g) == {activeMessage, pendingMessage, screen} \cap
               [start: {g}, kind: {"ready", "error", "cancelled"}] # {}

Answered(g) == generation # g \/ disposed \/ Told(g)

\* Every start that is neither superseded nor cancelled ends by telling the
\* webview so, given that a preview's first frame is not waited for longer than
\* the timer allows. (A hidden webview is not told, and nobody remembers.)
UncancelledAreAnswered ==
    WF_session(PreviewFrame) =>
        \A g \in Starts :
            generation = g ~> Answered(g) \/ g \in aborted \/ setting.hides

\* A start that waits for the first frame of a preview does not hold up the
\* start that replaces it, even if that frame never comes.
SupersededEnds ==
    \A g \in Starts : running = g /\ generation # g ~> running # g
=============================================================================
