------------------------- MODULE EditorSessionProofs -------------------------
(* "Retries never overlap processes", and what a webview is told of can be  *)
(* read: OneConverter, ActiveIsReadable and TypeOK of EditorSession, for    *)
(* any number of starts of any editor.                                      *)
(*                                                                          *)
(* A start may convert once stopCurrent() has returned. What keeps it apart *)
(* from the converter of an earlier start's reference is a chain: only the  *)
(* controller of the last published start discovers a reference, that start *)
(* still has the current manager, and a stop takes this manager and waits   *)
(* until it is idle (ReferenceAwaited). OneConverter alone says nothing of  *)
(* the stop that is under way, and is not inductive.                        *)
EXTENDS EditorSession, TLAPS, FiniteSetTheorems

-----------------------------------------------------------------------------
(* The inductive invariant.                                                 *)

\* A reference the manager of its start still works for.
BusyXref(h) == xref[h] \in {"storage", "converting", "committing"}

\* Only closing the editor goes past the last start.
GenerationBounded == ~disposed => generation <= MaxStarts

\* start() runs one at a time, and stops what came before it first.
StartRuns ==
  /\ running = None <=> stage = "idle"
  /\ stops["start"].at # "idle" <=> stage = "stopping"
  /\ stops["disposal"].at # "idle" => disposed

\* onPreview() ends before the prepare() it is called from.
PreviewRuns ==
  /\ preview \in {"offered", "opening", "waiting"} =>
       stage \in {"previewing", "converting", "exited"}
  /\ stage \in {"stopping", "adapter", "storage"} => preview = "none"

\* A process belongs to the start, or to the reference, that awaits its exit.
ConvertersRun ==
  /\ \A g \in Starts : It(g, "root") \in converters <=> running = g /\ stage = "converting"
  /\ \A g \in Starts : It(g, "xref") \in converters <=> xref[g] = "converting"
  /\ \A g \in Starts : It(g, "preview") \notin converters

\* While no start runs, the references are those of the start whose manager is current.
ControllerIsCurrent ==
  /\ running # None \/ disposed => xrefController = None
  /\ xrefController # None => sceneCacheManager = xrefController
  /\ stage \in Preparing \cup {"prepared", "opening"} => sceneCacheManager = running \/ disposed

\* At most one reference is being prepared, with the current manager or one that a stop
\* waits for before the next start goes on.
ReferenceAwaited ==
  \A h \in Starts : BusyXref(h) =>
    /\ \A g \in Starts : BusyXref(g) => g = h
    /\ running = None => sceneCacheManager = h \/ disposed
    /\ running # None =>
         /\ stage = "stopping"
         /\ disposed \/ (stops["start"].manager = h /\ stops["start"].at # "done")

\* A start that runs, or the disposal, has found nothing registered and leaves it so until
\* it publishes; the file of a preview is there until then.
NothingShared ==
  /\ running # None \/ disposed => rangeChannels["root"] = None /\ activeMessage = NoMessage
  /\ disposed \/ (running # None /\ preview \in {"none", "offered", "opening"}) =>
       rangeChannels["preview"] = None /\ previewRelease = None
  /\ preview \in {"offered", "opening"} /\ ~disposed => File(running, "preview") \in files

EditorInv ==
  /\ TypeOK
  /\ GenerationBounded
  /\ StartRuns
  /\ PreviewRuns
  /\ ConvertersRun
  /\ ControllerIsCurrent
  /\ ReferenceAwaited
  /\ NothingShared
  /\ ActiveIsReadable

-----------------------------------------------------------------------------
(* Which action changes which variable: the proofs below go through the     *)
(* actions an invariant can be disturbed by, and leave the others to this.  *)

\* Every action, and the variables it may change.
LEMMA WhoChangesWhat ==
  ASSUME [Next]_vars
  PROVE  /\ setting' = setting
         /\ disposed' = disposed \/ Dispose
         /\ generation' = generation \/ Retry \/ WebviewReady \/ Dispose
         /\ startQueue' = startQueue \/ Retry \/ WebviewReady \/ BeginStart
         /\ running' = running \/ BeginStart \/ AfterStop \/ Prepared \/ Publish \/ Catch
         /\ stage' = stage \/ BeginStart \/ AfterStop \/ ResolveAdapter \/ Lookup
               \/ AfterPreview \/ ConverterExits \/ Converted \/ Commit \/ Prepared
               \/ Publish \/ OpenFails \/ Catch
         /\ preview' = preview \/ BeginStart \/ Lookup \/ Offer \/ CheckPreview
               \/ PublishPreview \/ FrameSettled
         /\ conversion' = conversion \/ Dispose \/ BeginStart \/ AfterStop \/ Prepared
               \/ Publish \/ Catch
         /\ aborted' = aborted \/ Retry \/ WebviewReady \/ Cancel \/ Dispose
               \/ BeginStart
         /\ waiter' = waiter \/ Retry \/ WebviewReady \/ Cancel \/ Dispose \/ BeginStart
               \/ PublishPreview \/ DisposePreview \/ PreviewFrame
         /\ sceneCacheManager' = sceneCacheManager \/ Dispose \/ BeginStart
               \/ ResolveAdapter
         /\ managers' = managers \/ ResolveAdapter
               \/ (\E who \in Stops : ReleaseCaches(who))
               \/ (\E who \in Stops : ManagerGone(who))
         /\ converters' = converters \/ Lookup \/ AfterPreview \/ ConverterExits
               \/ (\E g \in Starts : XrefLookup(g)) \/ (\E g \in Starts : XrefConverted(g))
         /\ rangeChannels' = rangeChannels \/ Dispose \/ BeginStart \/ Publish
               \/ PublishPreview \/ DisposePreview \/ (\E g \in Starts : RegisterXref(g))
         /\ open' = open \/ (\E who \in Stops : CloseChannels(who)) \/ Publish
               \/ PublishPreview \/ DisposePreview \/ (\E g \in Starts : OpenXref(g))
               \/ (\E g \in Starts : RegisterXref(g))
         /\ files' = files \/ (\E who \in Stops : ReleaseCaches(who))
               \/ (\E who \in Stops : ManagerGone(who)) \/ Lookup \/ Offer \/ Commit
               \/ CheckPreview \/ PublishPreview \/ DisposePreview
               \/ (\E g \in Starts : XrefCommit(g))
         /\ cacheReleases' = cacheReleases \/ Dispose \/ BeginStart \/ Prepared
               \/ (\E g \in Starts : PublishXref(g))
         /\ previewRelease' = previewRelease \/ Dispose \/ BeginStart \/ PublishPreview
               \/ DisposePreview
         /\ xrefController' = xrefController \/ Dispose \/ BeginStart \/ Publish
         /\ xrefStopped' = xrefStopped \/ Dispose \/ BeginStart
         /\ xref' = xref \/ Publish \/ (\E g \in Starts : Discover(g))
               \/ (\E g \in Starts : XrefStep(g))
         /\ stops' = stops \/ Dispose \/ BeginStart \/ AfterStop
               \/ (\E who \in Stops : StopStep(who))
         /\ activeMessage' = activeMessage \/ Dispose \/ BeginStart \/ AfterStop
               \/ Publish
         /\ pendingMessage' = pendingMessage \/ Dispose \/ BeginStart \/ AfterStop
               \/ Catch
         /\ webview' = webview \/ WebviewReady \/ Hide \/ Show \/ Publish \/ Catch
         /\ webviewReady' = webviewReady \/ WebviewReady
         /\ screen' = screen \/ WebviewReady \/ Hide \/ AfterStop \/ Publish \/ Catch
               \/ PublishPreview
<1> USE DEF requests, controls, engines, channels, references, views
<1>1. ASSUME Retry
      PROVE  UNCHANGED <<setting, disposed, running, stage, preview, conversion,
                         sceneCacheManager, managers, converters, rangeChannels, open,
                         files, cacheReleases, previewRelease, xrefController,
                         xrefStopped, xref, stops, activeMessage, pendingMessage,
                         webview, webviewReady, screen>>
  BY <1>1 DEF Retry, Request, Abort
<1>2. ASSUME WebviewReady
      PROVE  UNCHANGED <<setting, disposed, running, stage, preview, conversion,
                         sceneCacheManager, managers, converters, rangeChannels, open,
                         files, cacheReleases, previewRelease, xrefController,
                         xrefStopped, xref, stops, activeMessage, pendingMessage>>
  BY <1>2 DEF WebviewReady, Request, Abort
<1>3. ASSUME Hide
      PROVE  UNCHANGED <<setting, disposed, generation, startQueue, running, stage,
                         preview, conversion, aborted, waiter, sceneCacheManager,
                         managers, converters, rangeChannels, open, files,
                         cacheReleases, previewRelease, xrefController, xrefStopped,
                         xref, stops, activeMessage, pendingMessage, webviewReady>>
  BY <1>3 DEF Hide
<1>4. ASSUME Show
      PROVE  UNCHANGED <<setting, disposed, generation, startQueue, running, stage,
                         preview, conversion, aborted, waiter, sceneCacheManager,
                         managers, converters, rangeChannels, open, files,
                         cacheReleases, previewRelease, xrefController, xrefStopped,
                         xref, stops, activeMessage, pendingMessage, webviewReady,
                         screen>>
  BY <1>4 DEF Show
<1>5. ASSUME Cancel
      PROVE  UNCHANGED <<setting, disposed, generation, startQueue, running, stage,
                         preview, conversion, sceneCacheManager, managers, converters,
                         rangeChannels, open, files, cacheReleases, previewRelease,
                         xrefController, xrefStopped, xref, stops, activeMessage,
                         pendingMessage, webview, webviewReady, screen>>
  BY <1>5 DEF Cancel, Abort
<1>6. ASSUME Dispose
      PROVE  UNCHANGED <<setting, startQueue, running, stage, preview, managers,
                         converters, open, files, xref, webview, webviewReady, screen>>
  BY <1>6 DEF Dispose, BeginStop, ManagerTaken, ForgetMessages
<1>7. ASSUME DisposePreview
      PROVE  UNCHANGED <<setting, disposed, generation, startQueue, running, stage,
                         preview, conversion, aborted, sceneCacheManager, managers,
                         converters, cacheReleases, xrefController, xrefStopped, xref,
                         stops, activeMessage, pendingMessage, webview, webviewReady,
                         screen>>
  BY <1>7 DEF DisposePreview, Released
<1>8. ASSUME PreviewFrame
      PROVE  UNCHANGED <<setting, disposed, generation, startQueue, running, stage,
                         preview, conversion, aborted, sceneCacheManager, managers,
                         converters, rangeChannels, open, files, cacheReleases,
                         previewRelease, xrefController, xrefStopped, xref, stops,
                         activeMessage, pendingMessage, webview, webviewReady, screen>>
  BY <1>8 DEF PreviewFrame
<1>9. ASSUME Offer
      PROVE  UNCHANGED <<setting, disposed, generation, startQueue, running, stage,
                         conversion, aborted, waiter, sceneCacheManager, managers,
                         converters, rangeChannels, open, cacheReleases, previewRelease,
                         xrefController, xrefStopped, xref, stops, activeMessage,
                         pendingMessage, webview, webviewReady, screen>>
  BY <1>9 DEF Offer
<1>10. ASSUME BeginStart
      PROVE  UNCHANGED <<setting, disposed, generation, managers, converters, open,
                         files, xref, webview, webviewReady, screen>>
  BY <1>10 DEF BeginStart, BeginStop, ManagerTaken, ForgetMessages
<1>11. ASSUME AfterStop
      PROVE  UNCHANGED <<setting, disposed, generation, startQueue, preview, aborted,
                         waiter, sceneCacheManager, managers, converters, rangeChannels,
                         open, files, cacheReleases, previewRelease, xrefController,
                         xrefStopped, xref, webview, webviewReady>>
  BY <1>11 DEF AfterStop, EndStart, PostState, Deliver, Unchecked
<1>12. ASSUME ResolveAdapter
      PROVE  UNCHANGED <<setting, disposed, generation, startQueue, running, preview,
                         conversion, aborted, waiter, converters, rangeChannels, open,
                         files, cacheReleases, previewRelease, xrefController,
                         xrefStopped, xref, stops, activeMessage, pendingMessage,
                         webview, webviewReady, screen>>
  BY <1>12 DEF ResolveAdapter, Continue
<1>13. ASSUME Lookup
      PROVE  UNCHANGED <<setting, disposed, generation, startQueue, running, conversion,
                         aborted, waiter, sceneCacheManager, managers, rangeChannels,
                         open, cacheReleases, previewRelease, xrefController,
                         xrefStopped, xref, stops, activeMessage, pendingMessage,
                         webview, webviewReady, screen>>
  BY <1>13 DEF Lookup, Continue, Convert
<1>14. ASSUME AfterPreview
      PROVE  UNCHANGED <<setting, disposed, generation, startQueue, running, preview,
                         conversion, aborted, waiter, sceneCacheManager, managers,
                         rangeChannels, open, files, cacheReleases, previewRelease,
                         xrefController, xrefStopped, xref, stops, activeMessage,
                         pendingMessage, webview, webviewReady, screen>>
  BY <1>14 DEF AfterPreview, Convert, Continue
<1>15. ASSUME Converted
      PROVE  UNCHANGED <<setting, disposed, generation, startQueue, running, preview,
                         conversion, aborted, waiter, sceneCacheManager, managers,
                         converters, rangeChannels, open, files, cacheReleases,
                         previewRelease, xrefController, xrefStopped, xref, stops,
                         activeMessage, pendingMessage, webview, webviewReady, screen>>
  BY <1>15 DEF Converted, Continue
<1>16. ASSUME Commit
      PROVE  UNCHANGED <<setting, disposed, generation, startQueue, running, preview,
                         conversion, aborted, waiter, sceneCacheManager, managers,
                         converters, rangeChannels, open, cacheReleases, previewRelease,
                         xrefController, xrefStopped, xref, stops, activeMessage,
                         pendingMessage, webview, webviewReady, screen>>
  BY <1>16 DEF Commit, Continue
<1>17. ASSUME Prepared
      PROVE  UNCHANGED <<setting, disposed, generation, startQueue, preview, aborted,
                         waiter, sceneCacheManager, managers, converters, rangeChannels,
                         open, files, previewRelease, xrefController, xrefStopped, xref,
                         stops, activeMessage, pendingMessage, webview, webviewReady,
                         screen>>
  BY <1>17 DEF Prepared, Continue, EndStart, Unchecked
<1>18. ASSUME Publish
      PROVE  UNCHANGED <<setting, disposed, generation, startQueue, preview, aborted,
                         waiter, sceneCacheManager, managers, converters, files,
                         cacheReleases, previewRelease, xrefStopped, stops,
                         pendingMessage, webviewReady>>
  BY <1>18 DEF Publish, EndStart, Unchecked, InitializeWebview, Deliver, Stale
<1>19. ASSUME OpenFails
      PROVE  UNCHANGED <<setting, disposed, generation, startQueue, running, preview,
                         conversion, aborted, waiter, sceneCacheManager, managers,
                         converters, rangeChannels, open, files, cacheReleases,
                         previewRelease, xrefController, xrefStopped, xref, stops,
                         activeMessage, pendingMessage, webview, webviewReady, screen>>
  BY <1>19 DEF OpenFails, Continue
<1>20. ASSUME Catch
      PROVE  UNCHANGED <<setting, disposed, generation, startQueue, preview, aborted,
                         waiter, sceneCacheManager, managers, converters, rangeChannels,
                         open, files, cacheReleases, previewRelease, xrefController,
                         xrefStopped, xref, stops, activeMessage, webviewReady>>
  BY <1>20 DEF Catch, EndStart, Unchecked, PostState, Deliver, InitializeWebview
<1>21. ASSUME ConverterExits
      PROVE  UNCHANGED <<setting, disposed, generation, startQueue, running, preview,
                         conversion, aborted, waiter, sceneCacheManager, managers,
                         rangeChannels, open, files, cacheReleases, previewRelease,
                         xrefController, xrefStopped, xref, stops, activeMessage,
                         pendingMessage, webview, webviewReady, screen>>
  BY <1>21 DEF ConverterExits, Continue
<1>22. ASSUME CheckPreview
      PROVE  UNCHANGED <<setting, disposed, generation, startQueue, running, stage,
                         conversion, aborted, waiter, sceneCacheManager, managers,
                         converters, rangeChannels, open, cacheReleases, previewRelease,
                         xrefController, xrefStopped, xref, stops, activeMessage,
                         pendingMessage, webview, webviewReady, screen>>
  BY <1>22 DEF CheckPreview, PreviewReleased, Released, PreviewCut
<1>23. ASSUME PublishPreview
      PROVE  UNCHANGED <<setting, disposed, generation, startQueue, running, stage,
                         conversion, aborted, sceneCacheManager, managers, converters,
                         cacheReleases, xrefController, xrefStopped, xref, stops,
                         activeMessage, pendingMessage, webview, webviewReady>>
  BY <1>23 DEF PublishPreview, PreviewReleased, Released, PreviewCut, Deliver, Unwanted, Stale
<1>24. ASSUME FrameSettled
      PROVE  UNCHANGED <<setting, disposed, generation, startQueue, running, stage,
                         conversion, aborted, waiter, sceneCacheManager, managers,
                         converters, rangeChannels, open, files, cacheReleases,
                         previewRelease, xrefController, xrefStopped, xref, stops,
                         activeMessage, pendingMessage, webview, webviewReady, screen>>
  BY <1>24 DEF FrameSettled, PreviewCut
<1>25. ASSUME NEW who \in Stops, CloseChannels(who)
      PROVE  UNCHANGED <<setting, disposed, generation, startQueue, running, stage,
                         preview, conversion, aborted, waiter, sceneCacheManager,
                         managers, converters, rangeChannels, files, cacheReleases,
                         previewRelease, xrefController, xrefStopped, xref,
                         activeMessage, pendingMessage, webview, webviewReady, screen>>
  BY <1>25 DEF CloseChannels
<1>26. ASSUME NEW who \in Stops, ReleaseCaches(who)
      PROVE  UNCHANGED <<setting, disposed, generation, startQueue, running, stage,
                         preview, conversion, aborted, waiter, sceneCacheManager,
                         converters, rangeChannels, open, cacheReleases, previewRelease,
                         xrefController, xrefStopped, xref, activeMessage,
                         pendingMessage, webview, webviewReady, screen>>
  BY <1>26 DEF ReleaseCaches, Released
<1>27. ASSUME NEW who \in Stops, ManagerGone(who)
      PROVE  UNCHANGED <<setting, disposed, generation, startQueue, running, stage,
                         preview, conversion, aborted, waiter, sceneCacheManager,
                         converters, rangeChannels, open, cacheReleases, previewRelease,
                         xrefController, xrefStopped, xref, activeMessage,
                         pendingMessage, webview, webviewReady, screen>>
  BY <1>27 DEF ManagerGone, Busy, Released
<1>28. ASSUME NEW g \in Starts, Discover(g)
      PROVE  UNCHANGED <<setting, disposed, generation, startQueue, running, stage,
                         preview, conversion, aborted, waiter, sceneCacheManager,
                         managers, converters, rangeChannels, open, files,
                         cacheReleases, previewRelease, xrefController, xrefStopped,
                         stops, activeMessage, pendingMessage, webview, webviewReady,
                         screen>>
  BY <1>28 DEF Discover, XrefAt, XrefCut
<1>29. ASSUME NEW g \in Starts, XrefLookup(g)
      PROVE  UNCHANGED <<setting, disposed, generation, startQueue, running, stage,
                         preview, conversion, aborted, waiter, sceneCacheManager,
                         managers, rangeChannels, open, files, cacheReleases,
                         previewRelease, xrefController, xrefStopped, stops,
                         activeMessage, pendingMessage, webview, webviewReady, screen>>
  BY <1>29 DEF XrefLookup, XrefAt, XrefCut
<1>30. ASSUME NEW g \in Starts, XrefConverted(g)
      PROVE  UNCHANGED <<setting, disposed, generation, startQueue, running, stage,
                         preview, conversion, aborted, waiter, sceneCacheManager,
                         managers, rangeChannels, open, files, cacheReleases,
                         previewRelease, xrefController, xrefStopped, stops,
                         activeMessage, pendingMessage, webview, webviewReady, screen>>
  BY <1>30 DEF XrefConverted, XrefAt, XrefCut
<1>31. ASSUME NEW g \in Starts, XrefCommit(g)
      PROVE  UNCHANGED <<setting, disposed, generation, startQueue, running, stage,
                         preview, conversion, aborted, waiter, sceneCacheManager,
                         managers, converters, rangeChannels, open, cacheReleases,
                         previewRelease, xrefController, xrefStopped, stops,
                         activeMessage, pendingMessage, webview, webviewReady, screen>>
  BY <1>31 DEF XrefCommit, XrefAt, XrefCut
<1>32. ASSUME NEW g \in Starts, PublishXref(g)
      PROVE  UNCHANGED <<setting, disposed, generation, startQueue, running, stage,
                         preview, conversion, aborted, waiter, sceneCacheManager,
                         managers, converters, rangeChannels, open, files,
                         previewRelease, xrefController, xrefStopped, stops,
                         activeMessage, pendingMessage, webview, webviewReady, screen>>
  BY <1>32 DEF PublishXref, XrefAt, XrefCut
<1>33. ASSUME NEW g \in Starts, OpenXref(g)
      PROVE  UNCHANGED <<setting, disposed, generation, startQueue, running, stage,
                         preview, conversion, aborted, waiter, sceneCacheManager,
                         managers, converters, rangeChannels, files, cacheReleases,
                         previewRelease, xrefController, xrefStopped, stops,
                         activeMessage, pendingMessage, webview, webviewReady, screen>>
  BY <1>33 DEF OpenXref, XrefAt, XrefCut
<1>34. ASSUME NEW g \in Starts, RegisterXref(g)
      PROVE  UNCHANGED <<setting, disposed, generation, startQueue, running, stage,
                         preview, conversion, aborted, waiter, sceneCacheManager,
                         managers, converters, files, cacheReleases, previewRelease,
                         xrefController, xrefStopped, stops, activeMessage,
                         pendingMessage, webview, webviewReady, screen>>
  BY <1>34 DEF RegisterXref, XrefAt, XrefCut
<1>u. CASE UNCHANGED vars
  BY <1>u DEF vars, session
<1> QED BY <1>1, <1>2, <1>3, <1>4, <1>5, <1>6, <1>7, <1>8, <1>9, <1>10, <1>11, <1>12,
           <1>13, <1>14, <1>15, <1>16, <1>17, <1>18, <1>19, <1>20, <1>21, <1>22, <1>23,
           <1>24, <1>25, <1>26, <1>27, <1>28, <1>29, <1>30, <1>31, <1>32, <1>33, <1>34,
           <1>u
       DEF Next, Users, StartStep, PreviewStep, StopStep, XrefStep

-----------------------------------------------------------------------------
\* What the constants and the setting are.
LEMMA SettingFacts ==
  ASSUME TypeOK
  PROVE  /\ setting.starts \in Nat /\ setting.starts <= MaxStarts
         /\ MaxStarts \in Nat \ {0} /\ 1 \in Starts /\ None \notin Starts
<1>1. setting \in Setting
  BY EditorAssumption DEF TypeOK
<1> QED BY <1>1, EditorAssumption DEF Setting, Starts, None

\* Caches and files are items.
LEMMA ItemTypes ==
  ASSUME NEW g \in Starts, NEW k \in Kinds
  PROVE  It(g, k) \in Item /\ File(g, k) \in Item
BY EditorAssumption DEF It, File, Item, Starts

\* Every step keeps the types, conjunct by conjunct.
LEMMA NextTyped == EditorInv /\ [Next]_vars => TypeOK'
<1> SUFFICES ASSUME EditorInv, [Next]_vars PROVE TypeOK'
  OBVIOUS
<1>f. /\ setting.starts \in Nat /\ setting.starts <= MaxStarts
      /\ MaxStarts \in Nat \ {0} /\ 1 \in Starts /\ None \notin Starts
  BY SettingFacts DEF EditorInv
<1>t. TypeOK
  BY DEF EditorInv
<1>r. stage # "idle" => running \in Starts
  BY DEF EditorInv, StartRuns, TypeOK
<1>i. \A g \in Starts : \A k \in {"preview", "root", "xref"} :
        It(g, k) \in Item /\ File(g, k) \in Item
  BY ItemTypes DEF Kinds
<1>p. preview \in {"offered", "opening", "waiting"} => running \in Starts
  BY <1>r DEF EditorInv, PreviewRuns
<1>1. disposed' \in BOOLEAN /\ generation' \in 0 .. MaxStarts + 1
  <2>1. CASE Retry \/ WebviewReady
    BY <1>f, <1>t, <2>1 DEF Retry, WebviewReady, Request, requests, TypeOK
  <2>2. CASE Dispose
    BY <1>f, <1>t, <2>2 DEF Dispose, TypeOK, EditorInv, GenerationBounded
  <2>3. CASE UNCHANGED <<disposed, generation>>
    BY <1>t, <2>3 DEF TypeOK
  <2> QED BY <2>1, <2>2, <2>3, WhoChangesWhat
<1>2. startQueue' \in Seq(Starts)
  <2>1. CASE Retry \/ WebviewReady
    <3>1. CASE Request
      <4>1. generation + 1 \in Starts
        BY <1>f, <1>t, <3>1 DEF Request, TypeOK, Starts
      <4> QED BY <1>t, <3>1, <4>1 DEF Request, TypeOK
    <3>2. CASE UNCHANGED startQueue
      BY <1>t, <3>2 DEF TypeOK
    <3> QED BY <2>1, <3>1, <3>2 DEF Retry, WebviewReady, requests
  <2>2. CASE BeginStart
    BY <1>t, <2>2 DEF BeginStart, TypeOK
  <2>3. CASE UNCHANGED startQueue
    BY <1>t, <2>3 DEF TypeOK
  <2> QED BY <2>1, <2>2, <2>3, WhoChangesWhat
<1>3. running' \in Starts \cup {None}
  <2>1. CASE BeginStart
    BY <1>t, <2>1 DEF BeginStart, TypeOK
  <2>2. CASE AfterStop \/ Prepared \/ Publish \/ Catch
    BY <1>t, <2>2 DEF AfterStop, Prepared, Publish, Catch, EndStart, Continue, TypeOK
  <2>3. CASE UNCHANGED running
    BY <1>t, <2>3 DEF TypeOK
  <2> QED BY <2>1, <2>2, <2>3, WhoChangesWhat
<1>4. stage' \in Preparing \cup {"idle", "stopping", "adapter", "prepared",
                                "opening", "aborted", "failed"}
  <2>1. CASE \/ BeginStart \/ AfterStop \/ ResolveAdapter \/ Lookup \/ AfterPreview
             \/ ConverterExits
    BY <2>1 DEF BeginStart, AfterStop, ResolveAdapter, Lookup, AfterPreview,
                ConverterExits, EndStart, Continue, Convert, Preparing
  <2>2. CASE \/ Converted \/ Commit \/ Prepared \/ Publish \/ OpenFails \/ Catch
    BY <2>2 DEF Converted, Commit, Prepared, Publish, OpenFails, Catch,
                EndStart, Continue, Preparing
  <2>3. CASE UNCHANGED stage
    BY <1>t, <2>3 DEF TypeOK
  <2> QED BY <2>1, <2>2, <2>3, WhoChangesWhat
<1>5. preview' \in {"none", "offered", "opening", "waiting", "done"}
  <2>1. CASE \/ BeginStart \/ Lookup \/ Offer \/ CheckPreview \/ PublishPreview
             \/ FrameSettled
    BY <1>t, <2>1 DEF BeginStart, Lookup, Offer, CheckPreview, PublishPreview,
                      FrameSettled, TypeOK
  <2>2. CASE UNCHANGED preview
    BY <1>t, <2>2 DEF TypeOK
  <2> QED BY <2>1, <2>2, WhoChangesWhat
<1>6. conversion' \in Starts \cup {None} /\ aborted' \subseteq Starts
  <2>1. CASE Dispose \/ BeginStart
    BY <1>t, <2>1 DEF Dispose, BeginStart, BeginStop, TypeOK
  <2>2. CASE AfterStop \/ Prepared \/ Publish \/ Catch
    <3>1. conversion' \in {conversion, None, running}
      BY <2>2 DEF AfterStop, Prepared, Publish, Catch, EndStart, Continue, controls
    <3>2. aborted' = aborted
      BY <2>2 DEF AfterStop, Prepared, Publish, Catch, EndStart, Continue, controls
    <3> QED BY <1>t, <3>1, <3>2 DEF TypeOK
  <2>3. CASE Retry \/ WebviewReady \/ Cancel
    <3>1. conversion' = conversion
      BY <2>3 DEF Retry, WebviewReady, Cancel, Request, controls
    <3>2. \/ aborted' = aborted \/ aborted' = aborted \cup ({conversion} \ {None})
          \/ aborted' = aborted \cup ({running} \ {None})
      BY <2>3 DEF Retry, WebviewReady, Cancel, Request, Abort, controls
    <3> QED BY <1>t, <3>1, <3>2 DEF TypeOK
  <2>4. CASE UNCHANGED <<conversion, aborted>>
    BY <1>t, <2>4 DEF TypeOK
  <2> QED BY <2>1, <2>2, <2>3, <2>4, WhoChangesWhat
<1>7. waiter' \in Starts \cup {None}
  <2>1. CASE Dispose \/ BeginStart
    BY <2>1 DEF Dispose, BeginStart, BeginStop
  <2>2. CASE Retry \/ WebviewReady \/ Cancel \/ DisposePreview \/ PreviewFrame
    BY <1>t, <2>2 DEF Retry, WebviewReady, Cancel, DisposePreview, PreviewFrame,
                      Request, Abort, controls, TypeOK
  <2>3. CASE PublishPreview
    BY <1>p, <1>t, <2>3 DEF PublishPreview, TypeOK
  <2>4. CASE UNCHANGED waiter
    BY <1>t, <2>4 DEF TypeOK
  <2> QED BY <2>1, <2>2, <2>3, <2>4, WhoChangesWhat
<1>8. /\ sceneCacheManager' \in Starts \cup {None}
      /\ managers' \in [Starts -> {"none", "live", "disposed", "gone"}]
  <2>1. CASE ResolveAdapter
    BY <1>r, <1>t, <2>1 DEF ResolveAdapter, TypeOK
  <2>2. CASE Dispose \/ BeginStart
    BY <1>t, <2>2 DEF Dispose, BeginStart, BeginStop, TypeOK
  <2>3. ASSUME NEW who \in Stops, ReleaseCaches(who) \/ ManagerGone(who)
        PROVE  /\ sceneCacheManager' = sceneCacheManager
               /\ managers' \in [Starts -> {"none", "live", "disposed", "gone"}]
    BY <1>t, <2>3 DEF ReleaseCaches, ManagerGone, TypeOK
  <2>4. CASE UNCHANGED <<sceneCacheManager, managers>>
    BY <1>t, <2>4 DEF TypeOK
  <2>5. UNCHANGED managers \/ ResolveAdapter
          \/ \E who \in Stops : ReleaseCaches(who) \/ ManagerGone(who)
    BY WhoChangesWhat
  <2>6. UNCHANGED sceneCacheManager \/ Dispose \/ BeginStart \/ ResolveAdapter
    BY WhoChangesWhat
  <2> QED BY <1>t, <2>1, <2>2, <2>3, <2>4, <2>5, <2>6 DEF TypeOK
<1>9. converters' \subseteq Item
  <2>1. CASE Lookup \/ AfterPreview
    BY <1>i, <1>r, <1>t, <2>1 DEF Lookup, AfterPreview, Convert, engines, TypeOK
  <2>2. CASE ConverterExits
    BY <1>t, <2>2 DEF ConverterExits, TypeOK
  <2>3. ASSUME NEW g \in Starts, XrefLookup(g) \/ XrefConverted(g)
        PROVE  converters' \subseteq Item
    BY <1>i, <1>t, <2>3 DEF XrefLookup, XrefConverted, TypeOK
  <2>4. CASE UNCHANGED converters
    BY <1>t, <2>4 DEF TypeOK
  <2> QED BY <2>1, <2>2, <2>3, <2>4, WhoChangesWhat
<1>10. rangeChannels' \in [Kinds -> Starts \cup {None}]
  <2>1. CASE Dispose \/ BeginStart
    BY <2>1 DEF Dispose, BeginStart, BeginStop
  <2>2. CASE Publish \/ PublishPreview \/ DisposePreview
    BY SMTT(30), <1>p, <1>r, <1>t, <2>2 DEF Publish, PublishPreview, DisposePreview, Kinds, TypeOK
  <2>3. ASSUME NEW g \in Starts, RegisterXref(g)
        PROVE  rangeChannels' \in [Kinds -> Starts \cup {None}]
    BY <1>t, <2>3 DEF RegisterXref, TypeOK
  <2>4. CASE UNCHANGED rangeChannels
    BY <1>t, <2>4 DEF TypeOK
  <2> QED BY <2>1, <2>2, <2>3, <2>4, WhoChangesWhat
<1>11. open' \subseteq Item
  <2>1. ASSUME NEW who \in Stops, CloseChannels(who) PROVE open' \subseteq Item
    BY <1>t, <2>1 DEF CloseChannels, TypeOK
  <2>2. CASE Publish \/ PublishPreview \/ DisposePreview
    BY <1>i, <1>p, <1>r, <1>t, <2>2 DEF Publish, PublishPreview, DisposePreview, TypeOK
  <2>3. ASSUME NEW g \in Starts, OpenXref(g) \/ RegisterXref(g) PROVE open' \subseteq Item
    BY <1>i, <1>t, <2>3 DEF OpenXref, RegisterXref, TypeOK
  <2>4. CASE UNCHANGED open
    BY <1>t, <2>4 DEF TypeOK
  <2> QED BY <2>1, <2>2, <2>3, <2>4, WhoChangesWhat
<1>12. files' \subseteq Item
  <2>1. ASSUME NEW who \in Stops, ReleaseCaches(who) \/ ManagerGone(who)
        PROVE  files' \subseteq Item
    BY <1>t, <2>1 DEF ReleaseCaches, ManagerGone, Released, TypeOK
  <2>2. CASE Lookup \/ Offer \/ Commit
    BY <1>i, <1>r, <1>t, <2>2 DEF Lookup, Offer, Commit, TypeOK
  <2>3. CASE CheckPreview \/ PublishPreview \/ DisposePreview
    BY <1>t, <2>3 DEF CheckPreview, PublishPreview, DisposePreview, PreviewReleased,
                      Released, TypeOK
  <2>4. ASSUME NEW g \in Starts, XrefCommit(g) PROVE files' \subseteq Item
    BY <1>i, <1>t, <2>4 DEF XrefCommit, TypeOK
  <2>5. CASE UNCHANGED files
    BY <1>t, <2>5 DEF TypeOK
  <2> QED BY <2>1, <2>2, <2>3, <2>4, <2>5, WhoChangesWhat
<1>13. cacheReleases' \subseteq Item /\ previewRelease' \in Starts \cup {None}
  <2>1. CASE Dispose \/ BeginStart
    BY <2>1 DEF Dispose, BeginStart, BeginStop
  <2>2. UNCHANGED cacheReleases \/ Prepared \/ (\E g \in Starts : PublishXref(g))
          => cacheReleases' \subseteq Item
    BY <1>i, <1>r, <1>t DEF Prepared, PublishXref, TypeOK
  <2>3. UNCHANGED previewRelease \/ PublishPreview \/ DisposePreview
          => previewRelease' \in Starts \cup {None}
    BY <1>p, <1>t DEF PublishPreview, DisposePreview, TypeOK
  <2> QED BY <2>1, <2>2, <2>3, WhoChangesWhat
<1>14. xrefController' \in Starts \cup {None} /\ xrefStopped' \subseteq Starts
  <2>1. CASE Dispose \/ BeginStart
    BY <1>t, <2>1 DEF Dispose, BeginStart, BeginStop, TypeOK
  <2>2. CASE Publish
    BY <1>r, <1>t, <2>2 DEF Publish, TypeOK
  <2>3. CASE UNCHANGED <<xrefController, xrefStopped>>
    BY <1>t, <2>3 DEF TypeOK
  <2> QED BY <2>1, <2>2, <2>3, WhoChangesWhat
<1>15. xref' \in [Starts -> {"none", "found", "storage", "converting", "committing",
                             "publish", "opening", "opened", "done"}]
  <2>1. CASE Publish
    BY <1>t, <2>1 DEF Publish, TypeOK
  <2>2. ASSUME NEW g \in Starts, Discover(g) \/ XrefStep(g)
        PROVE  xref' \in [Starts -> {"none", "found", "storage", "converting", "committing",
                                     "publish", "opening", "opened", "done"}]
    BY <1>t, <2>2 DEF Discover, XrefStep, XrefLookup, XrefConverted, XrefCommit, PublishXref,
                      OpenXref, RegisterXref, XrefAt, TypeOK
  <2>3. CASE UNCHANGED xref
    BY <1>t, <2>3 DEF TypeOK
  <2> QED BY <2>1, <2>2, <2>3, WhoChangesWhat
<1> DEFINE StopType == [at: {"idle", "channels", "releases", "manager", "done"},
                        channels: SUBSET Item, releases: SUBSET Item,
                        manager: Starts \cup {None}]
<1>16. stops' \in [Stops -> StopType]
  <2>t. stops \in [Stops -> StopType]
    BY <1>t DEF TypeOK
  <2>1. CASE Dispose \/ BeginStart
    <3>1. PICK who \in Stops : BeginStop(who)
      BY <2>1 DEF Dispose, BeginStart, Stops
    <3> DEFINE used == {k \in Kinds : rangeChannels[k] # None}
               registered == {It(rangeChannels[k], k) : k \in used}
               previews == IF previewRelease = None THEN {}
                           ELSE {File(previewRelease, "preview")}
               stop == [at |-> "channels", channels |-> registered,
                        releases |-> cacheReleases \cup previews, manager |-> ManagerTaken]
    <3>2. registered \subseteq Item
      BY <1>t, ItemTypes DEF TypeOK
    <3>3. cacheReleases \cup previews \subseteq Item
      BY <1>i, <1>t DEF TypeOK
    <3>4. ManagerTaken \in Starts \cup {None}
      BY <1>t DEF ManagerTaken, TypeOK
    <3>5. stops' = [stops EXCEPT ![who] = stop]
      BY <3>1 DEF BeginStop
    <3> HIDE DEF registered, previews
    <3>6. stop \in StopType
      BY <3>2, <3>3, <3>4
    <3> HIDE DEF stop, StopType
    <3> QED BY <2>t, <3>5, <3>6
  <2>2. CASE AfterStop
    <3>1. NoStop \in StopType
      BY DEF NoStop
    <3>2. stops' = [stops EXCEPT !["start"] = NoStop]
      BY <2>2 DEF AfterStop
    <3> HIDE DEF StopType
    <3> QED BY <2>t, <3>1, <3>2
  <2>3. ASSUME NEW who \in Stops, StopStep(who) PROVE stops' \in [Stops -> StopType]
    <3>1. PICK at \in {"releases", "manager", "done"} : stops' = [stops EXCEPT ![who].at = at]
      BY <2>3 DEF StopStep, CloseChannels, ReleaseCaches, ManagerGone
    <3>2. \A stop \in StopType : [stop EXCEPT !.at = at] \in StopType
      OBVIOUS
    <3>3. stops' = [stops EXCEPT ![who] = [stops[who] EXCEPT !.at = at]]
      BY <3>1
    <3> HIDE DEF StopType
    <3> QED BY <2>t, <3>2, <3>3
  <2>4. CASE UNCHANGED stops
    BY <2>t, <2>4
  <2> HIDE DEF StopType
  <2> QED BY <2>1, <2>2, <2>3, <2>4, WhoChangesWhat
<1>17. {activeMessage', pendingMessage', screen'} \subseteq Message \cup {NoMessage}
  <2>m. \A g \in Starts : \A k \in {"preparing", "preview", "ready", "error", "cancelled"} :
          [start |-> g, kind |-> k] \in Message
    BY DEF Message
  <2>t. {activeMessage, pendingMessage, screen} \subseteq Message \cup {NoMessage}
    BY <1>t DEF TypeOK
  <2>1. CASE Dispose \/ BeginStart
    BY <2>1, <2>t DEF Dispose, BeginStart, BeginStop, ForgetMessages
  <2>2. CASE AfterStop \/ Catch
    <3>1. running \in Starts
      BY <1>r, <2>2 DEF AfterStop, Catch
    <3>2. /\ activeMessage' \in {activeMessage, NoMessage}
          /\ \/ UNCHANGED <<pendingMessage, screen>>
             \/ \E k \in {"preparing", "error", "cancelled"} :
                  PostState([start |-> running, kind |-> k])
      BY <2>2 DEF AfterStop, Catch
    <3>3. ASSUME NEW m \in Message, PostState(m)
          PROVE  pendingMessage' \in {pendingMessage, m} /\ screen' \in {screen, m}
      BY <3>3 DEF PostState, Deliver
    <3>4. CASE UNCHANGED <<pendingMessage, screen>>
      BY <2>t, <3>2, <3>4
    <3>5. ASSUME NEW k \in {"preparing", "error", "cancelled"},
                 PostState([start |-> running, kind |-> k])
          PROVE  {activeMessage', pendingMessage', screen'} \subseteq Message \cup {NoMessage}
      <4> DEFINE m == [start |-> running, kind |-> k]
      <4>1. m \in Message
        BY <2>m, <3>1
      <4> HIDE DEF m
      <4> QED BY <2>t, <3>2, <3>3, <3>5, <4>1 DEF m
    <3> QED BY <3>2, <3>4, <3>5
  <2>3. CASE Publish
    BY <1>r, <2>3, <2>m, <2>t DEF Publish, Deliver
  <2>4. CASE PublishPreview
    BY <1>p, <2>4, <2>m, <2>t DEF PublishPreview, PreviewCut, Deliver
  <2>5. CASE WebviewReady \/ Hide
    BY <2>5, <2>t DEF WebviewReady, Hide, requests, controls
  <2>6. CASE UNCHANGED <<activeMessage, pendingMessage, screen>>
    BY <2>6, <2>t
  <2> QED BY <2>1, <2>2, <2>3, <2>4, <2>5, <2>6, WhoChangesWhat
<1>18. webview' \in {"none", "loading", "shown", "hidden"} /\ webviewReady' \in BOOLEAN
  <2>1. CASE Publish \/ Catch
    BY <1>t, <2>1 DEF Publish, Catch, InitializeWebview, TypeOK
  <2>2. CASE WebviewReady \/ Hide \/ Show
    BY <1>t, <2>2 DEF WebviewReady, Hide, Show, TypeOK
  <2>3. CASE UNCHANGED <<webview, webviewReady>>
    BY <1>t, <2>3 DEF TypeOK
  <2> QED BY <2>1, <2>2, <2>3, WhoChangesWhat
<1>19. setting' \in Settings
  BY <1>t, WhoChangesWhat DEF TypeOK
<1> HIDE DEF StopType
<1> QED BY <1>1, <1>2, <1>3, <1>4, <1>5, <1>6, <1>7, <1>8, <1>9, <1>10, <1>11, <1>12, <1>13,
           <1>14, <1>15, <1>16, <1>17, <1>18, <1>19 DEF TypeOK, StopType

-----------------------------------------------------------------------------
(* The steps keep the invariant, part by part.                              *)

\* Starts, their stops and their previews keep their order.
LEMMA NextStartRuns ==
  EditorInv /\ [Next]_vars => GenerationBounded' /\ StartRuns' /\ PreviewRuns'
<1> SUFFICES ASSUME EditorInv, [Next]_vars
             PROVE  GenerationBounded' /\ StartRuns' /\ PreviewRuns'
  OBVIOUS
<1>t. TypeOK /\ GenerationBounded /\ StartRuns /\ PreviewRuns
  BY DEF EditorInv
<1>f. /\ setting.starts \in Nat /\ setting.starts <= MaxStarts /\ MaxStarts \in Nat \ {0}
      /\ None \notin Starts
  BY <1>t, SettingFacts
<1>1. GenerationBounded'
  <2>1. CASE Retry \/ WebviewReady
    BY <1>f, <1>t, <2>1 DEF Retry, WebviewReady, Request, requests, GenerationBounded, TypeOK
  <2>2. CASE Dispose
    BY <2>2 DEF Dispose, GenerationBounded
  <2>3. CASE UNCHANGED <<disposed, generation>>
    BY <1>t, <2>3 DEF GenerationBounded
  <2> QED BY <2>1, <2>2, <2>3, WhoChangesWhat
<1>2. StartRuns'
  <2> USE DEF StartRuns
  <2>t. DOMAIN stops = Stops
    BY <1>t DEF TypeOK
  <2>1. CASE BeginStart
    <3>1. Head(startQueue) # None
      BY <1>f, <1>t, <2>1 DEF BeginStart, TypeOK
    <3>2. UNCHANGED disposed
      BY <2>1 DEF BeginStart
    <3>3. /\ stops'["start"].at = "channels" /\ stops'["disposal"] = stops["disposal"]
      BY <2>1, <2>t DEF BeginStart, BeginStop, Stops
    <3> QED BY <1>t, <2>1, <3>1, <3>2, <3>3 DEF BeginStart
  <2>2. CASE Dispose
    <3>1. /\ stops'["start"] = stops["start"] /\ UNCHANGED <<running, stage>> /\ disposed'
      BY <2>2, <2>t DEF Dispose, BeginStop, Stops
    <3> QED BY <1>t, <3>1
  <2>3. CASE AfterStop
    <3>1. /\ stops'["start"].at = "idle" /\ stops'["disposal"] = stops["disposal"]
          /\ UNCHANGED disposed
      BY <2>3, <2>t DEF AfterStop, NoStop, Stops, Unchecked
    <3>2. \/ running' = None /\ stage' = "idle"
          \/ running' = running /\ stage' = "adapter" /\ stage = "stopping"
      BY <2>3 DEF AfterStop, EndStart
    <3> QED BY <1>t, <3>1, <3>2
  <2>4. ASSUME NEW who \in Stops, StopStep(who) PROVE StartRuns'
    <3>1. /\ UNCHANGED <<running, stage, disposed>>
          /\ stops[who].at # "idle" /\ stops'[who].at # "idle"
          /\ \A w \in Stops \ {who} : stops'[w] = stops[w]
      BY <1>t, <2>4 DEF StopStep, CloseChannels, ReleaseCaches, ManagerGone, requests, TypeOK
    <3> QED BY <1>t, <3>1 DEF Stops
  <2>5. CASE Prepared \/ Publish \/ Catch
    <3>1. /\ UNCHANGED <<stops, disposed>> /\ stage \notin {"idle", "stopping"}
          /\ \/ running' = None /\ stage' = "idle"
             \/ running' = running /\ stage' \in {"opening"}
      BY <2>5 DEF Prepared, Publish, Catch, EndStart, Continue, Unchecked, requests
    <3> QED BY <1>t, <3>1
  <2>6. CASE \/ ResolveAdapter \/ Lookup \/ AfterPreview \/ Converted \/ Commit \/ OpenFails
    <3>1. /\ UNCHANGED <<running, stops, disposed>>
          /\ stage \notin {"idle", "stopping"} /\ stage' \notin {"idle", "stopping"}
      BY <2>6 DEF ResolveAdapter, Lookup, AfterPreview, Converted, Commit, OpenFails,
                  Continue, Convert, requests
    <3> QED BY <1>t, <3>1
  <2>7. CASE ConverterExits
    <3>1. UNCHANGED <<running, stops, disposed>> /\ stage' = "exited"
      BY <2>7 DEF ConverterExits, Continue, requests
    <3>2. stage = "converting"
      BY <1>t, <2>7 DEF ConverterExits, EditorInv, ConvertersRun, Item, It, TypeOK
    <3> QED BY <1>t, <3>1, <3>2
  <2>8. CASE UNCHANGED <<running, stage, stops, disposed>>
    BY <1>t, <2>8
  <2> QED BY <2>1, <2>2, <2>3, <2>4, <2>5, <2>6, <2>7, <2>8, WhoChangesWhat
<1>3. PreviewRuns'
  <2> USE DEF PreviewRuns
  <2>1. CASE BeginStart \/ Lookup
    BY <1>t, <2>1 DEF BeginStart, Lookup, Convert, Continue
  <2>2. CASE AfterStop \/ ResolveAdapter \/ AfterPreview \/ Converted
    BY <1>t, <2>2 DEF AfterStop, ResolveAdapter, AfterPreview, Converted, EndStart, Convert,
                      Continue
  <2>3. CASE Commit \/ Prepared \/ Publish \/ OpenFails \/ Catch
    BY <1>t, <2>3 DEF Commit, Prepared, Publish, OpenFails, Catch, EndStart, Continue
  <2>4. CASE ConverterExits
    BY <1>t, <2>4 DEF ConverterExits, Continue
  <2>5. CASE Offer \/ CheckPreview \/ PublishPreview \/ FrameSettled
    BY <1>t, <2>5 DEF Offer, CheckPreview, PublishPreview, FrameSettled, PreviewCut
  <2>6. CASE UNCHANGED <<stage, preview>>
    BY <1>t, <2>6
  <2> QED BY <2>1, <2>2, <2>3, <2>4, <2>5, <2>6, WhoChangesWhat
<1> QED BY <1>1, <1>2, <1>3

\* Processes begin and end with what awaits them.
LEMMA NextConvertersRun == EditorInv /\ [Next]_vars => ConvertersRun'
<1> SUFFICES ASSUME EditorInv, [Next]_vars PROVE ConvertersRun'
  OBVIOUS
<1>t. TypeOK /\ StartRuns /\ ConvertersRun
  BY DEF EditorInv
<1>r. stage # "idle" => running \in Starts
  BY <1>t DEF StartRuns, TypeOK
<1>i. \A g, h : \A j, k \in {"root", "preview", "xref"} :
        It(g, j) = It(h, k) <=> g = h /\ j = k
  BY DEF It
<1> USE DEF ConvertersRun
<1>1. CASE Lookup \/ AfterPreview
  <2>1. /\ stage \notin {"converting", "idle"} /\ UNCHANGED <<running, xref>>
        /\ \/ UNCHANGED converters /\ stage' # "converting"
           \/ stage' = "converting" /\ converters' = converters \cup {It(running, "root")}
    BY <1>1 DEF Lookup, AfterPreview, Convert, Continue, engines, references
  <2> QED BY <1>t, <1>r, <1>i, <2>1
<1>2. CASE ConverterExits
  <2>1. /\ It(running, "root") \in converters /\ converters' = converters \ {It(running, "root")}
        /\ stage' = "exited" /\ UNCHANGED <<running, xref>>
    BY <1>2 DEF ConverterExits, Continue, references
  <2> QED BY <1>t, <1>i, <2>1
<1>3. ASSUME NEW g \in Starts, XrefStep(g) PROVE ConvertersRun'
  <2>1. UNCHANGED <<running, stage>>
    BY <1>3 DEF XrefStep, XrefLookup, XrefConverted, XrefCommit, PublishXref, OpenXref,
                RegisterXref, XrefCut
  <2>2. \/ /\ xref[g] # "converting" /\ UNCHANGED converters
           /\ \E to : to # "converting" /\ xref' = [xref EXCEPT ![g] = to]
        \/ /\ xref[g] # "converting" /\ converters' = converters \cup {It(g, "xref")}
           /\ xref' = [xref EXCEPT ![g] = "converting"]
        \/ /\ converters' = converters \ {It(g, "xref")}
           /\ \E to : to # "converting" /\ xref' = [xref EXCEPT ![g] = to]
    BY <1>3 DEF XrefStep, XrefLookup, XrefConverted, XrefCommit, PublishXref, OpenXref,
                RegisterXref, XrefAt
  <2>3. DOMAIN xref = Starts
    BY <1>t DEF TypeOK
  <2> QED BY <1>t, <1>i, <2>1, <2>2, <2>3
<1>4. CASE UNCHANGED converters /\ ~(\E g \in Starts : XrefStep(g))
  <2>1. \A g \in Starts : xref'[g] = "converting" <=> xref[g] = "converting"
    <3>1. CASE Publish
      <4>1. running \in Starts /\ stage = "opening"
        BY <1>r, <3>1 DEF Publish
      <4>2. running # None
        BY <4>1, <1>t, SettingFacts
      <4>3. xref[running] # "converting"
        BY <4>1, <4>2 DEF EditorInv, ReferenceAwaited, BusyXref
      <4>4. xref' = xref \/ \E to : to # "converting" /\ xref' = [xref EXCEPT ![running] = to]
        BY <3>1 DEF Publish
      <4> QED BY <1>t, <4>1, <4>3, <4>4 DEF TypeOK
    <3>2. ASSUME NEW g \in Starts, Discover(g)
          PROVE  \A h \in Starts : xref'[h] = "converting" <=> xref[h] = "converting"
      BY <1>t, <3>2 DEF Discover, XrefAt, TypeOK
    <3>3. CASE UNCHANGED xref
      BY <3>3
    <3> QED BY <1>4, <3>1, <3>2, <3>3, WhoChangesWhat
  <2>2. \A g \in Starts : running' = g /\ stage' = "converting"
                            <=> running = g /\ stage = "converting"
    <3>1. CASE BeginStart \/ AfterStop \/ ResolveAdapter \/ Converted
      BY <1>4, <1>t, <3>1 DEF BeginStart, AfterStop, ResolveAdapter, Converted, EndStart,
                              Continue, StartRuns
    <3>2. CASE Commit \/ Prepared \/ Publish \/ OpenFails \/ Catch
      BY <1>4, <3>2 DEF Commit, Prepared, Publish, OpenFails, Catch, EndStart, Continue
    <3>3. CASE UNCHANGED <<running, stage>>
      BY <3>3
    <3>4. CASE Lookup \/ AfterPreview \/ ConverterExits
      BY <1>4, <1>r, <1>t, <3>4 DEF Lookup, AfterPreview, ConverterExits, Convert, Continue
    <3> QED BY <3>1, <3>2, <3>3, <3>4, WhoChangesWhat
  <2> QED BY <1>4, <1>t, <2>1, <2>2
<1> QED BY <1>1, <1>2, <1>3, <1>4, WhoChangesWhat DEF XrefStep

\* A manager and its references change hands together.
LEMMA NextControllerIsCurrent == EditorInv /\ [Next]_vars => ControllerIsCurrent'
<1> SUFFICES ASSUME EditorInv, [Next]_vars PROVE ControllerIsCurrent'
  OBVIOUS
<1>t. TypeOK /\ StartRuns /\ ControllerIsCurrent
  BY DEF EditorInv
<1> USE DEF ControllerIsCurrent, Preparing
<1>1. CASE BeginStart \/ Dispose
  BY <1>t, <1>1 DEF BeginStart, Dispose, BeginStop
<1>2. CASE AfterStop \/ ResolveAdapter
  <2>1. CASE AfterStop
    BY <1>t, <2>1 DEF AfterStop, EndStart, Unchecked, engines, references, StartRuns
  <2>2. CASE ResolveAdapter
    BY <1>t, <2>2 DEF ResolveAdapter, Continue, requests, references, StartRuns
  <2> QED BY <1>2, <2>1, <2>2
<1>3. CASE Lookup \/ AfterPreview \/ ConverterExits
  <2>1. stage \in Preparing
    BY <1>3 DEF Lookup, AfterPreview, ConverterExits, EditorInv, ConvertersRun, It, Item, TypeOK
  <2> QED BY <1>t, <1>3, <2>1 DEF Lookup, AfterPreview, ConverterExits, Convert, Continue,
                               requests, references, engines
<1>4. CASE Converted \/ Commit \/ Prepared \/ OpenFails \/ Catch
  BY <1>t, <1>4 DEF Converted, Commit, Prepared, OpenFails, Catch, EndStart, Continue, Unchecked,
                    requests, references, engines
<1>5. CASE Publish
  BY <1>t, <1>5 DEF Publish, EndStart, Unchecked, engines, references, Stale
<1>6. CASE UNCHANGED <<running, stage, disposed, xrefController, sceneCacheManager>>
  BY <1>t, <1>6
<1> QED BY <1>1, <1>2, <1>3, <1>4, <1>5, <1>6, WhoChangesWhat

\* A reference that is being prepared is never left behind by the start that follows.
LEMMA NextReferenceAwaited == EditorInv /\ [Next]_vars => ReferenceAwaited'
<1> SUFFICES ASSUME EditorInv, [Next]_vars PROVE ReferenceAwaited'
  OBVIOUS
<1>t. TypeOK /\ StartRuns /\ ControllerIsCurrent /\ ReferenceAwaited
  BY DEF EditorInv
<1>f. None \notin Starts
  BY <1>t, SettingFacts
<1>x. DOMAIN xref = Starts /\ DOMAIN stops = Stops
  BY <1>t DEF TypeOK
<1> USE DEF ReferenceAwaited, BusyXref
<1>1. CASE BeginStart
  <2>1. /\ running = None /\ running' = Head(startQueue) /\ stage' = "stopping"
        /\ UNCHANGED <<xref, disposed>>
        /\ stops'["start"].manager = sceneCacheManager /\ stops'["start"].at = "channels"
    BY <1>x, <1>1 DEF BeginStart, BeginStop, ManagerTaken, Stops
  <2>2. running' # None
    BY <1>f, <1>t, <1>1 DEF BeginStart, TypeOK
  <2> QED BY <1>t, <2>1, <2>2
<1>2. CASE Dispose
  <2>1. disposed' /\ UNCHANGED <<xref, running, stage>>
    BY <1>2 DEF Dispose
  <2> QED BY <1>t, <2>1
<1>3. CASE AfterStop
  <2>1. /\ stage = "stopping" /\ stops["start"].at = "done"
        /\ UNCHANGED <<xref, disposed, sceneCacheManager>>
        /\ \/ running' = None
           \/ ~disposed
    BY <1>3 DEF AfterStop, EndStart, Unchecked, references, engines
  <2>2. running # None
    BY <1>t, <2>1 DEF StartRuns
  <2> QED BY <1>t, <2>1, <2>2
<1>4. CASE \/ ResolveAdapter \/ Lookup \/ AfterPreview \/ ConverterExits \/ Converted \/ Commit
           \/ Prepared \/ OpenFails \/ Catch
  <2>1. stage # "stopping" /\ stage # "idle" /\ UNCHANGED xref
    BY <1>4 DEF ResolveAdapter, Lookup, AfterPreview, ConverterExits, Converted, Commit, Prepared,
                OpenFails, Catch, EditorInv, ConvertersRun, It, Item, TypeOK, references
  <2>2. \A h \in Starts : ~BusyXref(h)
    BY <1>t, <2>1 DEF StartRuns
  <2> QED BY <2>1, <2>2
<1>5. CASE Publish
  <2>1. /\ stage = "opening" /\ running # None
        /\ xref' = xref \/ \E to \in {"found", "none"} : xref' = [xref EXCEPT ![running] = to]
    BY <1>t, <1>5 DEF Publish, StartRuns
  <2>2. \A h \in Starts : ~BusyXref(h)
    BY <1>t, <2>1
  <2> QED BY <1>x, <2>1, <2>2
<1>6. ASSUME NEW g \in Starts, Discover(g) PROVE ReferenceAwaited'
  <2>1. /\ xref[g] = "found" /\ xref' = [xref EXCEPT ![g] = "storage"]
        /\ xrefController = g
        /\ UNCHANGED <<disposed, running, stage, sceneCacheManager, stops>>
    BY <1>6 DEF Discover, XrefAt, XrefCut, requests
  <2>2. running = None /\ ~disposed /\ sceneCacheManager = g
    BY <1>f, <1>t, <2>1 DEF ControllerIsCurrent
  <2>3. \A h \in Starts : BusyXref(h) => h = g
    BY <1>t, <2>2
  <2> QED BY <1>x, <2>1, <2>2, <2>3
<1>7. ASSUME NEW g \in Starts, XrefStep(g) PROVE ReferenceAwaited'
  <2>1. UNCHANGED <<disposed, running, stage, sceneCacheManager, stops>>
    BY <1>7 DEF XrefStep, XrefLookup, XrefConverted, XrefCommit, PublishXref, OpenXref,
                RegisterXref, XrefCut, requests
  <2>2. \E to : /\ xref' = [xref EXCEPT ![g] = to]
                /\ to \in {"storage", "converting", "committing"} => BusyXref(g)
    BY <1>7 DEF XrefStep, XrefLookup, XrefConverted, XrefCommit, PublishXref, OpenXref,
                RegisterXref, XrefAt
  <2>3. \A h \in Starts : BusyXref(h)' => BusyXref(h)
    BY <1>x, <2>2
  <2> QED BY <1>t, <2>1, <2>3
<1>8. ASSUME NEW who \in Stops, StopStep(who) PROVE ReferenceAwaited'
  <2>1. UNCHANGED <<disposed, running, stage, sceneCacheManager, xref>>
    BY <1>8 DEF StopStep, CloseChannels, ReleaseCaches, ManagerGone, requests, engines, references
  <2>2. CASE CloseChannels(who)
    <3>1. \A w \in Stops : stops'[w].manager = stops[w].manager
                           /\ (stops'[w].at = "done" => stops[w].at = "done")
      BY <1>t, <2>2 DEF CloseChannels, TypeOK
    <3> QED BY <1>t, <2>1, <3>1 DEF Stops
  <2>3. CASE ReleaseCaches(who)
    <3>1. /\ \A w \in Stops : stops'[w].manager = stops[w].manager
          /\ \A w \in Stops : stops'[w].at = "done" /\ stops[w].at # "done"
                              => stops[w].manager = None
      BY <1>t, <2>3 DEF ReleaseCaches, TypeOK
    <3> QED BY <1>f, <1>t, <2>1, <3>1 DEF Stops
  <2>4. CASE ManagerGone(who)
    <3>1. /\ \A w \in Stops : stops'[w].manager = stops[w].manager
          /\ \A w \in Stops : stops'[w].at = "done" /\ stops[w].at # "done"
                              => w = who /\ ~Busy(stops[w].manager)
      BY <1>t, <2>4 DEF ManagerGone, TypeOK
    <3> QED BY <1>t, <2>1, <3>1 DEF Stops, Busy
  <2> QED BY <1>8, <2>2, <2>3, <2>4 DEF StopStep
<1>9. CASE UNCHANGED <<xref, running, sceneCacheManager, disposed, stage, stops>>
  BY <1>t, <1>9
<1> QED BY <1>1, <1>2, <1>3, <1>4, <1>5, <1>6, <1>7, <1>8, <1>9, WhoChangesWhat

\* Nothing is registered before it is published, and nothing released that is still to be.
LEMMA NextNothingShared == EditorInv /\ [Next]_vars => NothingShared'
<1> SUFFICES ASSUME EditorInv, [Next]_vars PROVE NothingShared'
  OBVIOUS
<1>t. TypeOK /\ StartRuns /\ PreviewRuns /\ NothingShared
  BY DEF EditorInv
<1>x. DOMAIN rangeChannels = Kinds /\ {"root", "preview", "xref"} = Kinds
  BY <1>t DEF TypeOK, Kinds
<1>s. Persistent' = Persistent /\ \A g, k : File(g, k)' = File(g, k)
  BY WhoChangesWhat DEF Persistent, File
<1> USE DEF NothingShared
<1>1. CASE BeginStart \/ Dispose
  <2>1. /\ rangeChannels'["root"] = None /\ rangeChannels'["preview"] = None
        /\ activeMessage' = NoMessage /\ previewRelease' = None
        /\ preview' = "none" \/ disposed'
    BY <1>x, <1>1 DEF BeginStart, Dispose, BeginStop, ForgetMessages
  <2> QED BY <2>1
<1>2. CASE AfterStop
  <2>1. /\ UNCHANGED <<disposed, preview, rangeChannels, previewRelease, files>>
        /\ activeMessage' \in {activeMessage, NoMessage} /\ running # None
        /\ preview = "none"
    BY <1>t, <1>2 DEF AfterStop, EndStart, Unchecked, channels, StartRuns, PreviewRuns
  <2> QED BY <1>t, <2>1
<1>3. CASE Publish
  <2>1. /\ UNCHANGED <<disposed, preview, previewRelease, files>> /\ running' = None
        /\ rangeChannels'["preview"] = rangeChannels["preview"]
        /\ preview \notin {"offered", "opening"} /\ running # None
        /\ disposed => UNCHANGED <<rangeChannels, activeMessage>>
    BY <1>x, <1>t, <1>3 DEF Publish, EndStart, Unchecked, Stale, PreviewRuns, StartRuns
  <2> QED BY <1>t, <2>1
<1>4. CASE Lookup
  <2>1. /\ UNCHANGED <<disposed, running, rangeChannels, previewRelease, activeMessage>>
        /\ running # None /\ preview = "none"
        /\ preview' \in {preview, "offered"}
        /\ preview' = "offered" => File(running, "preview") \in files'
    BY <1>t, <1>4 DEF Lookup, Continue, Convert, requests, views, StartRuns, PreviewRuns, File, It
  <2> QED BY <1>t, <1>s, <2>1
<1>5. CASE Offer
  <2>1. /\ UNCHANGED <<disposed, running, rangeChannels, previewRelease, activeMessage>>
        /\ running # None /\ preview = "none" /\ File(running, "preview") \in files'
    BY <1>t, <1>5 DEF Offer, requests, views, StartRuns
  <2> QED BY <1>t, <1>s, <2>1
<1>6. CASE CheckPreview
  <2>1. /\ UNCHANGED <<disposed, running, rangeChannels, previewRelease, activeMessage>>
        /\ running # None /\ preview = "offered"
    BY <1>t, <1>6 DEF CheckPreview, PreviewCut, requests, StartRuns, PreviewRuns
  <2>2. preview' = "done" \/ (preview' = "opening" /\ UNCHANGED files)
    BY <1>6 DEF CheckPreview
  <2> QED BY <1>t, <1>s, <2>1, <2>2
<1>7. CASE PublishPreview
  <2>1. /\ UNCHANGED <<disposed, running, activeMessage>> /\ preview' \in {"done", "waiting"}
        /\ rangeChannels'["root"] = rangeChannels["root"]
        /\ disposed => UNCHANGED <<rangeChannels, previewRelease>>
    BY <1>x, <1>7 DEF PublishPreview, PreviewCut, Unwanted, Stale, requests
  <2> QED BY <1>t, <2>1
<1>8. CASE DisposePreview
  <2>1. /\ UNCHANGED <<disposed, running, preview, activeMessage>>
        /\ rangeChannels'["root"] = rangeChannels["root"]
        /\ rangeChannels'["preview"] = None /\ previewRelease' = None
        /\ previewRelease # None
    BY <1>x, <1>8 DEF DisposePreview, requests, views
  <2>2. preview \notin {"offered", "opening"} \/ disposed
    BY <1>t, <2>1 DEF PreviewRuns, StartRuns
  <2> QED BY <1>t, <2>1, <2>2
<1>9. ASSUME NEW who \in Stops, ReleaseCaches(who) \/ ManagerGone(who) PROVE NothingShared'
  <2>1. /\ UNCHANGED <<disposed, running, preview, activeMessage, rangeChannels, previewRelease>>
        /\ disposed \/ stage = "stopping"
    BY <1>t, <1>9 DEF ReleaseCaches, ManagerGone, Stops, StartRuns, requests, views
  <2> QED BY <1>t, <2>1 DEF PreviewRuns
<1>10. CASE Commit \/ \E g \in Starts : XrefCommit(g)
  <2>1. /\ UNCHANGED <<disposed, running, preview, activeMessage, rangeChannels, previewRelease>>
        /\ files \subseteq files'
    BY <1>10 DEF Commit, XrefCommit, Continue, XrefCut, requests, views
  <2> QED BY <1>t, <1>s, <2>1
<1>11. ASSUME NEW g \in Starts, RegisterXref(g) PROVE NothingShared'
  <2>1. /\ UNCHANGED <<disposed, running, preview, activeMessage, previewRelease, files>>
        /\ rangeChannels'["root"] = rangeChannels["root"]
        /\ rangeChannels'["preview"] = rangeChannels["preview"]
    BY <1>x, <1>11 DEF RegisterXref, XrefCut, requests, views
  <2> QED BY <1>t, <1>s, <2>1
<1>12. CASE Prepared \/ Catch
  <2>1. /\ UNCHANGED <<disposed, preview, activeMessage, rangeChannels, previewRelease, files>>
        /\ running' \in {running, None} /\ preview \notin {"offered", "opening"}
        /\ running # None
    BY <1>t, <1>12 DEF Prepared, Catch, EndStart, Continue, Unchecked, requests, channels, views,
                       PreviewRuns, StartRuns
  <2> QED BY <1>t, <1>s, <2>1
<1>13. CASE FrameSettled
  <2>1. /\ UNCHANGED <<disposed, running, activeMessage, rangeChannels, previewRelease, files>>
        /\ preview' = "done"
    BY <1>13 DEF FrameSettled, PreviewCut, requests
  <2> QED BY <1>t, <1>s, <2>1
<1>14. CASE UNCHANGED <<disposed, running, preview, activeMessage, rangeChannels, previewRelease,
                        files>>
  BY <1>t, <1>s, <1>14
<1> QED BY <1>1, <1>2, <1>3, <1>4, <1>5, <1>6, <1>7, <1>8, <1>9, <1>10, <1>11, <1>12, <1>13, <1>14,
           WhoChangesWhat

\* What is registered keeps its file and its handle.
LEMMA NextActiveIsReadable == EditorInv /\ [Next]_vars => ActiveIsReadable'
<1> SUFFICES ASSUME EditorInv, [Next]_vars PROVE ActiveIsReadable'
  OBVIOUS
<1>t. TypeOK /\ StartRuns /\ PreviewRuns /\ NothingShared /\ ActiveIsReadable
  BY DEF EditorInv
<1>x. DOMAIN rangeChannels = Kinds /\ {"root", "preview", "xref"} = Kinds
  BY <1>t DEF TypeOK, Kinds
<1>s. Persistent' = Persistent /\ \A g, k : File(g, k)' = File(g, k)
  BY WhoChangesWhat DEF Persistent, File
<1>k. \A g, h : \A j, k \in {"root", "preview", "xref"} : j # k =>
        It(g, j) # It(h, k) /\ File(g, j) # File(h, k)
  BY DEF It, File
<1> USE DEF ActiveIsReadable, ReadyIsOpen, HasFile
<1>1. CASE BeginStart \/ Dispose
  BY <1>x, <1>1 DEF BeginStart, Dispose, BeginStop, ForgetMessages
<1>2. CASE AfterStop
  <2>1. activeMessage' \in {activeMessage, NoMessage} /\ UNCHANGED <<rangeChannels, open, files>>
    BY <1>2 DEF AfterStop, channels
  <2> QED BY <1>t, <1>s, <2>1
<1>3. CASE Publish
  <2>1. CASE Stale(running)
    BY <1>t, <1>s, <1>3, <2>1 DEF Publish
  <2>2. CASE ~Stale(running)
    BY <1>t, <1>s, <1>x, <1>3, <2>2 DEF Publish
  <2> QED BY <2>1, <2>2
<1>4. CASE Lookup
  <2>1. /\ UNCHANGED <<rangeChannels, open, activeMessage>> /\ running # None /\ preview = "none"
    BY <1>t, <1>4 DEF Lookup, views, StartRuns, PreviewRuns
  <2> QED BY <1>t, <2>1 DEF NothingShared
<1>5. CASE Offer \/ Commit \/ \E g \in Starts : XrefCommit(g)
  <2>1. UNCHANGED <<rangeChannels, open, activeMessage>> /\ files \subseteq files'
    BY <1>5 DEF Offer, Commit, XrefCommit, Continue, XrefCut, views
  <2> QED BY <1>t, <1>s, <2>1
<1>6. CASE CheckPreview \/ PublishPreview
  <2>1. /\ UNCHANGED activeMessage /\ running # None /\ preview \in {"offered", "opening"}
    BY <1>t, <1>6 DEF CheckPreview, PublishPreview, PreviewCut, StartRuns, PreviewRuns
  <2>2. rangeChannels["root"] = None /\ activeMessage = NoMessage /\ rangeChannels["preview"] = None
    BY <1>t, <2>1 DEF NothingShared
  <2>3. /\ rangeChannels'["root"] = None
        /\ \/ rangeChannels'["preview"] = None
           \/ /\ rangeChannels'["preview"] = running /\ UNCHANGED files
              /\ ~disposed /\ preview = "opening"
    <3>1. CASE CheckPreview
      BY <2>2, <3>1 DEF CheckPreview
    <3>2. CASE PublishPreview
      <4>1. CASE Unwanted(running)
        BY <2>2, <3>2, <4>1 DEF PublishPreview
      <4>2. CASE ~Unwanted(running)
        BY <1>x, <2>2, <3>2, <4>2 DEF PublishPreview, Unwanted, Stale
      <4> QED BY <4>1, <4>2
    <3> QED BY <1>6, <3>1, <3>2
  <2> QED BY <1>t, <1>s, <2>1, <2>2, <2>3 DEF NothingShared
<1>7. CASE DisposePreview
  <2>1. /\ UNCHANGED activeMessage
        /\ rangeChannels'["root"] = rangeChannels["root"] /\ rangeChannels'["preview"] = None
        /\ \A g : It(g, "root") \in open => It(g, "root") \in open'
        /\ \A g : File(g, "root") \in files => File(g, "root") \in files'
    BY <1>k, <1>x, <1>7 DEF DisposePreview, Released, views
  <2> QED BY <1>t, <1>s, <2>1
<1>8. ASSUME NEW who \in Stops, StopStep(who) PROVE ActiveIsReadable'
  <2>1. /\ UNCHANGED <<rangeChannels, activeMessage>>
        /\ disposed \/ running # None
        /\ disposed \/ preview = "none"
    BY <1>t, <1>8 DEF StopStep, CloseChannels, ReleaseCaches, ManagerGone, Stops, StartRuns,
                      PreviewRuns, views
  <2> QED BY <1>t, <2>1 DEF NothingShared
<1>9. ASSUME NEW g \in Starts, OpenXref(g) \/ RegisterXref(g) PROVE ActiveIsReadable'
  <2>1. /\ UNCHANGED <<activeMessage, files>>
        /\ rangeChannels'["root"] = rangeChannels["root"]
        /\ rangeChannels'["preview"] = rangeChannels["preview"]
        /\ \A h : It(h, "root") \in open => It(h, "root") \in open'
    BY <1>k, <1>x, <1>9 DEF OpenXref, RegisterXref, XrefCut, views
  <2> QED BY <1>t, <1>s, <2>1
<1>10. CASE UNCHANGED <<rangeChannels, open, files, activeMessage>>
  BY <1>t, <1>s, <1>10
<1> QED BY <1>1, <1>2, <1>3, <1>4, <1>5, <1>6, <1>7, <1>8, <1>9, <1>10, WhoChangesWhat DEF StopStep

\* An editor that is opened has prepared nothing.
LEMMA InitEditorInv == Init => EditorInv
<1> SUFFICES ASSUME Init PROVE EditorInv
  OBVIOUS
<1>f. MaxStarts \in Nat \ {0} /\ 1 \in Starts /\ None \notin Starts
  BY EditorAssumption DEF Starts, None
<1>1. TypeOK
  <2>1. <<1>> \in Seq(Starts) /\ << >> \in Seq(Starts)
    BY <1>f
  <2>2. NoStop \in [at: {"idle", "channels", "releases", "manager", "done"},
                    channels: SUBSET Item, releases: SUBSET Item, manager: Starts \cup {None}]
    BY DEF NoStop
  <2>3. generation \in 0 .. MaxStarts + 1 /\ startQueue \in Seq(Starts)
    <3>1. \/ generation = 0 /\ startQueue = << >>
          \/ generation = 1 /\ startQueue = <<1>>
      BY DEF Init
    <3>2. startQueue \in Seq(Starts)
      BY <2>1, <3>1
    <3>3. generation \in 0 .. MaxStarts + 1
      BY <1>f, <3>1
    <3> QED BY <3>2, <3>3
  <2>4. webview \in {"none", "loading", "shown", "hidden"}
    BY DEF Init
  <2>5. stops \in [Stops -> [at: {"idle", "channels", "releases", "manager", "done"},
                            channels: SUBSET Item, releases: SUBSET Item,
                            manager: Starts \cup {None}]]
    BY <2>2 DEF Init
  <2> QED BY <1>f, <2>3, <2>4, <2>5 DEF Init, TypeOK
<1>2. /\ GenerationBounded /\ StartRuns /\ PreviewRuns /\ ConvertersRun /\ ControllerIsCurrent
      /\ ReferenceAwaited /\ NothingShared /\ ActiveIsReadable
  BY <1>f DEF Init, GenerationBounded, StartRuns, PreviewRuns, ConvertersRun,
              ControllerIsCurrent, ReferenceAwaited, BusyXref, NothingShared, ActiveIsReadable,
              ReadyIsOpen, HasFile, NoStop, Stops, Preparing, Kinds
<1> QED BY <1>1, <1>2 DEF EditorInv

\* Every step keeps the invariant.
LEMMA NextEditorInv == EditorInv /\ [Next]_vars => EditorInv'
BY NextTyped, NextStartRuns, NextConvertersRun, NextControllerIsCurrent, NextReferenceAwaited,
   NextNothingShared, NextActiveIsReadable DEF EditorInv

\* Two converters would belong to a start and a reference, or to two references.
LEMMA AtMostOneConverter == EditorInv => OneConverter
<1> SUFFICES ASSUME EditorInv PROVE OneConverter
  OBVIOUS
<1>t. TypeOK /\ StartRuns /\ ConvertersRun /\ ReferenceAwaited
  BY DEF EditorInv
<1>f. None \notin Starts
  BY <1>t, SettingFacts
<1>1. ASSUME NEW c \in converters PROVE \/ c = It(running, "root") /\ stage = "converting"
                                        \/ c = It(c.start, "xref") /\ BusyXref(c.start)
  <2>1. c \in Item /\ c.start \in Starts /\ c.kind \in Kinds /\ c = It(c.start, c.kind)
    BY <1>t, <1>1 DEF TypeOK, Item, It
  <2> QED BY <1>t, <1>1, <2>1 DEF ConvertersRun, Kinds, BusyXref
<1>2. \A c, d \in converters : c = d
  <2> SUFFICES ASSUME NEW c \in converters, NEW d \in converters PROVE c = d
    OBVIOUS
  <2>1. c.start \in Starts /\ d.start \in Starts
    BY <1>t DEF TypeOK, Item
  <2> QED BY <1>1, <1>t, <2>1 DEF ReferenceAwaited, StartRuns
<1>3. CASE converters = {}
  BY <1>3, FS_EmptySet DEF OneConverter
<1>4. CASE converters # {}
  <2>1. PICK c : converters = {c}
    BY <1>2, <1>4
  <2>2. Cardinality(converters) = 1
    BY <2>1, FS_Singleton
  <2> QED BY <2>2 DEF OneConverter
<1> QED BY <1>3, <1>4

-----------------------------------------------------------------------------
\* The invariant holds throughout.
LEMMA Invariant == Spec => []EditorInv
BY InitEditorInv, NextEditorInv, PTL DEF Spec

\* Whatever is retried, cancelled, hidden and closed, every variable keeps its type.
THEOREM EditorTypeCorrect == Spec => []TypeOK
<1>1. EditorInv => TypeOK
  BY DEF EditorInv
<1> QED BY <1>1, Invariant, PTL

\* Of all the starts of a panel and their references, one converter runs at a time, however
\* often the user retries and cancels.
THEOREM OneConverterRuns == Spec => []OneConverter
BY Invariant, AtMostOneConverter, PTL

\* A ready message that may be sent is for a root cache whose channel is registered and open,
\* and the root and preview caches that are registered have their files.
THEOREM ReadyCacheIsReadable == Spec => []ActiveIsReadable
<1>1. EditorInv => ActiveIsReadable
  BY DEF EditorInv
<1> QED BY <1>1, Invariant, PTL
=============================================================================
