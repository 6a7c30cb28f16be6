----------------------------- MODULE References -----------------------------
(* The external references of a drawing, from their discovery in the        *)
(* webview to their mounting there: the XrefController of the extension,    *)
(* the queue of the webview that mounts what it is sent, and the messages   *)
(* between them.                                                            *)
(*                                                                          *)
(* The webview reports the references of every cache it shows. Of each the  *)
(* controller searches the file, has it converted, announces the cache and  *)
(* waits until the webview says that it is mounted, for thirty seconds.     *)
(* Two tasks run at a time, one of them converts. The panel of the webview  *)
(* shows the status of each reference and may offer to load it, or to link  *)
(* it with another file. A page that is hidden is destroyed; shown again it *)
(* starts anew, while the controller goes on.                               *)
(*                                                                          *)
(* A file stands for its cache as well: equal files give equal caches.      *)
EXTENDS Naturals, FiniteSets, SequencesExt

CONSTANTS
  Files, Root,    \* the files there are, the drawing of the editor among them
  NoFile,         \* what a search finds when it finds nothing
  Concurrency,    \* MAX_XREF_TASK_CONCURRENCY
  MaxDepth,       \* MAX_XREF_DEPTH
  MaxReferences,  \* MAX_XREF_REFERENCES
  Drawings        \* the settings: what the files refer to, bounds on what the user does,
                  \*   whether mounting may be slow and whether it may fail

\* What the cache of a drawing says of a reference.
ReferenceType ==
  [parent: Files, index: Nat, target: Files \cup {NoFile}, enabled: BOOLEAN, overlay: BOOLEAN]
Drawing ==
  [references: [Files -> Seq(ReferenceType)], clicks: Nat, hides: Nat,
   slow: BOOLEAN, faults: BOOLEAN]

\* A reference is known by the cache it is in and by its block there.
WellFormed(setting) ==
  \A file \in Files : LET all == setting.references[file]
    IN \A i, j \in DOMAIN all :
         all[i].parent = file /\ (all[i].index = all[j].index => i = j)

ASSUME ReferencesAssumption ==
  /\ Root \in Files /\ NoFile \notin Files
  /\ {Concurrency, MaxDepth, MaxReferences} \subseteq Nat \ {0}
  /\ Drawings \subseteq Drawing /\ \A setting \in Drawings : WellFormed(setting)

VARIABLES
  drawing,      \* the setting of this behaviour
  used,         \* how many clicks and hides have happened
  \* The controller.
  sources,      \* the caches it knows: their depth, ancestors, and whether they may nest
  references,   \* every PendingReference there has been: referenceCount is their number
  pending,      \* which of them it may be asked about, by reference
  linked,       \* what the search finds for a reference
  taskQueue, slots,        \* the tasks that wait and those that run
  prepareQueue, prepared,  \* slots that wait for a conversion; files converted
  \* The messages.
  toHost, toWebview,
  \* The webview.
  page,         \* "hidden", "loading", or "shown" once the drawing is open
  discovered,   \* the caches it has reported
  status,       \* what the panel shows of each reference
  disabled,     \* the references whose buttons were used since the panel was drawn
  mountQueue,   \* announced caches that wait to be mounted
  mounted       \* what is mounted: paths of references from the drawing down

messages == <<toHost, toWebview>>
panel    == <<discovered, status, disabled>>
webview  == <<page, panel, mountQueue, mounted>>
tasks    == <<taskQueue, slots>>
caches   == <<sources, prepareQueue, prepared>>
known    == <<references, pending>>
refVars  == <<drawing, used, caches, known, linked, tasks, messages, webview>>

-----------------------------------------------------------------------------
Refs(file) == {drawing.references[file][i] : i \in DOMAIN drawing.references[file]}
Slots      == 1 .. Concurrency
AllRefs    == UNION {Refs(file) : file \in Files}

Task(kind, ref, reference) ==
  [stage |-> kind, ref |-> ref, reference |-> reference, file |-> NoFile]
Idle == Task("idle", NoFile, 0)

Message(type, ref, file, says) == [type |-> type, ref |-> ref, file |-> file, says |-> says]
Status(ref, says)  == Message("status", ref, NoFile, says)
Click(kind, ref)   == Message(kind, ref, NoFile, "")

\* What the panel offers for a status, and the statuses something still has to follow.
Loadable   == {"saved"}
Selectable == {"saved", "missing", "error"}
Unsettled  == {"waiting", "searching"}

RefInit ==
  /\ drawing \in Drawings
  /\ used = [clicks |-> 0, hides |-> 0]
  /\ sources = [file \in {Root} |-> [depth |-> 0, ancestors |-> {Root}, nests |-> TRUE]]
  /\ references = <<>> /\ pending = [ref \in {} |-> 0]
  /\ linked = [ref \in AllRefs |-> ref.target]
  /\ taskQueue = <<>> /\ slots = [s \in Slots |-> Idle]
  /\ prepareQueue = <<>> /\ prepared = {}
  /\ toHost = <<>> /\ toWebview = <<>>
  /\ page = "loading" /\ discovered = {} /\ disabled = {}
  /\ status = [ref \in AllRefs |-> "none"]
  /\ mountQueue = <<>> /\ mounted = {}

-----------------------------------------------------------------------------
(* The controller: messages it receives. *)

\* postMessage(): what is posted to a hidden editor is dropped.
Post(posts) == toWebview' = IF page = "hidden" THEN toWebview ELSE toWebview \o posts

\* What a task does as soon as it has a slot, and what it says: postSavedState() leaves the
\* reference as the drawing says, resolveAndPrepare() starts to search, selectManually()
\* opens a dialog.
TooDeep(ref) == sources[ref.parent].depth >= MaxDepth
Begun(task) ==
  [task EXCEPT !.stage =
     CASE task.stage = "saved"  -> "ending"
       [] task.stage = "load"   -> IF TooDeep(task.ref) THEN "ending" ELSE "search"
       [] task.stage = "select" -> "dialog"]
Speaks(task) == task.stage # "select"
FirstWord(task) ==
  Status(task.ref, IF task.stage = "saved" THEN "saved"
                   ELSE IF TooDeep(task.ref) THEN "limit" ELSE "searching")

\* Which of some numbers one is, in their order.
Rank(numbers, n) == Cardinality({m \in numbers : m <= n})
Nth(numbers, k)  == CHOOSE n \in numbers : Rank(numbers, n) = k

\* drain(): free slots take the tasks that wait, in their order. What they say comes after
\* what is posted in the same turn.
Drain(running, waiting, posts) ==
  LET free     == {s \in Slots : running[s] = Idle}
      begun    == IF Len(waiting) < Cardinality(free) THEN Len(waiting) ELSE Cardinality(free)
      speaking == {i \in 1 .. begun : Speaks(waiting[i])}
  IN /\ slots' = [s \in Slots |->
          IF s \in free /\ Rank(free, s) <= begun THEN Begun(waiting[Rank(free, s)])
          ELSE running[s]]
     /\ taskQueue' = SubSeq(waiting, begun + 1, Len(waiting))
     /\ Post(posts \o [k \in 1 .. Cardinality(speaking) |->
                          FirstWord(waiting[Nth(speaking, k)])])

\* enqueueDiscovery(): references beyond the limit are refused, each of the others is
\* pending from now on and gets a task.
HandleDiscovery ==
  /\ toHost # <<>> /\ Head(toHost).type = "discovered"
  /\ toHost' = Tail(toHost)
  /\ LET file    == Head(toHost).file
         all     == drawing.references[file]
         count   == Len(references)
         room    == IF MaxReferences - count < Len(all) THEN MaxReferences - count ELSE Len(all)
         taken   == SubSeq(all, 1, room)
         refused == SubSeq(all, room + 1, Len(all))
         Index(ref) == CHOOSE i \in DOMAIN taken : taken[i] = ref
     IN IF file \in DOMAIN sources /\ sources[file].nests
        THEN /\ references' = references \o
                  [i \in DOMAIN taken |-> [ref |-> taken[i], failure |-> "none"]]
             /\ pending' = [ref \in DOMAIN pending \cup {taken[i] : i \in DOMAIN taken} |->
                  IF \E i \in DOMAIN taken : taken[i] = ref
                  THEN count + Index(ref) ELSE pending[ref]]
             /\ Drain(slots,
                  taskQueue \o [i \in DOMAIN taken |->
                    Task(IF taken[i].enabled THEN "load" ELSE "saved", taken[i], count + i)],
                  [i \in DOMAIN refused |-> Status(refused[i], "limit")])
        ELSE UNCHANGED <<known, tasks, toWebview>>
  /\ UNCHANGED <<drawing, used, linked, caches, webview>>

\* lastFailure of a reference.
Failed(reference, why) == references' = [references EXCEPT ![reference].failure = why]

\* enqueueLoad() and enqueueSelection(): nothing happens unless the reference is pending.
HandleClick ==
  /\ toHost # <<>> /\ Head(toHost).type \in {"load", "select"}
  /\ toHost' = Tail(toHost)
  /\ LET click == Head(toHost)
     IN IF click.ref \in DOMAIN pending
        THEN /\ Drain(slots,
                  Append(taskQueue, Task(click.type, click.ref, pending[click.ref])), <<>>)
             /\ IF click.type = "load"
                THEN Failed(pending[click.ref], "none") ELSE UNCHANGED references
        ELSE UNCHANGED <<tasks, references, toWebview>>
  /\ UNCHANGED <<drawing, used, pending, linked, caches, webview>>

\* What becomes of a slot: it goes on at a later stage, or its task ends and another one
\* may begin.
At(s, stage)   == slots[s].stage = stage
Goto(s, stage) == slots' = [slots EXCEPT ![s].stage = stage] /\ UNCHANGED taskQueue
With(slot, stage, file) == [slot EXCEPT !.stage = stage, !.file = file]
End(s, posts)  == Drain([slots EXCEPT ![s] = Idle], taskQueue, posts)

\* A waiter is told that nothing was mounted: an error the user may do something about.
ErrorOf(slot) == Status(slot.ref, "error")
Refuse(s) ==
  /\ Failed(slots[s].reference, "error")
  /\ Goto(s, "ending")
  /\ Post(<<ErrorOf(slots[s])>>)

\* Mutant: a reference is not pending any more, whatever became of its mounting.
MountedAnyhow ==
  /\ toHost # <<>> /\ Head(toHost).type = "mounted"
  /\ toHost' = Tail(toHost)
  /\ LET answer  == Head(toHost)
         waiting == {s \in Slots : /\ At(s, "mount")
                                   /\ slots[s].ref = answer.ref
                                   /\ slots[s].file = answer.file}
     IN IF waiting = {}
        THEN UNCHANGED <<tasks, known, toWebview>>
        ELSE LET s == CHOOSE s \in waiting : TRUE
             IN /\ pending' = [ref \in DOMAIN pending \ {answer.ref} |-> pending[ref]]
                /\ IF answer.says = "ready" THEN End(s, <<>>) /\ UNCHANGED references
                   ELSE Refuse(s)
  /\ UNCHANGED <<drawing, used, linked, caches, webview>>

\* handleMounted(): whoever waits for this mounting now is answered.
HandleMounted ==
  /\ toHost # <<>> /\ Head(toHost).type = "mounted"
  /\ toHost' = Tail(toHost)
  /\ LET answer  == Head(toHost)
         waiting == {s \in Slots : /\ At(s, "mount")
                                   /\ slots[s].ref = answer.ref
                                   /\ slots[s].file = answer.file}
     IN IF waiting = {}
        THEN UNCHANGED <<tasks, known, toWebview>>
        ELSE LET s == CHOOSE s \in waiting : TRUE
             IN IF answer.says = "ready"
                THEN /\ pending' = [ref \in DOMAIN pending \ {answer.ref} |-> pending[ref]]
                     /\ End(s, <<>>)
                     /\ UNCHANGED references
                ELSE Refuse(s) /\ UNCHANGED pending
  /\ UNCHANGED <<drawing, used, linked, caches, webview>>

-----------------------------------------------------------------------------
(* The controller: its tasks. *)

\* A task that has said its last word.
TaskEnds(s) ==
  /\ At(s, "ending")
  /\ End(s, <<>>)
  /\ UNCHANGED <<drawing, used, known, linked, caches, toHost, webview>>

\* The file is linked for this reference, or for all that are stored with its name.
LinkFile(s, file) ==
  /\ At(s, "dialog")
  /\ LET ref == slots[s].ref
     IN \E scope \in {{ref}, {other \in AllRefs : other.target = ref.target}} :
          linked' = [other \in AllRefs |-> IF other \in scope THEN file ELSE linked[other]]
  /\ LET task == [slots[s] EXCEPT !.stage = "load"]
     IN slots' = [slots EXCEPT ![s] = Begun(task)] /\ Post(<<FirstWord(task)>>)
  /\ UNCHANGED <<drawing, used, known, taskQueue, caches, toHost, webview>>

\* restoreManualSelection(): what was shown before the dialog is shown again.
CancelDialog(s) ==
  /\ At(s, "dialog")
  /\ LET failure == references[slots[s].reference].failure
         ref     == slots[s].ref
     IN End(s, <<Status(ref, IF failure # "none" THEN failure
                             ELSE IF ref.enabled THEN "missing" ELSE "saved")>>)
  /\ UNCHANGED <<drawing, used, known, linked, caches, toHost, webview>>

\* postAndWaitForMount(): the source is registered the first time it is met, whoever
\* waits for the same mounting is refused, and the cache is announced. A hidden editor is
\* not told, which is an error as well.
Announce(s, file) ==
  LET ref     == slots[s].ref
      parent  == sources[ref.parent]
      others  == {t \in Slots \ {s} : At(t, "mount") /\ slots[t].ref = ref /\ slots[t].file = file}
      refused == IF page = "hidden" THEN others \cup {s} ELSE others
  IN /\ sources' =
          IF file \in DOMAIN sources THEN sources
          ELSE [f \in DOMAIN sources \cup {file} |->
                  IF f = file THEN [depth |-> parent.depth + 1,
                                    ancestors |-> parent.ancestors \cup {file},
                                    nests |-> ~ref.overlay]
                  ELSE sources[f]]
     /\ slots' = [t \in Slots |->
          IF t \in refused THEN [slots[t] EXCEPT !.stage = "ending"]
          ELSE IF t = s THEN With(slots[s], "mount", file)
          ELSE slots[t]]
     /\ references' = [i \in DOMAIN references |->
          IF \E t \in refused : slots[t].reference = i
          THEN [references[i] EXCEPT !.failure = "error"] ELSE references[i]]
     /\ Post(<<Message("ready", ref, file, "")>> \o SetToSeq({ErrorOf(slots[t]) : t \in others}))
     /\ UNCHANGED taskQueue

\* The search has ended: nothing is found, a cycle, a file that has been converted, or
\* one that has to be.
Found(s) ==
  /\ At(s, "search")
  /\ LET ref   == slots[s].ref
         file  == linked[ref]
         cycle == file \in sources[ref.parent].ancestors
     IN \/ /\ file = NoFile
           /\ Failed(slots[s].reference, "missing")
           /\ End(s, <<Status(ref, "missing")>>)
           /\ UNCHANGED <<sources, prepareQueue>>
        \/ /\ cycle
           /\ End(s, <<Status(ref, "cycle")>>)
           /\ UNCHANGED <<sources, prepareQueue, references>>
        \/ /\ file # NoFile /\ ~cycle /\ file \in prepared
           /\ Announce(s, file)
           /\ UNCHANGED prepareQueue
        \/ /\ file # NoFile /\ ~cycle /\ file \notin prepared
           /\ prepareQueue' = Append(prepareQueue, s)
           /\ slots' = [slots EXCEPT ![s] = With(slots[s], "prepare", file)]
           /\ UNCHANGED <<sources, toWebview, references, taskQueue>>
  /\ UNCHANGED <<drawing, used, pending, linked, prepared, toHost, webview>>

\* Mutant: whether the file has been converted is only looked at before the queue.
PrepareAnyway(s) ==
  /\ At(s, "prepare") /\ Head(prepareQueue) = s
  /\ Goto(s, "convert")
  /\ UNCHANGED <<drawing, used, known, linked, caches, toHost, toWebview, webview>>

\* prepareSource(): the turn of this slot has come. Another may have converted the file.
BeginPreparing(s) ==
  /\ At(s, "prepare") /\ Head(prepareQueue) = s
  /\ IF slots[s].file \in prepared
     THEN Announce(s, slots[s].file) /\ prepareQueue' = Tail(prepareQueue)
     ELSE Goto(s, "convert") /\ UNCHANGED <<sources, references, toWebview, prepareQueue>>
  /\ UNCHANGED <<drawing, used, pending, linked, prepared, toHost, webview>>

Converted(s) ==
  /\ At(s, "convert")
  /\ prepared' = prepared \cup {slots[s].file}
  /\ Announce(s, slots[s].file)
  /\ prepareQueue' = Tail(prepareQueue)
  /\ UNCHANGED <<drawing, used, pending, linked, toHost, webview>>

\* Mutant: a conversion that fails keeps the queue of conversions.
FailsInQueue(s) ==
  /\ At(s, "convert") /\ drawing.faults
  /\ Refuse(s)
  /\ UNCHANGED <<drawing, used, pending, linked, caches, toHost, webview>>

ConversionFails(s) ==
  /\ At(s, "convert") /\ drawing.faults
  /\ prepareQueue' = Tail(prepareQueue)
  /\ Refuse(s)
  /\ UNCHANGED <<drawing, used, pending, linked, sources, prepared, toHost, webview>>

\* The answer to a slot is still to come.
Underway(s) ==
  LET Answers(m) == m.ref = slots[s].ref /\ m.file = slots[s].file
  IN \/ \E i \in DOMAIN toWebview : toWebview[i].type = "ready" /\ Answers(toWebview[i])
     \/ \E i \in DOMAIN mountQueue : Answers(mountQueue[i])
     \/ \E i \in DOMAIN toHost : toHost[i].type = "mounted" /\ Answers(toHost[i])

\* The thirty seconds are over: no answer is to come, or it is slow.
MountTimeout(s) ==
  /\ At(s, "mount")
  /\ drawing.slow \/ ~Underway(s)
  /\ Refuse(s)
  /\ UNCHANGED <<drawing, used, pending, linked, caches, toHost, webview>>

-----------------------------------------------------------------------------
(* The webview. *)

\* discoverExternalReferences(): once for each cache. `said` is what the panel shows.
Discover(file, said) ==
  /\ discovered' = discovered \cup {file}
  /\ status' = IF file \in discovered THEN said
               ELSE [ref \in AllRefs |->
                       IF ref \notin Refs(file) \/ said[ref] # "none" THEN said[ref]
                       ELSE IF ref.enabled THEN "waiting" ELSE "saved"]

Discovery(file) ==
  IF file \in discovered \/ Refs(file) = {} THEN <<>>
  ELSE <<[type |-> "discovered", ref |-> NoFile, file |-> file, says |-> ""]>>

\* openCache() has shown the drawing: what was known of references is forgotten.
OpenDrawing ==
  /\ page = "loading"
  /\ page' = "shown"
  /\ mountQueue' = <<>>
  /\ Discover(Root, status)
  /\ toHost' = toHost \o Discovery(Root)
  /\ UNCHANGED <<drawing, used, caches, known, linked, tasks, toWebview, disabled, mounted>>

\* handleXrefStatus(): only of a reference the panel has. It is drawn anew.
ReceiveStatus ==
  /\ page # "hidden" /\ toWebview # <<>> /\ Head(toWebview).type = "status"
  /\ LET message == Head(toWebview)
     IN IF status[message.ref] = "none" THEN UNCHANGED <<status, disabled>>
        ELSE /\ status' = [status EXCEPT ![message.ref] = message.says]
             /\ disabled' = {}
  /\ toWebview' = Tail(toWebview)
  /\ UNCHANGED <<drawing, used, caches, known, linked, tasks, toHost, page, discovered,
                 mountQueue, mounted>>

\* enqueueExternalCacheReady(): caches are mounted one after the other.
ReceiveReady ==
  /\ page # "hidden" /\ toWebview # <<>> /\ Head(toWebview).type = "ready"
  /\ mountQueue' = Append(mountQueue, Head(toWebview))
  /\ toWebview' = Tail(toWebview)
  /\ UNCHANGED <<drawing, used, caches, known, linked, tasks, toHost, page, panel, mounted>>

\* externalParentContexts(): where a cache is mounted.
Places(file) ==
  IF file = Root THEN {<<>>} ELSE {path \in mounted : path[Len(path)].file = file}
PlacesNow(file) == IF page = "shown" THEN Places(file) ELSE {}

\* Mutant: the references of overlays are reported as well.
ReportsAll(ref) == TRUE

\* An overlay brings no references of its own.
ReportsOwn(ref) == ~ref.overlay

\* handleExternalCacheReady(): the cache is mounted wherever its parent is now, and its
\* own references are reported. Without a place nothing is done, and that is a success.
Mount ==
  /\ page # "hidden" /\ mountQueue # <<>>
  /\ LET ready == Head(mountQueue)
         ref   == ready.ref
         mount == [ref |-> ref, file |-> ready.file]
         done  == Message("mounted", ref, ready.file, "ready")
     IN IF PlacesNow(ref.parent) = {}
        THEN toHost' = Append(toHost, done) /\ UNCHANGED <<panel, mounted>>
        ELSE /\ mounted' = mounted \cup {Append(place, mount) : place \in Places(ref.parent)}
             /\ LET said == IF status[ref] = "none" THEN status
                            ELSE [status EXCEPT ![ref] = "ready"]
                IN IF ReportsOwn(ref)
                   THEN /\ Discover(ready.file, said)
                        /\ toHost' = toHost \o Append(Discovery(ready.file), done)
                   ELSE /\ status' = said /\ UNCHANGED discovered
                        /\ toHost' = Append(toHost, done)
             /\ disabled' = {}
  /\ mountQueue' = Tail(mountQueue)
  /\ UNCHANGED <<drawing, used, caches, known, linked, tasks, toWebview, page>>

\* It throws: the panel says so and offers nothing, until the controller has been told.
MountThrows ==
  /\ drawing.faults /\ page = "shown" /\ mountQueue # <<>>
  /\ LET ready == Head(mountQueue)
     IN /\ Places(ready.ref.parent) # {}
        /\ status' = IF status[ready.ref] = "none" THEN status
                     ELSE [status EXCEPT ![ready.ref] = "failed"]
        /\ toHost' = Append(toHost, Message("mounted", ready.ref, ready.file, "error"))
  /\ disabled' = {}
  /\ mountQueue' = Tail(mountQueue)
  /\ UNCHANGED <<drawing, used, caches, known, linked, tasks, toWebview, page, discovered,
                 mounted>>

\* The buttons of the panel. Both of a reference are disabled until it is drawn anew.
Offers(kind) == IF kind = "load" THEN Loadable ELSE Selectable

UseButton(kind, ref) ==
  /\ used.clicks < drawing.clicks
  /\ page = "shown" /\ status[ref] \in Offers(kind) /\ ref \notin disabled
  /\ used' = [used EXCEPT !.clicks = @ + 1]
  /\ disabled' = disabled \cup {ref}
  /\ toHost' = Append(toHost, Click(kind, ref))
  /\ UNCHANGED <<drawing, caches, known, linked, tasks, toWebview, page, discovered, status,
                 mountQueue, mounted>>

\* The editor is hidden, which destroys its page, and shown again.
Hide ==
  /\ page # "hidden" /\ used.hides < drawing.hides
  /\ used' = [used EXCEPT !.hides = @ + 1]
  /\ page' = "hidden" /\ toWebview' = <<>>
  /\ discovered' = {} /\ disabled' = {} /\ mountQueue' = <<>> /\ mounted' = {}
  /\ status' = [ref \in AllRefs |-> "none"]
  /\ UNCHANGED <<drawing, caches, known, linked, tasks, toHost>>

Show ==
  /\ page = "hidden"
  /\ page' = "loading"
  /\ UNCHANGED <<drawing, used, caches, known, linked, tasks, messages, panel,
                 mountQueue, mounted>>

-----------------------------------------------------------------------------
RefNext ==
  \/ HandleDiscovery \/ HandleClick \/ HandleMounted
  \/ \E s \in Slots : TaskEnds(s)
  \/ \E s \in Slots : Found(s)
  \/ \E s \in Slots : BeginPreparing(s)
  \/ \E s \in Slots : Converted(s)
  \/ \E s \in Slots : ConversionFails(s)
  \/ \E s \in Slots : MountTimeout(s)
  \/ \E s \in Slots, file \in Files : LinkFile(s, file)
  \/ \E s \in Slots : CancelDialog(s)
  \/ OpenDrawing \/ ReceiveStatus \/ ReceiveReady \/ Mount \/ MountThrows
  \/ \E kind \in {"load", "select"}, ref \in AllRefs : UseButton(kind, ref)
  \/ Hide \/ Show

RefSpec == RefInit /\ [][RefNext]_refVars

\* Messages are handled, searches and conversions end and the timer fires. Nothing makes
\* the user close a dialog, or show an editor again.
SlotStep(s) ==
  \/ TaskEnds(s) \/ Found(s) \/ BeginPreparing(s) \/ Converted(s)
  \/ ConversionFails(s) \/ MountTimeout(s)
RefFairness ==
  /\ WF_refVars(HandleDiscovery \/ HandleClick \/ HandleMounted)
  /\ WF_refVars(ReceiveStatus \/ ReceiveReady)
  /\ WF_refVars(Mount \/ MountThrows)
  /\ \A s \in Slots : WF_refVars(SlotStep(s))
RefFairSpec == RefSpec /\ RefFairness

-----------------------------------------------------------------------------
(* Properties. *)

MessageTypes == {"discovered", "load", "select", "mounted", "status", "ready"}
Stages == {"idle", "ending", "search", "prepare", "convert", "mount", "dialog"}

\* Every variable has the values it is described with; a slot that waits for a conversion
\* is in the queue, and whoever is in the queue waits or converts.
TypeOK ==
  /\ drawing \in Drawings
  /\ \A i \in DOMAIN references :
       /\ references[i].ref \in AllRefs
       /\ references[i].failure \in {"none", "missing", "error"}
  /\ DOMAIN sources \subseteq Files /\ prepared \subseteq Files
  /\ DOMAIN pending \subseteq AllRefs
  /\ \A ref \in DOMAIN pending :
       pending[ref] \in DOMAIN references /\ references[pending[ref]].ref = ref
  /\ linked \in [AllRefs -> Files \cup {NoFile}]
  /\ \A i \in DOMAIN taskQueue : taskQueue[i].reference \in DOMAIN references
  /\ \A s \in Slots : slots[s].stage \in Stages
  /\ {prepareQueue[i] : i \in DOMAIN prepareQueue} =
       {s \in Slots : slots[s].stage \in {"prepare", "convert"}}
  /\ \A i \in DOMAIN toHost : toHost[i].type \in MessageTypes
  /\ \A i \in DOMAIN toWebview : toWebview[i].type \in {"status", "ready"}
  /\ page \in {"hidden", "loading", "shown"}
  /\ discovered \subseteq Files /\ disabled \subseteq AllRefs
  /\ \A path \in mounted : path[1].ref.parent = Root

AtRest ==
  /\ page = "shown" /\ toHost = <<>> /\ toWebview = <<>> /\ mountQueue = <<>>
  /\ \A s \in Slots : slots[s] = Idle

IsMounted(ref) == \E path \in mounted : path[Len(path)].ref = ref

\* Once nothing is underway any more the panel tells the truth: a reference is shown as
\* ready if and only if it is mounted, and a button that is offered has its reference
\* pending in the controller, so that using it does something. Loads of one reference that
\* overlap (by a second click, a page that is loaded anew, or a mounting that takes longer
\* than the timer) settle each other's waiters, and the references of a file that is reached
\* as an overlay first and attached later are not listened to: see the README.
Calm       == drawing.hides = 0 /\ ~drawing.slow /\ drawing.clicks <= 1
ListenedTo == {file \in DOMAIN sources : sources[file].nests}
PanelAgrees ==
  Calm /\ discovered \subseteq ListenedTo /\ AtRest =>
    \A ref \in AllRefs :
      /\ (status[ref] = "ready") <=> IsMounted(ref)
      /\ status[ref] \in Loadable \cup Selectable => ref \in DOMAIN pending

\* Converters are the expensive part: only one runs at a time, and none for a file that
\* another reference has had converted meanwhile.
ConvertsOnce ==
  \A s \in Slots : At(s, "convert") =>
    /\ slots[s].file \notin prepared
    /\ \A t \in Slots \ {s} : ~At(t, "convert")

\* As long as the page is there, every reference gets an answer: whatever fails, times out,
\* is found twice, lies too deep or closes a circle, none is left waiting or searching,
\* unless open dialogs hold all slots. (The references of a file that is reached as an
\* overlay first and attached later are left waiting: see the README.)
AllInDialogs == \A s \in Slots : At(s, "dialog")
SameKind ==
  \A ref, other \in AllRefs : linked[ref] = linked[other] => ref.overlay = other.overlay
ReferencesSettle ==
  []<>(page = "shown" /\ SameKind =>
         AllInDialogs \/ \A ref \in AllRefs : status[ref] \notin Unsettled)
=============================================================================
