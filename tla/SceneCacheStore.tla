-------------------------- MODULE SceneCacheStore --------------------------
(***************************************************************************)
(* SceneCacheManager (vscode-extension/src/scene-cache-manager.ts): what    *)
(* several managers, in the extension hosts of several VS Code windows, do  *)
(* to the one cache directory they share.                                  *)
(*                                                                         *)
(* A place is a directory below the cache root: generations/<digest> for    *)
(* the managers in persistent mode that use one engine revision, and       *)
(* sessions/<id> for one manager in session mode.  Every file system call   *)
(* is atomic and every await between two of them is a cut.  There is one    *)
(* drawing, and a cache ID is a version of it; older versions make the      *)
(* other cache IDs of the place.  A manager prepares one cache at a time,   *)
(* as its callers do.  Legacy names, stale temporary files and the change   *)
(* of an engine under a manager are left out.                              *)
(*                                                                         *)
(* What the code tries and does not insist on may fail in part: a removal, *)
(* the times of a file, the question whether a lease is fresh.  The        *)
(* operators under "The disk" say how.                                     *)
(***************************************************************************)
EXTENDS Integers, Sequences, FiniteSets, SequencesExt, FiniteSetsExt

CONSTANTS
    Managers, Processes, Generations,
    Settings,        \* whose managers they are, and how they are configured
    MaxVersion,      \* bound: versions of the drawing
    MaximumBytes,    \* maximumPersistentBytes; a file is one byte
    MaxPrepares,     \* bound: preparations of a manager
    MaxEntries,      \* MAX_STORAGE_ENTRIES: what a listing of a directory has
    Left,            \* the caches earlier windows left in every generation
    NoPlace

Versions == 1..MaxVersion
Places == Managers \cup Generations
File == [kind: {"cache", "preview"}, id: Versions, holds: Versions]

\* A directory holds no two files of one name.
FilesApart(files) ==
    \A i, j \in DOMAIN files :
        files[i].kind = files[j].kind /\ files[i].id = files[j].id => i = j

\* Calls of the file system that may fail: "call", and what it is for fails with
\* it; "ignored", and the code goes on.
Faults == {"call", "ignored"}

\* The extension host of a manager, the generation of the engine it uses, the
\* managers in persistent mode, the processes that may crash, and the faults.
Setting ==
    [processOf: [Managers -> Processes], generationOf: [Managers -> Generations],
     persistent: SUBSET Managers, crashes: SUBSET Processes, faults: SUBSET Faults]

ASSUME StoreAssumption ==
    /\ Settings \subseteq Setting
    /\ Managers \cap Generations = {} /\ NoPlace \notin Places
    /\ MaxVersion \in Nat \ {0} /\ MaximumBytes \in Nat /\ MaxPrepares \in Nat
    /\ MaxEntries \in Nat \ {0}
    /\ Left \in Seq(File) /\ FilesApart(Left)
    /\ \A i \in DOMAIN Left : Left[i].id = Left[i].holds

VARIABLES
    setting,
    source,          \* the version of the drawing on disk
    disk,            \* the places
    alive,           \* the processes that run
    expired,         \* managers of dead processes whose lease is 5 minutes old
    chain,           \* storageMaintenance of each process
    at,              \* where each manager is
    prepares,        \* preparations it has begun
    version, parsed, \* the version it saw first, and the one it converted
    storage,         \* its entry in storageRoots
    disposed,
    todo, doomed,    \* places its sweep has listed; the one it will remove
    victims,         \* cache IDs its eviction has chosen, oldest first
    readers,         \* the caches its caller has open: [by, id]
    spared           \* history: the places it should have seen to or removed,
                     \* and did not.  No action depends on it.

managerVars == <<at, prepares, version, parsed, storage, disposed, todo,
                 doomed, victims, spared>>
storeVars == <<source, disk, alive, expired, chain, managerVars, readers>>
vars == <<setting, storeVars>>

ProcessOf == setting.processOf
GenerationOf == setting.generationOf
Persistent == setting.persistent
MayFail(fault) == fault \in setting.faults

\* files are in the order of their modification times, oldest first.
\* temps are the managers whose converter writes to a temporary file there.
PlaceType == [there: BOOLEAN, leases: SUBSET Managers, files: Seq(File),
              temps: SUBSET Managers]

Nothing == [there |-> FALSE, leases |-> {}, files |-> << >>, temps |-> {}]

Maintaining == {"sessions", "generations", "check", "list", "evict"}

\* "parse" converts with a preview, "parseOnly" without.  "prepared": the
\* promise is fulfilled, and the caller has not used the path yet.
Stages == Maintaining \cup
    {"idle", "stat", "sessionLease", "sessionPlace", "queued", "lease", "lookup",
     "parse", "parseOnly", "parsed", "preview", "recheck", "rename", "reread",
     "prepared", "removeRoot", "gone"}

TypeOK ==
    /\ setting \in Settings
    /\ source \in Versions
    /\ disk \in [Places -> PlaceType]
    /\ alive \subseteq Processes /\ expired \subseteq Managers
    /\ chain \in [Processes -> Seq(Managers)]
    /\ at \in [Managers -> Stages]
    /\ prepares \in [Managers -> 0..MaxPrepares]
    /\ version \in [Managers -> Versions] /\ parsed \in [Managers -> Versions]
    /\ storage \in [Managers -> {"none", "making", "ready", "failed"}]
    /\ disposed \in [Managers -> BOOLEAN]
    /\ todo \in [Managers -> SUBSET Places]
    /\ doomed \in [Managers -> Places \cup {NoPlace}]
    /\ victims \in [Managers -> Seq(Versions)]
    /\ readers \subseteq [by: Managers, id: Versions]
    /\ spared \in [Managers -> SUBSET Places]

Init ==
    /\ setting \in Settings
    /\ source = 1
    /\ disk = [d \in Places |->
                 IF d \in Generations /\ Left # << >>
                 THEN [Nothing EXCEPT !.there = TRUE, !.files = Left] ELSE Nothing]
    /\ alive = Processes /\ expired = {}
    /\ chain = [p \in Processes |-> << >>]
    /\ at = [m \in Managers |-> "idle"]
    /\ prepares = [m \in Managers |-> 0]
    /\ version = [m \in Managers |-> 1] /\ parsed = [m \in Managers |-> 1]
    /\ storage = [m \in Managers |-> "none"]
    /\ disposed = [m \in Managers |-> FALSE]
    /\ todo = [m \in Managers |-> {}]
    /\ doomed = [m \in Managers |-> NoPlace]
    /\ victims = [m \in Managers |-> << >>]
    /\ readers = {}
    /\ spared = [m \in Managers |-> {}]

-----------------------------------------------------------------------------
(* The disk.                                                               *)

Home(m) == IF m \in Persistent THEN GenerationOf[m] ELSE m
Alive(m) == ProcessOf[m] \in alive

\* Mutant: every lease that exists counts.
FreshWhenPresent(m) == TRUE

\* What isFreshLease() has to find out: the lease is young, or its process runs.
Fresh(m) == Alive(m) \/ m \notin expired

FreshLeases(d) == {m \in disk[d].leases : Fresh(m)}

\* What isFreshLease() takes for fresh: also a lease it cannot read, or whose
\* process ID another process has now.
TakenForFresh(leases) ==
    LET truly == {m \in leases : Fresh(m)} IN
    IF MayFail("ignored") THEN {truly \cup more : more \in SUBSET leases} ELSE {truly}

\* Things are tried one by one, and failures are ignored: what is done.
Done(things) == IF MayFail("ignored") THEN SUBSET things ELSE {things}

\* What boundedDirectoryEntries() may read of a directory: all, or as many
\* entries as it takes.
Listings(entries) ==
    IF Cardinality(entries) <= MaxEntries THEN {entries}
    ELSE {some \in SUBSET entries : Cardinality(some) = MaxEntries}

\* The sequence without some of its elements: AllSubSeqs() without a fold.
Parts(files) ==
    UNION {{[i \in 1..n |-> files[kept[i]]] :
               kept \in {k \in [1..n -> DOMAIN files] :
                           \A i, j \in 1..n : i < j => k[i] < k[j]}} :
           n \in 0..Len(files)}

\* What may be left of a place when its removal fails on the way.
Remnants(place) ==
    [there: {TRUE}, leases: SUBSET place.leases, files: Parts(place.files),
     temps: SUBSET place.temps]

Occurs(files, kind, id) ==
    \E i \in DOMAIN files : files[i].kind = kind /\ files[i].id = id

Position(files, kind, id) ==
    CHOOSE i \in DOMAIN files : files[i].kind = kind /\ files[i].id = id

\* rm() of a file that may not be there.
Without(files, kind, id) ==
    IF Occurs(files, kind, id) THEN RemoveAt(files, Position(files, kind, id))
    ELSE files
\* The same for what there is of a cache.
WithoutCache(files, kinds, id) ==
    LET rest == IF "cache" \in kinds THEN Without(files, "cache", id) ELSE files IN
    IF "preview" \in kinds THEN Without(rest, "preview", id) ELSE rest

Stored(files, f) == Append(Without(files, f.kind, f.id), f)

\* markPersistentUse()
Touched(files, kind, id) ==
    IF Occurs(files, kind, id)
    THEN Stored(files, files[Position(files, kind, id)]) ELSE files

\* The last modification time of a cache and its preview together.
LastUse(files, id) == Max({i \in DOMAIN files : files[i].id = id})

\* What eviction, oldest first, has to remove to get within the bound: a
\* cache goes when it and all that was used later do not fit.
Victims(files) ==
    {id \in {f.id : f \in ToSet(files)} :
        Cardinality({i \in DOMAIN files :
            LastUse(files, files[i].id) >= LastUse(files, id)}) > MaximumBytes}

\* Some cache IDs of the directory, in the order of their last use.
UseRank(files, ids, id) ==
    Cardinality({other \in ids : LastUse(files, other) <= LastUse(files, id)})
OldestFirst(files, ids) ==
    [i \in 1..Cardinality(ids) |-> CHOOSE id \in ids : UseRank(files, ids, id) = i]

-----------------------------------------------------------------------------
(* Steps of a manager.                                                     *)

\* The manager is at this stage, and in a process that runs.
In(m, stage) == at[m] = stage /\ Alive(m)

Go(m, stage) == at' = [at EXCEPT ![m] = stage]

\* A place as it is from now on.
Here(m) == disk[Home(m)]
Put(d, place) == disk' = [disk EXCEPT ![d] = place]

Own(m, files) == Put(Home(m), [Here(m) EXCEPT !.files = files])
Temporary(m, managers) == Put(Home(m), [Here(m) EXCEPT !.temps = managers])
Leases(d, managers) == Put(d, [disk[d] EXCEPT !.leases = managers])

\* Places of its sweep, or its own, that stay as they are.
Spare(m, places) == spared' = [spared EXCEPT ![m] = @ \cup places]

\* rm() of a whole place by the manager, which ignores that it fails.
RemoveAll(m, d) ==
    \/ Put(d, Nothing) /\ UNCHANGED spared
    \/ /\ MayFail("ignored") /\ disk[d].there
       /\ \E remnant \in Remnants(disk[d]) : Put(d, remnant)
       /\ Spare(m, {d})

Prepare(m) ==
    /\ In(m, "idle") /\ ~disposed[m] /\ prepares[m] < MaxPrepares
    /\ prepares' = [prepares EXCEPT ![m] = @ + 1]
    /\ Go(m, "stat")
    /\ UNCHANGED <<setting, source, disk, alive, expired, chain, version, parsed,
                   storage, disposed, todo, doomed, victims, readers, spared>>

\* stat() of the drawing, then prepareStorage(): a storage that was once
\* prepared, or failed to be, is not prepared again.
Stat(m) ==
    /\ In(m, "stat")
    /\ version' = [version EXCEPT ![m] = source]
    /\ CASE storage[m] = "ready" ->
              Go(m, "lookup") /\ UNCHANGED <<disk, storage, chain>>
         [] storage[m] = "failed" ->
              Go(m, "idle") /\ UNCHANGED <<disk, storage, chain>>
         [] OTHER ->
              /\ storage' = [storage EXCEPT ![m] = "making"]
              /\ Put(Home(m), [Here(m) EXCEPT !.there = TRUE])
              /\ IF m \in Persistent
                 THEN /\ Go(m, "queued")
                      /\ chain' = [chain EXCEPT ![ProcessOf[m]] = Append(@, m)]
                 ELSE Go(m, "sessionLease") /\ UNCHANGED chain
    /\ UNCHANGED <<setting, source, alive, expired, prepares, parsed, disposed,
                   todo, doomed, victims, readers, spared>>

\* Mutant: the manager goes on to what its storage is, and the reverse.
TakeLeaseSwapped(m, next) ==
    \/ /\ Here(m).there
       /\ Leases(Home(m), Here(m).leases \cup {m})
       /\ storage' = [storage EXCEPT ![m] = next[2]]
       /\ Go(m, next[1])
    \/ /\ ~Here(m).there \/ MayFail("call")
       /\ storage' = [storage EXCEPT ![m] = "failed"]
       /\ Go(m, "idle")
       /\ UNCHANGED disk

\* createLease() in the place, which must exist: what becomes of the storage,
\* and the next stage.  A lease that cannot be written fails the storage.
TakeLease(m, next) ==
    \/ /\ Here(m).there
       /\ Leases(Home(m), Here(m).leases \cup {m})
       /\ storage' = [storage EXCEPT ![m] = next[1]]
       /\ Go(m, next[2])
    \/ /\ ~Here(m).there \/ MayFail("call")
       /\ storage' = [storage EXCEPT ![m] = "failed"]
       /\ Go(m, "idle")
       /\ UNCHANGED disk

\* ensureSessionRoot()
SessionLease(m) ==
    /\ In(m, "sessionLease")
    /\ TakeLease(m, <<"making", "sessionPlace">>)
    /\ UNCHANGED <<setting, source, alive, expired, chain, prepares, version,
                   parsed, disposed, todo, doomed, victims, readers, spared>>

\* mkdir() of the generation below it, with whatever is missing above.
SessionPlace(m) ==
    /\ In(m, "sessionPlace")
    /\ Put(m, [disk[m] EXCEPT !.there = TRUE])
    /\ chain' = [chain EXCEPT ![ProcessOf[m]] = Append(@, m)]
    /\ Go(m, "queued")
    /\ UNCHANGED <<setting, source, alive, expired, prepares, version, parsed,
                   storage, disposed, todo, doomed, victims, readers, spared>>

-----------------------------------------------------------------------------
(* Maintenance.  A manager that is disposed only looks at its own place.   *)

Leave(m) == chain' = [chain EXCEPT ![ProcessOf[m]] = Tail(@)]

\* What there is of these places, but the own one.
List(m, places) ==
    LET there == {d \in places : disk[d].there} IN
    \E listed \in Listings(there) :
        /\ todo' = [todo EXCEPT ![m] = listed \ {Home(m)}]
        /\ Spare(m, there \ (listed \cup {Home(m)}))

BeginMaintenance(m) ==
    /\ In(m, "queued") /\ Head(chain[ProcessOf[m]]) = m
    /\ IF storage[m] = "ready"
       THEN Go(m, "check") /\ UNCHANGED <<todo, spared>>
       ELSE Go(m, "sessions") /\ List(m, Managers)
    /\ UNCHANGED <<setting, source, disk, alive, expired, chain, prepares,
                   version, parsed, storage, disposed, doomed, victims,
                   readers>>

\* Is there a fresh lease in the place?  hasFreshGenerationLease() also
\* removes those it lists that are not.
FindsFresh(d, found) ==
    IF d \in Generations
    THEN \E listed \in Listings(disk[d].leases) :
         \E fresh \in TakenForFresh(listed) :
            /\ found = (fresh # {})
            /\ \E gone \in Done(listed \ fresh) : Leases(d, disk[d].leases \ gone)
    ELSE /\ \E fresh \in TakenForFresh(disk[d].leases) : found = (fresh # {})
         /\ UNCHANGED disk

\* One entry of the listing stays, or will go.
Inspect(m, d) ==
    /\ at[m] \in {"sessions", "generations"} /\ Alive(m)
    /\ doomed[m] = NoPlace /\ d \in todo[m]
    /\ \/ /\ FindsFresh(d, TRUE)
          /\ todo' = [todo EXCEPT ![m] = @ \ {d}]
          /\ Spare(m, IF FreshLeases(d) = {} THEN {d} ELSE {})
          /\ UNCHANGED doomed
       \/ /\ FindsFresh(d, FALSE)
          /\ doomed' = [doomed EXCEPT ![m] = d]
          /\ UNCHANGED <<todo, spared>>
    /\ UNCHANGED <<setting, source, alive, expired, chain, at, prepares,
                   version, parsed, storage, disposed, victims, readers>>

\* It goes later.
RemovePlace(m) ==
    /\ at[m] \in {"sessions", "generations"} /\ Alive(m) /\ doomed[m] # NoPlace
    /\ RemoveAll(m, doomed[m])
    /\ todo' = [todo EXCEPT ![m] = @ \ {doomed[m]}]
    /\ doomed' = [doomed EXCEPT ![m] = NoPlace]
    /\ UNCHANGED <<setting, source, alive, expired, chain, at, prepares,
                   version, parsed, storage, disposed, victims, readers>>

NextSweep(m) ==
    /\ at[m] \in {"sessions", "generations"} /\ Alive(m) /\ todo[m] = {}
    /\ CASE at[m] = "sessions" ->
              /\ Go(m, "generations")
              /\ List(m, Generations)
              /\ UNCHANGED <<storage, chain>>
         [] m \in Persistent ->
              Go(m, "check") /\ UNCHANGED <<todo, spared, storage, chain>>
         [] OTHER ->
              /\ Go(m, "lookup") /\ Leave(m)
              /\ storage' = [storage EXCEPT ![m] = "ready"]
              /\ UNCHANGED <<todo, spared>>
    /\ UNCHANGED <<setting, source, disk, alive, expired, prepares, version,
                   parsed, disposed, doomed, victims, readers>>

\* After the manager's own place: createLease(), or the end of dispose().
AfterMaintenance(m) == Go(m, IF storage[m] = "ready" THEN "gone" ELSE "lease")

\* May the own place be pruned?
CheckOwn(m) ==
    /\ In(m, "check")
    /\ \/ FindsFresh(Home(m), TRUE) /\ AfterMaintenance(m) /\ Leave(m)
       \/ FindsFresh(Home(m), FALSE) /\ Go(m, "list") /\ UNCHANGED chain
    /\ UNCHANGED <<setting, source, alive, expired, prepares, version, parsed,
                   storage, disposed, todo, doomed, victims, readers, spared>>

\* prunePersistentGeneration() reads the directory and the file times.
ListOwn(m) ==
    LET files == Here(m).files IN
    /\ In(m, "list")
    /\ \E listed \in Listings(ToSet(files) \cup Here(m).temps), seen \in Parts(files) :
          /\ ToSet(seen) \in Done(ToSet(files) \cap listed)
          /\ victims' = [victims EXCEPT ![m] = OldestFirst(seen, Victims(seen))]
          /\ Spare(m, IF seen = files THEN {} ELSE {Home(m)})
    /\ Go(m, "evict")
    /\ UNCHANGED <<setting, source, disk, alive, expired, chain, prepares,
                   version, parsed, storage, disposed, todo, doomed, readers>>

Evict(m) ==
    /\ In(m, "evict") /\ victims[m] # << >>
    /\ \E kinds \in Done({"cache", "preview"}) :
          Own(m, WithoutCache(Here(m).files, kinds, Head(victims[m])))
    /\ victims' = [victims EXCEPT ![m] = Tail(@)]
    /\ UNCHANGED <<setting, source, alive, expired, chain, at, prepares, spared,
                   version, parsed, storage, disposed, todo, doomed, readers>>

EndEviction(m) ==
    /\ In(m, "evict") /\ victims[m] = << >>
    /\ AfterMaintenance(m) /\ Leave(m)
    /\ UNCHANGED <<setting, source, disk, alive, expired, prepares, version,
                   parsed, storage, disposed, todo, doomed, victims, readers, spared>>

\* Mutant: maintenance that fails blocks those queued behind it.
MaintenanceBlocks(m) ==
    /\ MayFail("call")
    /\ at[m] \in Maintaining \ {"evict"} /\ Alive(m)
    /\ Go(m, IF storage[m] = "ready" THEN "gone" ELSE "idle")
    /\ storage' = [storage EXCEPT ![m] = IF @ = "making" THEN "failed" ELSE @]
    /\ todo' = [todo EXCEPT ![m] = {}]
    /\ doomed' = [doomed EXCEPT ![m] = NoPlace]
    /\ victims' = [victims EXCEPT ![m] = << >>]
    /\ UNCHANGED <<setting, source, disk, alive, expired, chain, prepares,
                   version, parsed, disposed, readers, spared>>

\* A directory cannot be read; that of the caches is read before any of them
\* is removed.  Whoever is queued behind goes on.
MaintenanceFails(m) ==
    /\ MayFail("call")
    /\ at[m] \in Maintaining \ {"evict"} /\ Alive(m)
    /\ Go(m, IF storage[m] = "ready" THEN "gone" ELSE "idle")
    /\ Leave(m)
    /\ storage' = [storage EXCEPT ![m] = IF @ = "making" THEN "failed" ELSE @]
    /\ todo' = [todo EXCEPT ![m] = {}]
    /\ doomed' = [doomed EXCEPT ![m] = NoPlace]
    /\ victims' = [victims EXCEPT ![m] = << >>]
    /\ UNCHANGED <<setting, source, disk, alive, expired, prepares, version,
                   parsed, disposed, readers, spared>>

PlaceLease(m) ==
    /\ In(m, "lease")
    /\ TakeLease(m, <<"ready", "lookup">>)
    /\ UNCHANGED <<setting, source, alive, expired, chain, prepares, version,
                   parsed, disposed, todo, doomed, victims, readers, spared>>

-----------------------------------------------------------------------------
(* Preparation, once there is storage.                                     *)

Id(m) == version[m]
Has(m, kind) == Occurs(Here(m).files, kind, Id(m))

Aside == UNCHANGED <<setting, source, alive, expired, chain, prepares, version,
                      storage, disposed, todo, doomed, victims, spared>>

\* A cache that is there is used, and marked as used.
Reuse(m) ==
    /\ In(m, "lookup") /\ m \in Persistent /\ Has(m, "cache")
    /\ Own(m, Touched(Here(m).files, "cache", Id(m)))
    /\ Go(m, "prepared")
    /\ Aside /\ UNCHANGED <<parsed, readers>>

\* There is none, or force removes it.  A preview that is there is handed on.
MustConvert(m, force) ==
    LET rest == IF force THEN Without(Here(m).files, "cache", Id(m))
                ELSE Here(m).files IN
    /\ In(m, "lookup")
    /\ m \in Persistent => force \/ ~Has(m, "cache")
    /\ IF m \in Persistent /\ Has(m, "preview")
       THEN Own(m, Touched(rest, "preview", Id(m))) /\ Go(m, "parseOnly")
       ELSE Own(m, rest) /\ (Go(m, "parse") \/ Go(m, "parseOnly"))
    /\ Aside /\ UNCHANGED <<parsed, readers>>

\* The converter has read the drawing and writes beside the caches.
Parse(m) ==
    /\ at[m] \in {"parse", "parseOnly"} /\ Alive(m)
    /\ Here(m).there
    /\ Temporary(m, Here(m).temps \cup {m})
    /\ parsed' = [parsed EXCEPT ![m] = source]
    /\ Go(m, IF at[m] = "parse" THEN "parsed" ELSE "recheck")
    /\ Aside /\ UNCHANGED readers

\* Any failure or abort before the cache is committed, and the finally block.
ConversionFails(m) ==
    /\ at[m] \in {"parse", "parseOnly", "parsed", "recheck"} /\ Alive(m)
    /\ Temporary(m, Here(m).temps \ {m})
    /\ Go(m, "idle")
    /\ Aside /\ UNCHANGED <<parsed, readers>>

\* Mutant: the drawing is not looked at again.
InputAssumed(m) == TRUE

\* What is compared again before a preview or a cache is published.
InputUnchanged(m) == source = version[m]

CheckPreview(m) ==
    /\ In(m, "parsed")
    /\ Go(m, IF InputUnchanged(m) /\ m \in Here(m).temps
             THEN "preview" ELSE "recheck")
    /\ UNCHANGED disk /\ Aside /\ UNCHANGED <<parsed, readers>>

\* commitPreview(); one that fails is dropped.
CommitPreview(m) ==
    LET f == [kind |-> "preview", id |-> Id(m), holds |-> parsed[m]] IN
    /\ In(m, "preview")
    /\ Own(m, IF m \in Here(m).temps
              THEN Stored(Here(m).files, f) ELSE Here(m).files)
    /\ Go(m, "recheck")
    /\ Aside /\ UNCHANGED <<parsed, readers>>

\* CACHE_INPUT_CHANGED
Recheck(m) ==
    /\ In(m, "recheck")
    /\ IF InputUnchanged(m) THEN Go(m, "rename") /\ UNCHANGED disk
       ELSE /\ Go(m, "idle")
            /\ Temporary(m, Here(m).temps \ {m})
    /\ Aside /\ UNCHANGED <<parsed, readers>>

\* rename() of the temporary file; without it, a cache another manager has
\* put there will do.
Commit(m) ==
    LET f == [kind |-> "cache", id |-> Id(m), holds |-> parsed[m]] IN
    /\ In(m, "rename")
    /\ IF m \in Here(m).temps
       THEN Put(Home(m), [Here(m) EXCEPT !.files = Stored(@, f), !.temps = @ \ {m}])
       ELSE UNCHANGED disk
    /\ Go(m, "reread")
    /\ Aside /\ UNCHANGED <<parsed, readers>>

Reread(m) ==
    /\ In(m, "reread")
    /\ IF Has(m, "cache")
       THEN /\ Own(m, Touched(Here(m).files, "cache", Id(m)))
            /\ Go(m, "prepared")
       ELSE Go(m, "idle") /\ UNCHANGED disk
    /\ Aside /\ UNCHANGED <<parsed, readers>>

\* The caller opens a range channel, which fails if the file is gone.
OpenReader(m) ==
    /\ In(m, "prepared") /\ ~disposed[m]
    /\ readers' = IF Has(m, "cache")
                  THEN readers \cup {[by |-> m, id |-> Id(m)]} ELSE readers
    /\ Go(m, "idle")
    /\ UNCHANGED disk /\ Aside /\ UNCHANGED parsed

\* The caller closes it, and the preview, and calls release(), which in
\* session mode removes the files.
Release(m, id) ==
    /\ Alive(m) /\ [by |-> m, id |-> id] \in readers
    /\ readers' = readers \ {[by |-> m, id |-> id]}
    /\ IF m \in Persistent THEN UNCHANGED disk
       ELSE \E kinds \in Done({"cache", "preview"}) :
               Own(m, WithoutCache(disk[m].files, kinds, id))
    /\ UNCHANGED at /\ Aside /\ UNCHANGED parsed

-----------------------------------------------------------------------------
(* Disposal.                                                               *)

Dispose(m) ==
    /\ Alive(m) /\ ~disposed[m]
    /\ \A r \in readers : r.by # m
    /\ disposed' = [disposed EXCEPT ![m] = TRUE]
    /\ UNCHANGED <<setting, source, disk, alive, expired, chain, at, prepares,
                   version, parsed, storage, todo, doomed, victims, readers, spared>>

\* activePreparations have settled.
Settled(m) == at[m] \in {"idle", "prepared"}

\* Mutant: the own lease is still there when the last one is looked for.
KeepLease(m) ==
    /\ disposed[m] /\ Settled(m) /\ Alive(m)
    /\ IF m \in Persistent /\ storage[m] = "ready"
       THEN /\ Go(m, "queued")
            /\ chain' = [chain EXCEPT ![ProcessOf[m]] = Append(@, m)]
       ELSE /\ Go(m, IF m \in Persistent THEN "gone" ELSE "removeRoot")
            /\ UNCHANGED chain
    /\ UNCHANGED <<setting, source, disk, alive, expired, prepares, version,
                   parsed, storage, disposed, todo, doomed, victims, readers, spared>>

\* Mutant: only what was initialized is cleaned up.
DropLeaseOfReady(m) ==
    /\ disposed[m] /\ Settled(m) /\ Alive(m)
    /\ \E gone \in Done({m}) : Leases(Home(m), Here(m).leases \ gone)
    /\ IF m \in Persistent /\ storage[m] = "ready"
       THEN /\ Go(m, "queued")
            /\ chain' = [chain EXCEPT ![ProcessOf[m]] = Append(@, m)]
       ELSE /\ Go(m, IF storage[m] = "ready" THEN "removeRoot" ELSE "gone")
            /\ UNCHANGED chain
    /\ UNCHANGED <<setting, source, alive, expired, prepares, version, parsed,
                   storage, disposed, todo, doomed, victims, readers, spared>>

\* The leases are removed first, then the places are looked after.
DropLease(m) ==
    /\ disposed[m] /\ Settled(m) /\ Alive(m)
    /\ \E gone \in Done({m}) : Leases(Home(m), Here(m).leases \ gone)
    /\ IF m \in Persistent /\ storage[m] = "ready"
       THEN /\ Go(m, "queued")
            /\ chain' = [chain EXCEPT ![ProcessOf[m]] = Append(@, m)]
       ELSE /\ Go(m, IF m \in Persistent THEN "gone" ELSE "removeRoot")
            /\ UNCHANGED chain
    /\ UNCHANGED <<setting, source, alive, expired, prepares, version, parsed,
                   storage, disposed, todo, doomed, victims, readers, spared>>

RemoveRoot(m) ==
    /\ In(m, "removeRoot")
    /\ RemoveAll(m, m)
    /\ Go(m, "gone")
    /\ UNCHANGED <<setting, source, alive, expired, chain, prepares, version, parsed,
                   storage, disposed, todo, doomed, victims, readers>>

-----------------------------------------------------------------------------
(* What happens around the managers.                                       *)

ChangeDrawing ==
    /\ source < MaxVersion /\ source' = source + 1
    /\ UNCHANGED <<setting, disk, alive, expired, chain, managerVars, readers>>

\* A window goes away: its leases, places and temporary files stay.
Crash(p) ==
    /\ p \in setting.crashes /\ p \in alive
    /\ alive' = alive \ {p}
    /\ readers' = {r \in readers : ProcessOf[r.by] # p}
    /\ UNCHANGED <<setting, source, disk, expired, chain, managerVars>>

\* Five minutes have passed without a heartbeat.
Expire(m) ==
    /\ ~Alive(m) /\ m \notin expired
    /\ expired' = expired \cup {m}
    /\ UNCHANGED <<setting, source, disk, alive, chain, managerVars, readers>>

Surroundings ==
    \/ ChangeDrawing
    \/ \E p \in Processes : Crash(p)
    \/ \E m \in Managers : Expire(m)

Maintains(m) ==
    \/ BeginMaintenance(m) \/ RemovePlace(m) \/ NextSweep(m)
    \/ \E d \in Places : Inspect(m, d)
    \/ CheckOwn(m) \/ ListOwn(m) \/ Evict(m) \/ EndEviction(m)
    \/ MaintenanceFails(m)

Prepares(m) ==
    \/ Stat(m) \/ SessionLease(m) \/ SessionPlace(m) \/ PlaceLease(m)
    \/ Reuse(m) \/ \E force \in BOOLEAN : MustConvert(m, force)
    \/ Parse(m) \/ ConversionFails(m) \/ CheckPreview(m) \/ CommitPreview(m)
    \/ Recheck(m) \/ Commit(m) \/ Reread(m)

Calls(m) ==
    \/ Prepare(m) \/ Dispose(m) \/ OpenReader(m)
    \/ \E id \in Versions : Release(m, id)

Disposes(m) == DropLease(m) \/ RemoveRoot(m)

Next ==
    \/ Surroundings
    \/ \E m \in Managers : Calls(m) \/ Prepares(m) \/ Maintains(m) \/ Disposes(m)

Spec == Init /\ [][Next]_vars

\* File system calls and conversions return.
FairSpec ==
    /\ Spec
    /\ \A m \in Managers : WF_storeVars(Prepares(m) \/ Maintains(m) \/ Disposes(m))

-----------------------------------------------------------------------------
(* Properties.                                                             *)

\* A cache or preview is what was converted from the version its name says,
\* although the drawing changes while it is read.
CacheMatchesSource ==
    \A d \in Places : \A f \in ToSet(disk[d].files) : f.holds = f.id

\* When the last manager of a generation has been disposed of, its caches fit
\* the configured bound, in whatever order the managers came and went: if no
\* call of the file system failed, and no listing was too long to be read.
WithinBoundAtRest ==
    \A g \in Generations :
        LET users == {m \in Persistent : GenerationOf[m] = g} IN
        (/\ setting.faults = {} /\ setting.crashes = {}
         /\ \A m \in users : at[m] = "gone" \/ prepares[m] = 0
         /\ \A m \in users : g \notin spared[m]
         /\ \E m \in users : at[m] = "gone" /\ storage[m] = "ready")
        => Len(disk[g].files) <= MaximumBytes

\* A manager in session mode leaves nothing behind, even if it could never
\* finish its initialization; unless its directory could not be removed.
SessionLeavesNothing ==
    \A m \in Managers \ Persistent :
        at[m] = "gone" => disk[m] = Nothing \/ m \in spared[m]

\* What a crashed window left behind is gone once a manager that began after
\* its lease expired has its storage; unless that one could not remove it,
\* took its lease for fresh, or had a listing that was cut short.
CrashLeftoversSwept ==
    \A m \in Managers : \A s \in Managers \ {m} :
        [](s \in expired /\ storage[m] = "none" =>
             [](storage[m] = "ready" =>
                  s \in Persistent \/ ~disk[s].there \/ s \in spared[m]))

\* dispose() completes.
DisposalCompletes ==
    \A m \in Managers : disposed[m] ~> at[m] = "gone" \/ ~Alive(m)

\* "Open range readers ... are never selected for eviction": when a cache that
\* is being read disappears, it is not an eviction that removes it.
EvictionSparesReaders ==
    [][ \A r \in readers :
          Occurs(disk[Home(r.by)].files, "cache", r.id)
          /\ ~Occurs(disk'[Home(r.by)].files, "cache", r.id)
          => \A m \in Managers : victims'[m] = victims[m] ]_vars

\* "A fresh per-manager lease protects caches still used by another VS Code
\* window": a place is removed only when its fresh leases are of managers that
\* have been disposed of.
LeaseProtects ==
    [][ \A d \in Places : disk[d].there /\ ~disk'[d].there =>
          \A m \in FreshLeases(d) : disposed[m] ]_vars
=============================================================================
