----------------------------- MODULE ProfileStore -----------------------------
(***************************************************************************)
(* core::ProfileStore: the profiles, their files on disk, the downloads,   *)
(* the worker that writes files and the worker that generates the runtime  *)
(* configuration.  The store's code runs on the GUI thread, where an       *)
(* action is one handler; the workers run beside it, and an action is what *)
(* one does between two of its looks at the cancellation flag.             *)
(***************************************************************************)
EXTENDS ProfileStoreOps

CONSTANTS
    FirstUid,       \* the uid of the profile there is at first
    FirstUrl,       \* its URL
    MaxCalls,       \* bound on the calls from the user interface
    MaxRuns,        \* bound on the generations, which number their files
    MaxSaveFailures,\* bound on the writes of the index that fail
    MaxCrashes      \* bound on the crashes of the application

ASSUME FirstAssumption == FirstUid \in Uids /\ FirstUrl \in Urls

ASSUME BoundsAssumption ==
    MaxCalls \in Nat /\ MaxRuns \in Nat /\ MaxSaveFailures \in Nat /\ MaxCrashes \in Nat

VARIABLES
    store,     \* the ProfileStore object
    disk,      \* the index, the profiles' files and the generated files
    used,      \* the uids handed out
    handed,    \* the generated files announced with runtimeConfigReady()
    leftover,  \* the generated files on disk when the application crashed
    confirmed, \* the contents last reported as saved, for each profile
    tainted,   \* profiles whose file was last written by a cancelled write
    lost,      \* profiles whose file and listing a failure or a crash came between
    calls, runs, saveFailures, crashes  \* what the bounds limit

vars == <<store, disk, used, handed, leftover, confirmed, tainted, lost,
          calls, runs, saveFailures, crashes>>

DiskRec == [index : IndexRec, file : [Uids -> MaybeContents], snapshots : SUBSET (1..MaxRuns)]

TypeOK ==
    /\ store \in StoreRec
    /\ disk \in DiskRec
    /\ used \subseteq Uids /\ tainted \subseteq Uids /\ lost \subseteq Uids
    /\ handed \subseteq 1..MaxRuns /\ leftover \subseteq 1..MaxRuns
    /\ confirmed \in [Uids -> MaybeContents]
    /\ calls \in 0..MaxCalls /\ runs \in 0..MaxRuns /\ saveFailures \in 0..MaxSaveFailures
    /\ crashes \in 0..MaxCrashes

\* One subscription, fetched before; also what a backup holds.
FirstIndex == [profiles |-> <<FirstUid>>, url |-> [u \in Uids |-> IF u = FirstUid THEN FirstUrl ELSE Nothing],
               currentUid |-> FirstUid, secret |-> FALSE]
FirstFiles == [u \in Uids |-> IF u = FirstUid THEN FirstUrl ELSE Nothing]

Init ==
    /\ store = NewStore(FirstIndex)
    /\ disk = [index |-> FirstIndex, file |-> FirstFiles, snapshots |-> {}]
    /\ used = {FirstUid}
    /\ handed = {} /\ leftover = {} /\ tainted = {} /\ lost = {}
    /\ confirmed = [u \in Uids |-> Nothing]
    /\ calls = 0 /\ runs = 0 /\ saveFailures = 0 /\ crashes = 0

-----------------------------------------------------------------------------
(* What handlers are made of *)

\* save(): the index is replaced by what memory holds, or stays as it was.
Save(s, d, saved) ==
    /\ saved \/ saveFailures < MaxSaveFailures
    /\ saveFailures' = IF saved THEN saveFailures ELSE saveFailures + 1
    /\ disk' = IF saved THEN [d EXCEPT !.index = Index(s)] ELSE d

NoSave == UNCHANGED <<disk, saveFailures>>

Called == calls < MaxCalls /\ calls' = calls + 1

Ghosts == <<handed, leftover, confirmed, tainted, lost, crashes>>

\* A call that changes no file, whose index is saved or not.
CallSaving(s, saved) ==
    /\ Called
    /\ store' = s
    /\ Save(s, disk, saved)
    /\ UNCHANGED <<used, runs>> /\ UNCHANGED Ghosts

\* A call that touches neither the index nor a file.
CallOnly(s) ==
    /\ Called
    /\ store' = s
    /\ NoSave
    /\ UNCHANGED <<used, runs>> /\ UNCHANGED Ghosts

\* An event that touches neither, and is not a call.
Event(s) ==
    /\ store' = s
    /\ NoSave
    /\ UNCHANGED <<used, calls, runs>> /\ UNCHANGED Ghosts

Toggled(settings) == 1 - settings

-----------------------------------------------------------------------------
(* The index *)

\* Mutant: changes are not refused in maintenance.
SelectProfileInMaintenance(u, saved) ==
    /\ u # store.currentUid /\ u \in Listed(store)
    /\ CallSaving([CancelRuntimeGeneration(store) EXCEPT !.currentUid = u], saved)

SelectProfile(u, saved) ==
    /\ AcceptsChanges(store)
    /\ u # store.currentUid /\ u \in Listed(store)
    /\ CallSaving([CancelRuntimeGeneration(store) EXCEPT !.currentUid = u], saved)

RenameProfile(u, saved) ==
    /\ AcceptsChanges(store)
    /\ u \in Listed(store)
    /\ CallSaving([CancelIfCurrent(store, u) EXCEPT
                      !.settings = IF u = store.currentUid THEN Toggled(@) ELSE @], saved)

SetUpdateInterval(u, saved) ==
    /\ AcceptsChanges(store)
    /\ u \in Listed(store)
    /\ CallSaving(store, saved)

SetSubscriptionUrl(u, x, saved) ==
    LET quiet == CancelFileOperations(store)
        edited == [quiet EXCEPT !.url[u] = x]
    IN /\ AcceptsChanges(store)
       /\ u \in Listed(store)
       /\ store.url[u] \notin {Nothing, x}
       /\ Called
       /\ Save(edited, disk, saved)
       /\ store' = IF saved THEN [edited EXCEPT !.updating[u] = Nothing] ELSE quiet
       /\ UNCHANGED <<used, runs>> /\ UNCHANGED Ghosts

\* Mutant: writes queued for the profile stay in the queue.
RemoveProfileKeepingQueue(u, saved) ==
    LET list == RemoveAt(store.profiles, IndexOf(store, u))
        s == [CancelIfCurrent(store, u) EXCEPT
                 !.profiles = list,
                 !.url[u] = Nothing,
                 !.currentUid = IF @ = u THEN FirstOf(list) ELSE @]
    IN /\ AcceptsChanges(store)
       /\ u \in Listed(store)
       /\ Called
       /\ store' = s
       /\ Save(s, [disk EXCEPT !.file[u] = Nothing], saved)
       /\ lost' = IF saved THEN lost ELSE lost \cup {u}
       /\ UNCHANGED <<used, runs, handed, leftover, confirmed, tainted, crashes>>

RemoveProfile(u, saved) ==
    LET list == RemoveAt(store.profiles, IndexOf(store, u))
        s == [CancelIfCurrent(CancelFileOperations(store), u) EXCEPT
                 !.profiles = list,
                 !.url[u] = Nothing,
                 !.currentUid = IF @ = u THEN FirstOf(list) ELSE @]
    IN /\ AcceptsChanges(store)
       /\ u \in Listed(store)
       /\ Called
       /\ store' = s
       /\ Save(s, [disk EXCEPT !.file[u] = Nothing], saved)
       /\ lost' = IF saved THEN lost ELSE lost \cup {u}
       /\ UNCHANGED <<used, runs, handed, leftover, confirmed, tainted, crashes>>

\* The overrides of the runtime configuration, which have a file of their own.
SetRuntimeOverrides ==
    /\ AcceptsChanges(store)
    /\ CallOnly([CancelRuntimeGeneration(store) EXCEPT !.settings = Toggled(@)])

\* ConfigEnhancer::chainChanged().
ChainChanged ==
    CallOnly([CancelRuntimeGeneration(store) EXCEPT !.settings = Toggled(@)])

-----------------------------------------------------------------------------
(* Files, written at once *)

\* importFromFile() and createLocalProfile(), which differ in where the
\* contents come from; on failure they change nothing.
CreateProfile(u, c, saved) ==
    /\ AcceptsChanges(store)
    /\ u \notin used
    /\ Called
    /\ store' = AppendProfile(store, [uid |-> u, url |-> Nothing])
    /\ Save(store', [disk EXCEPT !.file[u] = c], saved)
    /\ used' = used \cup {u}
    /\ lost' = IF saved THEN lost ELSE lost \cup {u}
    /\ UNCHANGED <<runs, handed, leftover, confirmed, tainted, crashes>>

\* Mutant: a write of the same file goes on.
SaveProfileContentBesideWriter(u, c, saved) ==
    /\ AcceptsChanges(store)
    /\ u \in Listed(store)
    /\ Called
    /\ store' = CancelIfCurrent(store, u)
    /\ Save(store', [disk EXCEPT !.file[u] = c], saved)
    /\ confirmed' = [confirmed EXCEPT ![u] = c]
    /\ tainted' = tainted \ {u}
    /\ UNCHANGED <<used, runs, handed, leftover, lost, crashes>>

SaveProfileContent(u, c, saved) ==
    /\ AcceptsChanges(store)
    /\ u \in Listed(store)
    /\ Called
    /\ store' = CancelIfCurrent(CancelFileOperations(store), u)
    /\ Save(store', [disk EXCEPT !.file[u] = c], saved)
    /\ confirmed' = [confirmed EXCEPT ![u] = c]
    /\ tainted' = tainted \ {u}
    /\ UNCHANGED <<used, runs, handed, leftover, lost, crashes>>

\* The contents are rejected or cannot be written; the queue is gone.
SaveProfileContentFails ==
    /\ AcceptsChanges(store)
    /\ CallOnly(CancelFileOperations(store))

-----------------------------------------------------------------------------
(* Files, written by the worker *)

\* importFromFileAsync() and createLocalProfileAsync().
CreateProfileAsync(u, kind, c) ==
    /\ AcceptsChanges(store)
    /\ u \notin used
    /\ Called
    /\ store' = EnqueueWrite(store, [uid |-> u, kind |-> kind, content |-> c, url |-> Nothing])
    /\ used' = used \cup {u}
    /\ NoSave
    /\ UNCHANGED runs /\ UNCHANGED Ghosts

SaveProfileContentAsync(u, c) ==
    /\ AcceptsChanges(store)
    /\ u \in Listed(store)
    /\ CallOnly(EnqueueWrite([store EXCEPT !.owed[u] = @ + 1],
                             [uid |-> u, kind |-> "Save", content |-> c, url |-> store.url[u]]))

WorkerIs(stage) == store.write.stage = stage

\* The worker reads, validates and writes to the side; it gives up, or is
\* past its last look at the flag.
PrepareWrite ==
    /\ WorkerIs("reading")
    /\ \/ Event([store EXCEPT !.write.stage = "abandoned"])
       \/ ~store.write.cancelled /\ Event([store EXCEPT !.write.stage = "armed"])

\* QSaveFile::commit().
CommitWrite ==
    /\ WorkerIs("armed")
    /\ store' = [store EXCEPT !.write.stage = "committed"]
    /\ disk' = [disk EXCEPT !.file[store.write.request.uid] = store.write.request.content]
    /\ UNCHANGED <<used, calls, runs, saveFailures>> /\ UNCHANGED Ghosts

CommitFails ==
    /\ WorkerIs("armed")
    /\ Event([store EXCEPT !.write.stage = "abandoned"])

WriterDone == WorkerIs("committed") \/ WorkerIs("abandoned")

\* What the slot of the finished write ends with.
NextOrIdle(s) ==
    LET free == [s EXCEPT !.write = NoWrite]
    IN IF free.fileQueue # <<>> /\ ~free.maintenance THEN StartNextWrite(free)
       ELSE [free EXCEPT !.shown = IsFileBusy(free)]

WriteSucceeded == WorkerIs("committed") /\ ~store.write.cancelled /\ ~store.maintenance

\* Mutant: the file goes when the index cannot be saved, the listing stays.
FinishCreationListed(saved) ==
    LET request == store.write.request
        listed == AppendProfile(store, request)
        removed == [disk EXCEPT !.file[request.uid] = Nothing]
    IN /\ WriterDone /\ Creating(request)
       /\ IF WriteSucceeded
          THEN /\ store' = NextOrIdle(listed)
               /\ Save(listed, IF saved THEN disk ELSE removed, saved)
          ELSE /\ saved
               /\ store' = NextOrIdle(store)
               /\ disk' = removed
               /\ UNCHANGED saveFailures
       /\ UNCHANGED <<used, calls, runs>> /\ UNCHANGED Ghosts

\* Mutant: the file of a cancelled creation stays.
FinishCreationKeepingFile(saved) ==
    LET request == store.write.request
        listed == AppendProfile(store, request)
    IN /\ WriterDone /\ Creating(request)
       /\ IF WriteSucceeded
          THEN /\ store' = NextOrIdle(IF saved THEN listed ELSE store)
               /\ Save(listed, disk, saved)
          ELSE saved /\ store' = NextOrIdle(store) /\ NoSave
       /\ UNCHANGED <<used, calls, runs>> /\ UNCHANGED Ghosts

\* A new profile: listed if the index can be saved, else taken back.
FinishCreation(saved) ==
    LET request == store.write.request
        listed == AppendProfile(store, request)
        removed == [disk EXCEPT !.file[request.uid] = Nothing]
    IN /\ WriterDone /\ Creating(request)
       /\ IF WriteSucceeded
          THEN /\ store' = NextOrIdle(IF saved THEN listed ELSE store)
               /\ Save(listed, IF saved THEN disk ELSE removed, saved)
          ELSE /\ saved
               /\ store' = NextOrIdle(store)
               /\ disk' = removed
               /\ UNCHANGED saveFailures
       /\ UNCHANGED <<used, calls, runs>> /\ UNCHANGED Ghosts

\* Mutant: a generation that read the old contents is not cancelled.
FinishUpdateUnseen(saved) ==
    LET request == store.write.request
        u == request.uid
        updates == WriteSucceeded /\ u \in Listed(store)
    IN /\ WriterDone /\ ~Creating(request)
       /\ IF updates THEN Save(store, disk, saved) ELSE saved /\ NoSave
       /\ store' = NextOrIdle([store EXCEPT !.owed = Answer(@, <<request>>)])
       /\ confirmed' = IF request.kind = "Save" /\ updates /\ saved
                       THEN [confirmed EXCEPT ![u] = request.content] ELSE confirmed
       /\ tainted' = IF updates THEN tainted \ {u} ELSE tainted
       /\ UNCHANGED <<used, calls, runs, handed, leftover, lost, crashes>>

\* Mutant: the slot returns early once the application quits.
FinishUpdateUnlessQuitting(saved) ==
    /\ WriterDone /\ ~Creating(store.write.request) /\ ~store.shuttingDown
    /\ NoSave /\ saved
    /\ store' = NextOrIdle([store EXCEPT !.owed = Answer(@, <<store.write.request>>)])
    /\ UNCHANGED <<used, calls, runs>> /\ UNCHANGED Ghosts

\* New contents of a listed profile: a save is answered.
FinishUpdate(saved) ==
    LET request == store.write.request
        u == request.uid
        updates == WriteSucceeded /\ u \in Listed(store)
        s == IF updates THEN CancelIfCurrent(store, u) ELSE store
    IN /\ WriterDone /\ ~Creating(request)
       /\ IF updates THEN Save(s, disk, saved) ELSE saved /\ NoSave
       /\ store' = NextOrIdle([s EXCEPT !.owed = Answer(@, <<request>>)])
       /\ confirmed' = IF request.kind = "Save" /\ updates /\ saved
                       THEN [confirmed EXCEPT ![u] = request.content] ELSE confirmed
       /\ tainted' = CASE updates -> tainted \ {u}
                       [] WorkerIs("committed") /\ ~updates -> tainted \cup {u}
                       [] OTHER -> tainted
       /\ UNCHANGED <<used, calls, runs, handed, leftover, lost, crashes>>

-----------------------------------------------------------------------------
(* Downloads *)

ImportFromUrl(x) ==
    /\ AcceptsChanges(store)
    /\ x \notin store.imports
    /\ CallOnly([store EXCEPT !.imports = @ \cup {x}])

\* The answer becomes the file of a new profile; an error is only reported.
ImportAnswered(x, u) ==
    /\ x \in store.imports
    /\ u \notin used
    /\ store' = EnqueueWrite([store EXCEPT !.imports = @ \ {x}],
                             [uid |-> u, kind |-> "Import", content |-> x, url |-> x])
    /\ used' = used \cup {u}
    /\ NoSave
    /\ UNCHANGED <<calls, runs>> /\ UNCHANGED Ghosts

ImportFails(x) ==
    /\ x \in store.imports
    /\ Event([store EXCEPT !.imports = @ \ {x}])

\* updateProfile() for each of the profiles that asks for it.
Fetch(s, due) ==
    [s EXCEPT !.updating = [u \in Uids |->
        IF u \in due /\ @[u] = Nothing THEN s.url[u] ELSE @[u]]]

Remote(s) == {u \in Listed(s) : s.url[u] # Nothing}

UpdateProfile(u) ==
    /\ AcceptsChanges(store)
    /\ u \in Remote(store) /\ store.updating[u] = Nothing
    /\ CallOnly(Fetch(store, {u}))

\* The timer, which runs while changes are accepted.
RefreshDueProfiles(due) ==
    /\ AcceptsChanges(store)
    /\ due \subseteq Remote(store)
    /\ Fetch(store, due) # store
    /\ CallOnly(Fetch(store, due))

UpdateAnswered(u) ==
    LET s == [store EXCEPT !.updating[u] = Nothing]
    IN /\ store.updating[u] # Nothing
       /\ Event(IF u \in Listed(store)
                THEN EnqueueWrite(s, [uid |-> u, kind |-> "Refresh", url |-> store.url[u],
                                      content |-> store.updating[u]])
                ELSE s)

UpdateFails(u) ==
    /\ store.updating[u] # Nothing
    /\ Event([store EXCEPT !.updating[u] = Nothing])

-----------------------------------------------------------------------------
(* The runtime configuration *)

\* The secret it makes, if it makes one, is saved or not.
Generate(s, d, path, saved) ==
    /\ store' = StartPendingRuntime(s, path, saved)
    /\ IF MakesSecret(s) THEN Save(store', d, saved)
                         ELSE saved /\ disk' = d /\ UNCHANGED saveFailures

Requested == runs < MaxRuns /\ runs' = runs + 1

RequestRuntimeConfig(saved) ==
    LET s == [CancelRuntimeGeneration(store) EXCEPT !.runtimeRequested = TRUE]
    IN /\ AcceptsChanges(store)
       /\ Requested
       /\ IF RuntimeRunning(store) THEN saved /\ store' = s /\ NoSave
                                   ELSE Generate(s, disk, runs', saved)
       /\ UNCHANGED <<used, calls>> /\ UNCHANGED Ghosts

\* The user interface cancels when the core is to stop.
CancelRuntime ==
    /\ RuntimeRunning(store) /\ ~store.runtime.cancelled
    /\ CallOnly(CancelRuntimeGeneration(store))

RuntimeIs(stage) == store.runtime.stage = stage

RuntimeStep(next) == Event([store EXCEPT !.runtime = next])

RuntimeGivesUp == RuntimeStep([store.runtime EXCEPT !.stage = "done", !.failed = TRUE])

\* The profile's file and the chain are read; they may be missing or unusable.
ReadProfile ==
    LET c == disk.file[store.runtime.uid]
    IN /\ RuntimeIs("reading")
       /\ \/ RuntimeGivesUp
          \/ /\ c # Nothing /\ ~store.runtime.cancelled
             /\ RuntimeStep([store.runtime EXCEPT !.stage = "read", !.content = c])

WriteRuntime ==
    /\ RuntimeIs("read")
    /\ \/ RuntimeGivesUp
       \/ /\ ~store.runtime.cancelled
          /\ store' = [store EXCEPT !.runtime.stage = "written"]
          /\ disk' = [disk EXCEPT !.snapshots = @ \cup {store.runtime.path}]
          /\ UNCHANGED <<used, calls, runs, saveFailures>> /\ UNCHANGED Ghosts

\* The preview; without it the file is taken back.
WritePreview ==
    /\ RuntimeIs("written")
    /\ \/ /\ ~store.runtime.cancelled
          /\ RuntimeStep([store.runtime EXCEPT !.stage = "done"])
       \/ /\ store' = [store EXCEPT !.runtime.stage = "done", !.runtime.failed = TRUE]
          /\ disk' = [disk EXCEPT !.snapshots = @ \ {store.runtime.path}]
          /\ UNCHANGED <<used, calls, runs, saveFailures>> /\ UNCHANGED Ghosts

\* runtimeConfigReady() is emitted for a file of a generation still wanted.
Delivers == ~store.runtime.cancelled /\ ~store.maintenance /\ ~store.runtime.failed

\* Mutant: a configuration that came too late stays on disk.
FinishRuntimeKeepingFile(saved) ==
    LET r == store.runtime
        free == [store EXCEPT !.runtime = NoRuntime]
    IN /\ RuntimeIs("done")
       /\ handed' = IF Delivers THEN handed \cup {r.path} ELSE handed
       /\ IF store.runtimeRequested /\ ~store.maintenance
          THEN Generate(free, disk, runs, saved)
          ELSE /\ saved
               /\ store' = [free EXCEPT !.shown = IsFileBusy(free)]
               /\ NoSave
       /\ UNCHANGED <<used, calls, runs, leftover, confirmed, tainted, lost, crashes>>

\* Mutant: a request made meanwhile is not taken up.
FinishRuntimeForgetful(saved) ==
    LET r == store.runtime
        free == [store EXCEPT !.runtime = NoRuntime]
    IN /\ RuntimeIs("done") /\ saved
       /\ handed' = IF Delivers THEN handed \cup {r.path} ELSE handed
       /\ store' = [free EXCEPT !.shown = IsFileBusy(free)]
       /\ disk' = IF ~r.failed /\ ~Delivers THEN [disk EXCEPT !.snapshots = @ \ {r.path}] ELSE disk
       /\ UNCHANGED <<saveFailures, used, calls, runs, leftover, confirmed, tainted, lost, crashes>>

FinishRuntime(saved) ==
    LET r == store.runtime
        free == [store EXCEPT !.runtime = NoRuntime]
        kept == IF ~r.failed /\ ~Delivers THEN [disk EXCEPT !.snapshots = @ \ {r.path}] ELSE disk
    IN /\ RuntimeIs("done")
       /\ handed' = IF Delivers THEN handed \cup {r.path} ELSE handed
       /\ IF store.runtimeRequested /\ ~store.maintenance
          THEN Generate(free, kept, runs, saved)
          ELSE /\ saved
               /\ store' = [free EXCEPT !.shown = IsFileBusy(free)]
               /\ disk' = kept
               /\ UNCHANGED saveFailures
       /\ UNCHANGED <<used, calls, runs, leftover, confirmed, tainted, lost, crashes>>

\* generateRuntimeConfig(), which does the work before it returns.
GenerateRuntimeConfig(saved) ==
    LET s == CancelRuntimeGeneration(store)
        made == [s EXCEPT !.secret = @ \/ MakesSecret(s)]
        built == /\ s.currentUid \in Listed(s) /\ (MakesSecret(s) => saved)
                 /\ disk.file[s.currentUid] # Nothing
        d == IF built THEN [disk EXCEPT !.snapshots = @ \cup {runs'}] ELSE disk
    IN /\ AcceptsChanges(store)
       /\ Requested
       /\ store' = made
       /\ handed' = IF built THEN handed \cup {runs'} ELSE handed
       /\ IF MakesSecret(s) THEN Save(made, d, saved)
                            ELSE saved /\ disk' = d /\ UNCHANGED saveFailures
       /\ UNCHANGED <<used, calls, leftover, confirmed, tainted, lost, crashes>>

-----------------------------------------------------------------------------
(* Maintenance, loading, the end *)

SetMaintenanceMode(enabled) ==
    /\ store.maintenance # enabled
    /\ CallOnly(LET s == IF enabled THEN CancelEverything(store) ELSE store
                IN [s EXCEPT !.maintenance = enabled])

BeginShutdown ==
    /\ ~store.shuttingDown
    /\ CallOnly([CancelDownloads(CancelRuntimeGeneration(store)) EXCEPT !.shuttingDown = TRUE])

\* A selection that is not listed is replaced by the first profile.
Loaded(s, index) ==
    [CancelEverything(s) EXCEPT
        !.profiles = index.profiles, !.url = index.url, !.secret = index.secret,
        !.currentUid = IF index.currentUid \in {index.profiles[i] : i \in DOMAIN index.profiles}
                       THEN index.currentUid ELSE FirstOf(index.profiles),
        !.settings = Toggled(@)]

Load == CallOnly(Loaded(store, disk.index))

\* A backup replaces the directory while the store is in maintenance and at
\* rest; then the store is loaded.
RestoreBackup ==
    /\ store.maintenance /\ ~IsFileBusy(store)
    /\ Called
    /\ store' = Loaded(store, FirstIndex)
    /\ disk' = [disk EXCEPT !.index = FirstIndex, !.file = FirstFiles]
    /\ confirmed' = [u \in Uids |-> Nothing]
    /\ tainted' = {} /\ lost' = {}
    /\ UNCHANGED <<used, runs, saveFailures, handed, leftover, crashes>>

\* The application is killed and started again: what it wrote to the side
\* is lost, and so are the names of the generated files.
Crash ==
    /\ crashes < MaxCrashes
    /\ crashes' = crashes + 1
    /\ store' = [Loaded(NewStore(disk.index), disk.index) EXCEPT !.settings = 0]
    /\ handed' = {}
    /\ leftover' = disk.snapshots
    /\ lost' = IF FileRunning(store) THEN lost \cup {store.write.request.uid} ELSE lost
    /\ UNCHANGED <<disk, used, confirmed, tainted, calls, runs, saveFailures>>

-----------------------------------------------------------------------------
Commands(saved) ==
    \/ \E u \in Uids :
        \/ SelectProfile(u, saved) \/ RenameProfile(u, saved)
        \/ SetUpdateInterval(u, saved) \/ RemoveProfile(u, saved)
        \/ \E x \in Urls : SetSubscriptionUrl(u, x, saved)
        \/ \E c \in Edits : CreateProfile(u, c, saved) \/ SaveProfileContent(u, c, saved)
    \/ RequestRuntimeConfig(saved) \/ GenerateRuntimeConfig(saved)

QueuedCommands ==
    \/ SaveProfileContentFails \/ CancelRuntime
    \/ SetRuntimeOverrides \/ ChainChanged
    \/ \E u \in Uids, c \in Edits :
        \/ \E kind \in {"Import", "Create"} : CreateProfileAsync(u, kind, c)
        \/ SaveProfileContentAsync(u, c)
    \/ \E x \in Urls : ImportFromUrl(x)
    \/ \E u \in Uids : UpdateProfile(u)
    \/ \E due \in SUBSET Uids : RefreshDueProfiles(due)

Network ==
    \/ \E x \in Urls : ImportFails(x) \/ \E u \in Uids : ImportAnswered(x, u)
    \/ \E u \in Uids : UpdateAnswered(u) \/ UpdateFails(u)

Writer == PrepareWrite \/ CommitWrite \/ CommitFails
FinishWrite == \E saved \in BOOLEAN : FinishCreation(saved) \/ FinishUpdate(saved)

Generator == ReadProfile \/ WriteRuntime \/ WritePreview
FinishGeneration == \E saved \in BOOLEAN : FinishRuntime(saved)

Lifecycle ==
    \/ \E enabled \in BOOLEAN : SetMaintenanceMode(enabled)
    \/ BeginShutdown \/ Load \/ RestoreBackup \/ Crash

Next ==
    \/ \E saved \in BOOLEAN : Commands(saved)
    \/ QueuedCommands \/ Network
    \/ Writer \/ FinishWrite \/ Generator \/ FinishGeneration
    \/ Lifecycle

\* The pool's threads run, and the event loop delivers what they finished.
Fairness == /\ WF_vars(Writer) /\ WF_vars(FinishWrite)
            /\ WF_vars(Generator) /\ WF_vars(FinishGeneration)

Spec == Init /\ [][Next]_vars
FairSpec == Spec /\ Fairness

-----------------------------------------------------------------------------
(* Safety *)

\* fileBusyChanged() last told whether work is in progress: the backup page
\* waits for that signal before it lets a backup or a restore continue.
BusyShownTrue == store.shown = IsFileBusy(store)

\* Nothing waits without a worker whose end will take it up, and no update
\* waits for a profile that is gone.
QueueIsServed ==
    /\ store.fileQueue # <<>> => FileRunning(store)
    /\ store.runtimeRequested => RuntimeRunning(store)
    /\ \A i \in DOMAIN store.fileQueue :
        Creating(store.fileQueue[i]) \/ store.fileQueue[i].uid \in Listed(store)

\* An editor is owed an answer for each of its saves that waits or runs.
Accounted(s) ==
    LET running(u) == /\ FileRunning(s)
                      /\ s.write.request.kind = "Save" /\ s.write.request.uid = u
    IN \A u \in Uids :
           s.owed[u] = Cardinality(Saves(s.fileQueue, u)) + (IF running(u) THEN 1 ELSE 0)

\* Every accepted save is waiting, running or answered, once: the editor
\* stays locked until profileContentSaved() names its profile.
SavesAccounted == Accounted(store)

\* A generated file, which holds the controller's secret, is in the hands of
\* the core's owner, is being made, or was left behind by a crash: what
\* cancellation and failure discard is removed.
NoLeakedSnapshots ==
    disk.snapshots \subseteq
        handed \cup leftover \cup (IF RuntimeRunning(store) THEN {store.runtime.path} ELSE {})

\* Every profile in memory, and every one a start would load, has its file,
\* but for removals whose index could not be saved.
ListedHasFile ==
    \A u \in Uids \ lost :
        u \in Listed(store) \cup Listed(disk.index) => disk.file[u] # Nothing

\* A file belongs to a listed profile or to the creation that is running:
\* cancelled, rejected and failed creations leave none behind.
CreationLeavesNoOrphan ==
    \A u \in Uids \ (lost \cup tainted) :
        disk.file[u] # Nothing =>
            \/ u \in Listed(store)
            \/ FileRunning(store) /\ store.write.request.uid = u

\* Memory, index, files and editors agree, whatever was cancelled or failed.
Files == TypeOK /\ SavesAccounted /\ ListedHasFile /\ CreationLeavesNoOrphan

\* What waits is served and announced, and what is discarded is removed.
Queue == BusyShownTrue /\ QueueIsServed /\ NoLeakedSnapshots

-----------------------------------------------------------------------------
(* Steps *)

\* Once changes are refused and no work is in progress, the store leaves the
\* disk alone: backups read it then, a restore replaces it, a quit ends it.
IdleIsQuiet ==
    [][~AcceptsChanges(store) /\ ~IsFileBusy(store) => disk' = disk \/ RestoreBackup]_vars

\* What is announced for the core to run was made from the selection, the
\* overrides and the chain of now, and from the profile's file unless a
\* write of it is under way, whose end reloads the core.  (A cancelled write
\* may have replaced the file unannounced: see OldResponseNeverCached.)
DeliveredIsCurrent ==
    [][LET r == store.runtime
       IN r.path \in handed' \ handed =>
            /\ r.uid = store.currentUid
            /\ r.settings = store.settings
            /\ \/ r.content = disk.file[r.uid]
               \/ FileRunning(store) /\ store.write.request.uid = r.uid
               \/ r.uid \in tainted]_vars

\* profileContentSaved(uid, true) is only said of contents that are on disk,
\* in the file of a listed profile, whatever was called while they were written.
SavedIsOnDisk ==
    [][\A u \in Uids :
        confirmed'[u] \notin {confirmed[u], Nothing} =>
            disk'.file[u] = confirmed'[u] /\ u \in Listed(store')]_vars

-----------------------------------------------------------------------------
(* Liveness *)

\* After beginShutdown() the work in progress ends: quitting waits for it.
QuitDrains == store.shuttingDown ~> ~IsFileBusy(store)

\* An editor that waits for its save is told how it ended.
SavesAnswered == \A u \in Uids : store.owed[u] > 0 ~> store.owed[u] = 0

\* What others wait for comes: quitting for the store, an editor for its save.
WorkIsAnswered == QuitDrains /\ SavesAnswered

-----------------------------------------------------------------------------
(* What the documents say, and the code does not keep *)

\* setSubscriptionUrl(): "A response from the previous subscription must not
\* replace the cache after its source has changed."
OldResponseNeverCached ==
    [][\A u \in Listed(store) :
        disk'.file[u] # disk.file[u] /\ disk'.file[u] \in Urls
            => disk'.file[u] = store'.url[u]]_vars

-----------------------------------------------------------------------------
(* What makes Files, Queue and the properties of steps inductive *)

\* A memory or an index that lists each profile once.
Distinct(s) ==
    \A i, j \in DOMAIN s.profiles : s.profiles[i] = s.profiles[j] => i = j

\* What waits can be started, and maintenance leaves nothing waiting.
Orderly(s) ==
    /\ s \in StoreRec /\ Distinct(s) /\ Accounted(s)
    /\ \A i \in DOMAIN s.fileQueue :
           Creating(s.fileQueue[i]) \/ s.fileQueue[i].uid \in Listed(s)
    /\ s.fileQueue # <<>> => ~s.maintenance
    /\ s.runtimeRequested => RuntimeRunning(s) /\ ~s.maintenance

\* Between two handlers, a worker's end will take up what waits.
StoreKept(s) ==
    /\ Orderly(s) /\ s.shown = IsFileBusy(s)
    /\ s.fileQueue # <<>> => FileRunning(s)

\* A request has contents for a profile whose uid was handed out; one that
\* creates it is the only one for it, and nothing lists it.
Proper(request, s, d, given) ==
    /\ request.uid \in given /\ request.content \in Contents
    /\ Creating(request) => request.uid \notin Listed(s) \cup Listed(d.index)

Apart(q, r) == Creating(q) \/ Creating(r) => q.uid # r.uid

RequestsKept(s, d, given) ==
    /\ Listed(s) \cup Listed(d.index) \cup {FirstUid} \subseteq given
    /\ \A i \in DOMAIN s.fileQueue : Proper(s.fileQueue[i], s, d, given)
    /\ \A i, j \in DOMAIN s.fileQueue : i # j => Apart(s.fileQueue[i], s.fileQueue[j])
    /\ FileRunning(s) =>
           /\ Proper(s.write.request, s, d, given)
           /\ \A i \in DOMAIN s.fileQueue : Apart(s.write.request, s.fileQueue[i])

\* The write has replaced the file of u.
Committed(s, u) == s.write.stage = "committed" /\ s.write.request.uid = u

\* Outside gone and dirty, which stand for lost and tainted, memory and index
\* list the same profiles, which are those with a file.
FilesKept(s, d, gone, dirty) ==
    /\ \A u \in Uids \ gone :
           /\ u \in Listed(s) <=> u \in Listed(d.index)
           /\ u \in Listed(s) => d.file[u] # Nothing
           /\ u \notin dirty /\ d.file[u] # Nothing => u \in Listed(s) \/ Committed(s, u)
    /\ s.write.stage = "committed" /\ ~s.write.cancelled =>
           d.file[s.write.request.uid] = s.write.request.content

\* The file of a generation, after n of them, is on disk from when it is
\* written; all others on disk were announced or left by a crash.
SnapshotsKept(s, d, announced, left, n) ==
    LET r == s.runtime
        made == RuntimeRunning(s) /\ r.stage \in {"written", "done"} /\ ~r.failed
    IN /\ n \in 0 .. MaxRuns /\ r.path \in 0 .. n /\ (RuntimeRunning(s) => r.path # 0)
       /\ r.failed => r.stage = "done"
       /\ d.snapshots \cup announced \cup left \subseteq 1 .. n
       /\ d.snapshots \subseteq announced \cup left \cup (IF made THEN {r.path} ELSE {})

\* A generation that is not cancelled has the inputs of now.
RuntimeKept(s, d, dirty) ==
    LET r == s.runtime
    IN RuntimeRunning(s) /\ ~r.cancelled =>
           /\ r.uid = s.currentUid /\ r.uid \in Listed(s) /\ r.settings = s.settings
           /\ r.stage # "reading" /\ ~r.failed =>
                  r.content = d.file[r.uid] \/ Committed(s, r.uid) \/ r.uid \in dirty

Ranged ==
    /\ disk \in DiskRec /\ Distinct(disk.index)
    /\ used \subseteq Uids /\ tainted \subseteq Uids /\ lost \subseteq Uids
    /\ confirmed \in [Uids -> MaybeContents]
    /\ calls \in 0 .. MaxCalls /\ saveFailures \in 0 .. MaxSaveFailures
    /\ crashes \in 0 .. MaxCrashes

IInv ==
    /\ Ranged /\ StoreKept(store) /\ RequestsKept(store, disk, used)
    /\ FilesKept(store, disk, lost, tainted)
    /\ SnapshotsKept(store, disk, handed, leftover, runs)
    /\ RuntimeKept(store, disk, tainted)
=============================================================================
