-------------------------------- MODULE Shell --------------------------------
(***************************************************************************)
(* The application around its components: main.cpp, which reloads the      *)
(* managed core and takes the application down, the start and stop actions *)
(* of ui::MainWindow, and core::BackupStore with ui::BackupPage, whose     *)
(* worker thread reads and replaces the files of the other stores.         *)
(* CoreProcess, ProfileStore, ConfigEnhancer and SystemProxyService appear *)
(* as what they promise here: their own modules have the detail.           *)
(***************************************************************************)
EXTENDS Naturals, Sequences

CONSTANTS
    Roots,       \* the files and directories that a backup replaces
    Operations,  \* the backup operations that the user starts
    MaxSnapshots,\* bound on runtime configurations that exist at a time
    MaxActions   \* bound on actions of the user and on failures of the core

NoConfig == 0
Configs == 1 .. MaxSnapshots
Stores == {"profiles", "chain"}

CoreRec == [
    state   : {"Stopped", "Starting", "Running", "Stopping", "Failed"},
    config  : Configs \cup {NoConfig},  \* what it was launched with
    pending : Configs \cup {NoConfig},  \* what a start() waits to launch
    asked   : BOOLEAN]                  \* a stop() is to be answered

QuitRec == [
    quitting : BOOLEAN, proxyStopped : BOOLEAN, coreStopped : BOOLEAN,
    warnings : 0 .. 2, cleaned : BOOLEAN, approved : BOOLEAN]

\* BackupOperation: what the window and the worker thread share.
OperationRec == [cancelled : BOOLEAN, approved : BOOLEAN,
                 permission : BOOLEAN, preparation : BOOLEAN]

NewOperation == [cancelled |-> FALSE, approved |-> FALSE,
                 permission |-> FALSE, preparation |-> FALSE]

FilesRec == [generated : SUBSET Configs, doomed : SUBSET Configs]

ProfilesRec == [
    writing : SUBSET Stores, void : SUBSET Stores,  \* writes, and those given up
    runtime : {"idle", "running", "void"},          \* the generation
    maintenance : BOOLEAN, reload : BOOLEAN]        \* the timer of reloadManaged

BackupRec == [
    local : BOOLEAN, transfer : {"none", "upload", "download"},
    kind : Operations \cup {"none", "import"}, operation : OperationRec,
    waitingForCore : BOOLEAN, waitingForFiles : BOOLEAN]

AppRec == [core : CoreRec, quit : QuitRec, files : FilesRec,
           profiles : ProfilesRec, backup : BackupRec]

WorkerRec == [
    phase : {"off", "preparing", "saving", "asking", "replacing", "finished"},
    posted : {<<>>, <<"restorePrepared">>, <<"restored">>},  \* signals on their way
    saved : BOOLEAN, success : BOOLEAN]

DiskRec == [
    now : [Roots -> {"old", "new", "gone"}], before : [Roots -> {"old", "new", "gone"}],
    installed : SUBSET Roots, aside : SUBSET Roots, kept : BOOLEAN]

VARIABLES
    core, quit,
    files,    \* snapshots on disk, and those that are to be deleted
    profiles, \* writes and the runtime generation of the stores
    backup,   \* BackupStore and BackupPage on the window's thread
    worker,   \* the BackupWorker thread
    disk,     \* the data directory and the settings
    owned,    \* the system proxy is set to the managed core
    stale,    \* the core runs what was active before a change, and nothing told so
    actions   \* how many bounded actions were taken

vars == <<core, quit, files, profiles, backup, worker, disk, owned, stale, actions>>

\* The state that the slots of the window's thread pass on.
app == [core |-> core, quit |-> quit, files |-> files,
        profiles |-> profiles, backup |-> backup]

Apply(s) == /\ core' = s.core /\ quit' = s.quit /\ files' = s.files
            /\ profiles' = s.profiles /\ backup' = s.backup

UserActs == ~quit.quitting /\ actions < MaxActions /\ actions' = actions + 1

Live(c) == c.state \in {"Starting", "Running"}

Busy(s) == s.backup.local \/ s.backup.transfer # "none"

FileBusy(s) == s.profiles.writing # {} \/ s.profiles.runtime # "idle"

-----------------------------------------------------------------------------
(* Quitting *)

\* Mutant: the end does not wait for the backup worker.
FinishQuitDuringBackup(s) ==
    IF \/ ~s.quit.quitting \/ ~s.quit.proxyStopped \/ ~s.quit.coreStopped
       \/ s.quit.warnings # 0 \/ FileBusy(s)
    THEN s ELSE [s EXCEPT !.quit.approved = TRUE]

\* The application ends when nothing runs any more; the snapshots are
\* deleted by a last job of the thread pool.
FinishQuit(s) ==
    IF \/ ~s.quit.quitting \/ ~s.quit.proxyStopped \/ ~s.quit.coreStopped
       \/ s.quit.warnings # 0 \/ Busy(s) \/ FileBusy(s)
    THEN s
    ELSE LET t == IF s.quit.cleaned THEN s
                  ELSE [s EXCEPT !.quit.cleaned = TRUE, !.files.generated = {},
                                 !.files.doomed = @ \cup s.files.generated]
         IN [t EXCEPT !.quit.approved = (t.files.doomed = {})]

\* Those that the core does not use are deleted in the background.
PruneSnapshots(s) ==
    LET obsolete == s.files.generated \ {s.core.config, s.core.pending}
    IN [s EXCEPT !.files.generated = @ \ obsolete, !.files.doomed = @ \cup obsolete]

\* A failure is shown, and the application waits for the user to see it.
Warn(s) == [s EXCEPT !.quit.warnings = @ + 1]

StopFinished(s, confirmed) ==
    LET t == [s EXCEPT !.quit.coreStopped = TRUE]
    IN FinishQuit(IF t.quit.quitting /\ ~confirmed THEN Warn(t) ELSE t)

-----------------------------------------------------------------------------
(* The backup page's side of a restore *)

ContinueRestore(s) ==
    [s EXCEPT !.backup.operation.approved = TRUE, !.backup.operation.permission = TRUE]

\* The page waits for stopped(), not for the answer to its stop().
Stopped(s) ==
    IF s.backup.waitingForCore
    THEN ContinueRestore([s EXCEPT !.backup.waitingForCore = FALSE]) ELSE s

\* Mutant: the worker may begin although the stores still write.
ContinueAnyway(s) ==
    IF s.backup.waitingForFiles
    THEN [s EXCEPT !.backup.waitingForFiles = FALSE, !.backup.operation.preparation = TRUE]
    ELSE s

ContinueWhenIdle(s) ==
    IF s.backup.waitingForFiles /\ ~FileBusy(s)
    THEN [s EXCEPT !.backup.waitingForFiles = FALSE, !.backup.operation.preparation = TRUE]
    ELSE s

\* Writes that run are void from then on, and a generation gives no result.
SetMaintenance(s) ==
    [s EXCEPT !.profiles.maintenance = TRUE, !.profiles.void = s.profiles.writing,
              !.profiles.runtime = IF @ = "idle" THEN "idle" ELSE "void"]

RunAsync(s, kind) ==
    ContinueWhenIdle([SetMaintenance(s) EXCEPT
        !.backup.local = TRUE, !.backup.kind = kind,
        !.backup.operation = NewOperation, !.backup.waitingForFiles = TRUE])

CancelAsync(s) ==
    FinishQuit([s EXCEPT !.backup.transfer = "none",
        !.backup.operation = IF s.backup.local
             THEN [@ EXCEPT !.cancelled = TRUE, !.permission = TRUE, !.preparation = TRUE]
             ELSE @])

-----------------------------------------------------------------------------
(* The managed core *)

\* With nothing to stop the answer comes inside the call.
CoreStop(s) ==
    IF Live(s.core) \/ s.core.state = "Stopping"
    THEN [s EXCEPT !.core.state = "Stopping", !.core.pending = NoConfig, !.core.asked = TRUE]
    ELSE StopFinished(Stopped([s EXCEPT !.core.state = "Stopped"]), TRUE)

CoreStart(s, config) ==
    IF Live(s.core) \/ s.core.state = "Stopping"
    THEN [s EXCEPT !.core.pending = config, !.core.asked = FALSE]
    ELSE [s EXCEPT !.core = [state |-> "Starting", config |-> config,
                             pending |-> NoConfig, asked |-> FALSE]]

RequestRuntimeConfig(s) ==
    IF s.profiles.maintenance \/ s.quit.quitting THEN s
    ELSE [s EXCEPT !.profiles.runtime = "running"]

CancelGeneration(s) == [s EXCEPT !.profiles.runtime = IF @ = "idle" THEN "idle" ELSE "void"]

CanReload(s) == ~s.quit.quitting /\ (Live(s.core) \/ (s.core.state = "Stopping" /\ s.core.pending # NoConfig))

ReloadManaged(s) == IF CanReload(s) THEN [s EXCEPT !.profiles.reload = TRUE] ELSE s

\* A replacement is launched when its configuration is found good.
CoreRetires ==
    /\ Live(core) /\ core.pending # NoConfig
    /\ core' = [core EXCEPT !.state = "Stopping"]
    /\ UNCHANGED <<quit, files, profiles, backup, worker, disk, owned, stale, actions>>

CoreBecomesReady ==
    /\ core.state = "Starting"
    /\ Apply(PruneSnapshots([app EXCEPT !.core.state = "Running"]))
    /\ UNCHANGED <<worker, disk, owned, stale, actions>>

CoreDies ==
    /\ Live(core) /\ actions < MaxActions /\ actions' = actions + 1
    /\ core' = [core EXCEPT !.state = "Failed", !.pending = NoConfig]
    /\ stale' = FALSE
    /\ UNCHANGED <<quit, files, profiles, backup, worker, disk, owned>>

\* The end of a stop: the replacement is launched, or stop() is answered.
\* A connection to the service that is lost is a stop that failed.
CoreStopEnds(confirmed) ==
    /\ core.state = "Stopping"
    /\ IF core.pending # NoConfig
       THEN confirmed /\ Apply([app EXCEPT !.core = [@ EXCEPT !.state = "Starting",
                                    !.config = core.pending, !.pending = NoConfig]])
       ELSE IF confirmed
       THEN Apply(StopFinished(Stopped([app EXCEPT !.core.state = "Stopped",
                                                   !.core.asked = FALSE]), TRUE))
       ELSE LET t == [app EXCEPT !.core.state = "Failed", !.core.asked = FALSE]
            IN Apply(IF core.asked THEN StopFinished(t, FALSE) ELSE t)
    /\ stale' = (stale /\ core.pending # NoConfig)
    /\ IF confirmed THEN UNCHANGED actions
       ELSE actions < MaxActions /\ actions' = actions + 1
    /\ UNCHANGED <<worker, disk, owned>>

\* The deferred restoreOwned() of a core that is still down.
RestoreProxy ==
    /\ owned /\ core.state \in {"Stopped", "Failed"} /\ owned' = FALSE
    /\ UNCHANGED <<core, quit, files, profiles, backup, worker, disk, stale, actions>>

UserEnablesProxy ==
    /\ UserActs /\ core.state = "Running" /\ owned' = TRUE
    /\ UNCHANGED <<core, quit, files, profiles, backup, worker, disk, stale>>

-----------------------------------------------------------------------------
(* The stores *)

\* Changes are refused during maintenance; one of the active profile voids
\* the configuration that is being generated.
UserEdits(store) ==
    /\ UserActs /\ ~profiles.maintenance /\ store \notin profiles.writing
    /\ Apply(LET t == IF store = "profiles" THEN CancelGeneration(app) ELSE app
             IN [t EXCEPT !.profiles.writing = @ \cup {store}])
    /\ UNCHANGED <<worker, disk, owned, stale>>

\* A write succeeds, unless it was given up or fails: then nothing asks again
\* for the generation that its beginning has voided.
WriteEnds(store) ==
    /\ store \in profiles.writing
    /\ \E done \in {FALSE, store \notin profiles.void} :
         LET t == [app EXCEPT !.profiles.writing = @ \ {store}, !.profiles.void = @ \ {store}]
         IN /\ Apply(ContinueWhenIdle(IF done THEN ReloadManaged(CancelGeneration(t)) ELSE t))
            /\ stale' = (stale \/ (done /\ CanReload(app)))
    /\ UNCHANGED <<worker, disk, owned, actions>>

\* A generation that is void or fails gives nothing; the user is shown the
\* failure. The snapshot is kept in mind even when it comes too late.
GenerationEnds ==
    /\ profiles.runtime # "idle"
    /\ LET t == [app EXCEPT !.profiles.runtime = "idle"]
       IN \/ /\ Apply(ContinueWhenIdle(t))
             /\ stale' = (stale /\ profiles.runtime = "void")
          \/ /\ profiles.runtime = "running"
             /\ \E config \in Configs \ (files.generated \cup files.doomed) :
                  Apply(LET u == [t EXCEPT !.files.generated = @ \cup {config}]
                        IN IF quit.quitting THEN u ELSE CoreStart(u, config))
             /\ stale' = FALSE
    /\ UNCHANGED <<worker, disk, owned, actions>>

ReloadTimeout ==
    /\ profiles.reload
    /\ LET t == [app EXCEPT !.profiles.reload = FALSE]
       IN Apply(IF CanReload(t) THEN RequestRuntimeConfig(t) ELSE t)
    /\ UNCHANGED <<worker, disk, owned, stale, actions>>

UserStartsCore ==
    /\ UserActs /\ Apply(RequestRuntimeConfig(app))
    /\ UNCHANGED <<worker, disk, owned, stale>>

UserStopsCore ==
    /\ UserActs /\ Apply(CoreStop(CancelGeneration(app)))
    /\ stale' = FALSE
    /\ UNCHANGED <<worker, disk, owned>>

DeleteSnapshots ==
    /\ files.doomed # {} /\ files' = [files EXCEPT !.doomed = {}]
    /\ UNCHANGED <<core, quit, profiles, backup, worker, disk, owned, stale, actions>>

-----------------------------------------------------------------------------
(* BackupStore on the window's thread *)

IdleWorker == [phase |-> "off", posted |-> <<>>, saved |-> FALSE, success |-> FALSE]

\* A download is a transfer first; an upload is one after the local part.
UserStartsBackup(kind) ==
    /\ UserActs /\ ~Busy(app)
    /\ IF kind = "download"
       THEN Apply([app EXCEPT !.backup.transfer = kind]) /\ UNCHANGED worker
       ELSE Apply(RunAsync(app, kind)) /\ worker' = [IdleWorker EXCEPT !.phase = "preparing"]
    /\ UNCHANGED <<disk, owned, stale>>

TransferEnds(ok) ==
    /\ backup.transfer # "none"
    /\ LET t == [app EXCEPT !.backup.transfer = "none"]
       IN IF ok /\ backup.transfer = "download"
          THEN Apply(RunAsync(t, "import")) /\ worker' = [IdleWorker EXCEPT !.phase = "preparing"]
          ELSE Apply(FinishQuit(t)) /\ UNCHANGED worker
    /\ UNCHANGED <<disk, owned, stale, actions>>

\* Mutant: the page begins to wait only after its call of stop().
RestorePreparedLate ==
    /\ worker.posted # <<>> /\ Head(worker.posted) = "restorePrepared"
    /\ Apply([CoreStop(app) EXCEPT !.backup.waitingForCore = TRUE])
    /\ stale' = FALSE
    /\ worker' = [worker EXCEPT !.posted = Tail(@)]
    /\ UNCHANGED <<disk, owned, actions>>

\* Signals of the worker reach the window in the order they were sent.
RestorePrepared ==
    /\ worker.posted # <<>> /\ Head(worker.posted) = "restorePrepared"
    /\ Apply(CoreStop([app EXCEPT !.backup.waitingForCore = TRUE]))
    /\ stale' = FALSE
    /\ worker' = [worker EXCEPT !.posted = Tail(@)]
    /\ UNCHANGED <<disk, owned, actions>>

\* The stores read the restored files.
Restored ==
    /\ worker.posted # <<>> /\ Head(worker.posted) = "restored"
    /\ Apply(ReloadManaged(app))
    /\ worker' = [worker EXCEPT !.posted = Tail(@)]
    /\ UNCHANGED <<disk, owned, stale, actions>>

\* Maintenance goes on when the application is about to end.
ThreadFinished ==
    /\ worker.phase = "finished" /\ worker.posted = <<>>
    /\ LET t == [app EXCEPT !.backup.local = FALSE, !.backup.waitingForCore = FALSE,
                            !.backup.waitingForFiles = FALSE,
                            !.profiles.maintenance = quit.quitting]
           upload == backup.kind = "upload" /\ worker.success /\ ~backup.operation.cancelled
       IN Apply(FinishQuit(IF upload THEN [t EXCEPT !.backup.transfer = "upload"] ELSE t))
    /\ worker' = IdleWorker
    /\ UNCHANGED <<disk, owned, stale, actions>>

-----------------------------------------------------------------------------
(* The worker thread *)

\* The thread waits for the stores to be idle, unless it was cancelled.
WorkerBegins ==
    /\ worker.phase = "preparing" /\ backup.operation.preparation
    /\ worker' = [worker EXCEPT !.phase = IF backup.operation.cancelled THEN "finished" ELSE "saving"]
    /\ UNCHANGED <<core, quit, files, profiles, backup, disk, owned, stale, actions>>

\* createLocal(), and for a restore the validation and the staged copy.
WorkerSaves(ok) ==
    /\ worker.phase = "saving"
    /\ worker' = IF ok /\ backup.kind = "restore" /\ ~backup.operation.cancelled
                 THEN [worker EXCEPT !.phase = "asking", !.saved = TRUE,
                                     !.posted = <<"restorePrepared">>]
                 ELSE [worker EXCEPT !.phase = "finished", !.saved = ok,
                                     !.success = ok /\ backup.kind # "restore"]
    /\ UNCHANGED <<core, quit, files, profiles, backup, disk, owned, stale, actions>>

\* Mutant: a cancelled restore that gets its permit goes on.
WorkerIsAnsweredAnyway ==
    /\ worker.phase = "asking" /\ backup.operation.permission
    /\ worker' = [worker EXCEPT !.phase = "replacing"]
    /\ disk' = [disk EXCEPT !.before = disk.now, !.installed = {}, !.aside = {}, !.kept = FALSE]
    /\ UNCHANGED <<core, quit, files, profiles, backup, owned, stale, actions>>

WorkerIsAnswered ==
    /\ worker.phase = "asking" /\ backup.operation.permission
    /\ worker' = [worker EXCEPT !.phase =
           IF backup.operation.approved /\ ~backup.operation.cancelled THEN "replacing" ELSE "finished"]
    /\ disk' = [disk EXCEPT !.before = disk.now, !.installed = {}, !.aside = {}, !.kept = FALSE]
    /\ UNCHANGED <<core, quit, files, profiles, backup, owned, stale, actions>>

\* Mutant: what was installed stays, and the originals cannot come back.
RollbackKeepingInstalled(d, stuck) ==
    LET back == (d.aside \ d.installed) \ stuck
    IN [d EXCEPT !.now = [r \in Roots |-> IF r \in back THEN d.before[r] ELSE @[r]], !.aside = @ \ back]

\* Everything installed is removed and everything moved aside moved back,
\* as far as that goes; if it does not, the originals are kept aside.
Rollback(d, stuck) ==
    LET removed == d.installed \ stuck
        back == {r \in d.aside \ stuck : r \notin d.installed \/ r \in removed}
    IN [d EXCEPT !.now = [r \in Roots |-> IF r \in back THEN d.before[r]
                                          ELSE IF r \in removed THEN "gone" ELSE @[r]],
                 !.aside = @ \ back, !.kept = (stuck \cap (d.installed \cup d.aside) # {})]

Finish(success) ==
    worker' = [worker EXCEPT !.phase = "finished", !.success = success,
                             !.posted = IF success THEN <<"restored">> ELSE @]

\* The next root is moved aside if it exists; the staged one takes its place.
ReplaceRoot(r) ==
    /\ worker.phase = "replacing" /\ r \notin disk.installed
    /\ LET moved == [disk EXCEPT !.aside = IF disk.now[r] = "gone" THEN @ ELSE @ \cup {r},
                                 !.now[r] = "gone"]
       IN \/ /\ disk' = [moved EXCEPT !.now[r] = "new", !.installed = @ \cup {r}]
             /\ UNCHANGED worker
          \/ \E stuck \in SUBSET Roots, failed \in {disk, moved} :
               disk' = Rollback(failed, stuck) /\ Finish(FALSE)
    /\ UNCHANGED <<core, quit, files, profiles, backup, owned, stale, actions>>

\* The preferences come last.
ReplaceSettings ==
    /\ worker.phase = "replacing" /\ disk.installed = Roots
    /\ \/ disk' = [disk EXCEPT !.aside = {}] /\ Finish(TRUE)
       \/ \E stuck \in SUBSET Roots : disk' = Rollback(disk, stuck) /\ Finish(FALSE)
    /\ UNCHANGED <<core, quit, files, profiles, backup, owned, stale, actions>>

-----------------------------------------------------------------------------
(* Quitting, continued *)

\* Mutant: a backup that runs is not cancelled.
UserQuitsDuringBackup ==
    /\ ~quit.quitting
    /\ Apply([CancelGeneration(app) EXCEPT !.quit.quitting = TRUE, !.quit.coreStopped = FALSE,
                                           !.profiles.reload = FALSE])
    /\ UNCHANGED <<worker, disk, owned, stale, actions>>

UserQuits ==
    /\ ~quit.quitting
    /\ Apply(CancelAsync([CancelGeneration(app) EXCEPT !.quit.quitting = TRUE,
                             !.quit.coreStopped = FALSE, !.profiles.reload = FALSE]))
    /\ UNCHANGED <<worker, disk, owned, stale, actions>>

ProxyShutdownFinished(success) ==
    /\ quit.quitting /\ ~quit.proxyStopped
    /\ LET t == [app EXCEPT !.quit.proxyStopped = TRUE]
       IN Apply(FinishQuit(CoreStop(IF success THEN t ELSE Warn(t))))
    /\ owned' = (owned /\ ~success) /\ stale' = FALSE
    /\ UNCHANGED <<worker, disk, actions>>

WarningCloses ==
    /\ quit.warnings > 0
    /\ Apply(FinishQuit([app EXCEPT !.quit.warnings = @ - 1]))
    /\ UNCHANGED <<worker, disk, owned, stale, actions>>

ShutdownPoll ==
    /\ quit.quitting /\ Apply(FinishQuit(app))
    /\ UNCHANGED <<worker, disk, owned, stale, actions>>

-----------------------------------------------------------------------------
TypeOK ==
    /\ app \in AppRec /\ profiles.void \subseteq profiles.writing
    /\ worker \in WorkerRec /\ disk \in DiskRec
    /\ owned \in BOOLEAN /\ stale \in BOOLEAN

Init ==
    /\ core = [state |-> "Stopped", config |-> NoConfig, pending |-> NoConfig, asked |-> FALSE]
    /\ quit = [quitting |-> FALSE, proxyStopped |-> FALSE, coreStopped |-> FALSE,
               warnings |-> 0, cleaned |-> FALSE, approved |-> FALSE]
    /\ files = [generated |-> {}, doomed |-> {}]
    /\ profiles = [writing |-> {}, void |-> {}, runtime |-> "idle",
                   maintenance |-> FALSE, reload |-> FALSE]
    /\ backup = [local |-> FALSE, transfer |-> "none", kind |-> "none",
                 operation |-> NewOperation, waitingForCore |-> FALSE, waitingForFiles |-> FALSE]
    /\ worker = IdleWorker
    /\ \E now \in [Roots -> {"old", "gone"}] :
         disk = [now |-> now, before |-> now, installed |-> {}, aside |-> {}, kept |-> FALSE]
    /\ owned = FALSE /\ stale = FALSE /\ actions = 0

Window ==
    \/ \E store \in Stores : WriteEnds(store)
    \/ GenerationEnds \/ ReloadTimeout \/ DeleteSnapshots
    \/ \E ok \in BOOLEAN : TransferEnds(ok) \/ ProxyShutdownFinished(ok)
    \/ RestorePrepared \/ Restored \/ ThreadFinished \/ WarningCloses \/ ShutdownPoll

Core == CoreRetires \/ CoreBecomesReady \/ CoreStopEnds(TRUE)

Worker ==
    \/ WorkerBegins \/ WorkerIsAnswered \/ ReplaceSettings
    \/ \E ok \in BOOLEAN : WorkerSaves(ok)
    \/ \E r \in Roots : ReplaceRoot(r)

User ==
    \/ UserStartsCore \/ UserStopsCore \/ UserEnablesProxy \/ UserQuits
    \/ \E store \in Stores : UserEdits(store)
    \/ \E kind \in Operations : UserStartsBackup(kind)

Next == ~quit.approved /\ (Window \/ Core \/ Worker \/ User \/ RestoreProxy \/ CoreDies \/ CoreStopEnds(FALSE))

\* The event loop runs, downloads and deletions end, children exit, the
\* worker thread is scheduled, and the user closes a warning.
Fairness ==
    /\ \A store \in Stores : WF_vars(WriteEnds(store))
    /\ WF_vars(GenerationEnds) /\ WF_vars(ReloadTimeout) /\ WF_vars(DeleteSnapshots)
    /\ WF_vars(\E ok \in BOOLEAN : TransferEnds(ok))
    /\ WF_vars(\E ok \in BOOLEAN : ProxyShutdownFinished(ok))
    /\ WF_vars(RestorePrepared \/ Restored \/ ThreadFinished)
    /\ WF_vars(WarningCloses) /\ WF_vars(ShutdownPoll)
    /\ WF_vars(Core) /\ WF_vars(Worker)

Spec == Init /\ [][Next]_vars /\ Fairness

-----------------------------------------------------------------------------
(* What a backup promises *)

CoreIsDown == core.state \in {"Stopped", "Failed"}

\* The state has its type, and while the worker reads or replaces the files,
\* no store writes and nothing is generated from them; while it replaces
\* them, no core runs or will run on them (preparation in
\* BackupWorker::execute, waitingForFiles_ and waitingForCore_ of BackupPage).
BackupIsExclusive ==
    /\ TypeOK
    /\ worker.phase \in {"saving", "asking", "replacing"} =>
         ~FileBusy(app) /\ profiles.maintenance
    /\ worker.phase = "replacing" => CoreIsDown /\ core.pending = NoConfig

\* When a restore is over, the files are all from the backup, or all as they
\* were, or the originals that could not be put back are kept aside
\* (BackupStore::restoreLocal).
RestoreIsAllOrNothing ==
    worker.phase # "replacing" =>
        \/ disk.now = disk.before /\ disk.aside = {}
        \/ \A r \in Roots : disk.now[r] = "new"
        \/ /\ disk.kept
           /\ \A r \in Roots : \/ r \in disk.aside \/ disk.now[r] = disk.before[r]
                               \/ disk.before[r] = "gone"

\* A backup and a restore have the files to themselves, and leave them whole.
FilesAreSafe == BackupIsExclusive /\ RestoreIsAllOrNothing

\* A restore that the user's quitting has cancelled before it was permitted
\* replaces nothing, though the core's end may permit it still.
QuitCancelsRestore ==
    [][ worker.phase = "asking" /\ worker'.phase = "replacing" => ~quit.quitting ]_vars

\* The application ends with no core, no snapshot on disk, no work in
\* progress, and no file missing that is not kept aside (finishQuit).
QuitIsClean ==
    quit.approved =>
        /\ CoreIsDown /\ core.pending = NoConfig
        /\ files.generated = {} /\ files.doomed = {}
        /\ ~Busy(app) /\ ~FileBusy(app) /\ worker.phase = "off"
        /\ disk.kept \/ \A r \in Roots : disk.now[r] = "gone" => disk.before[r] = "gone"

\* Quitting ends, whatever was going on: a restore that waits for a core
\* that cannot be stopped, a transfer, a restart.
QuitEnds == quit.quitting ~> quit.approved

\* A backup operation ends, unless it waits for a core whose stop has failed.
BackupEnds ==
    backup.local ~> (~backup.local \/ (backup.waitingForCore /\ core.state = "Failed"))

\* README: an edit of the active profile regenerates the managed runtime, so
\* a running core does not stay on what was active before.
ChangeReachesCore == stale ~> ~stale
-----------------------------------------------------------------------------
(* What makes FilesAreSafe and QuitIsClean inductive *)

Down(s) == s.core.state \in {"Stopped", "Failed"}

\* A core that is down has nothing to launch, and only one that is being
\* stopped for good has a stop() to answer.
CoreKept(s) ==
    /\ Down(s) => s.core.pending = NoConfig
    /\ s.core.asked => s.core.state = "Stopping" /\ s.core.pending = NoConfig

\* A quit warns at most once of the proxy and once of the core, starts
\* nothing again, and is approved when all is over.
QuitKept(s) ==
    /\ ~s.quit.quitting => /\ s.quit.warnings = 0 /\ ~s.quit.proxyStopped
                           /\ ~s.quit.cleaned /\ ~s.quit.approved
    /\ s.quit.quitting =>
         /\ s.quit.warnings <= (IF s.quit.proxyStopped THEN 1 ELSE 0) + (IF Down(s) THEN 1 ELSE 0)
         /\ s.quit.coreStopped => Down(s)
         /\ s.backup.transfer = "none"
         /\ s.backup.local => s.backup.operation.cancelled
    /\ s.quit.cleaned => s.files.generated = {} /\ ~FileBusy(s)
    /\ s.quit.approved => s.quit.cleaned /\ s.quit.coreStopped /\ s.files.doomed = {} /\ ~Busy(s)

\* From the moment a backup operation may begin until its thread ends, the
\* stores rest; from the moment a restore is approved, the core does.
BackupKept(s, w) ==
    /\ s.backup.local <=> w.phase # "off"
    /\ s.backup.local => s.backup.transfer = "none"
    /\ s.backup.local => s.profiles.maintenance
    /\ s.backup.local /\ s.backup.operation.preparation =>
         s.backup.operation.cancelled \/ ~FileBusy(s)
    /\ w.phase \in {"saving", "asking", "replacing"} => ~FileBusy(s)
    /\ w.phase \in {"off", "preparing", "saving"} => w.posted = <<>> /\ ~s.backup.waitingForCore
    /\ w.phase \in {"preparing", "saving"} => ~s.backup.operation.approved
    /\ w.phase \in {"asking", "replacing"} /\ s.backup.operation.approved => Down(s)
    /\ w.phase = "replacing" => s.backup.operation.approved

Kept(s, w) ==
    /\ s \in AppRec /\ w \in WorkerRec /\ s.profiles.void \subseteq s.profiles.writing
    /\ CoreKept(s) /\ QuitKept(s) /\ BackupKept(s, w)

\* In the middle of a restore: what is installed can be undone, and the rest
\* is as it was.
Undoable(d) ==
    \A r \in Roots :
        IF r \in d.installed THEN d.now[r] = "new" /\ (r \in d.aside \/ d.before[r] = "gone")
        ELSE d.now[r] = d.before[r] /\ r \notin d.aside

\* After it, RestoreIsAllOrNothing says what is left.
DiskKept ==
    /\ disk \in DiskRec /\ RestoreIsAllOrNothing
    /\ worker.phase = "replacing" => Undoable(disk)

IInv == Kept(app, worker) /\ DiskKept /\ owned \in BOOLEAN /\ stale \in BOOLEAN
=============================================================================
