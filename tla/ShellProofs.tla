----------------------------- MODULE ShellProofs -----------------------------
(***************************************************************************)
(* Backups have the files to themselves and leave them whole, and the      *)
(* application ends clean: for any roots, operations and snapshots, and    *)
(* any number of actions of the user and failures.                         *)
(***************************************************************************)
EXTENDS Shell, TLAPS

-----------------------------------------------------------------------------
(* The records *)

\* The parts of the application's state.
LEMMA AppIsRecord ==
    /\ app.core = core /\ app.quit = quit /\ app.files = files
    /\ app.profiles = profiles /\ app.backup = backup
BY DEF app

\* What a slot leaves is the application's state afterwards.
LEMMA ApplyIsApp ==
    ASSUME NEW t \in AppRec, Apply(t)
    PROVE  app' = t
BY DEF Apply, app, AppRec

LEMMA SameIsApp ==
    ASSUME UNCHANGED <<core, quit, files, profiles, backup>>
    PROVE  app' = app
BY DEF app

-----------------------------------------------------------------------------
(* What the slots keep *)

\* The end of a quit changes what it waits for in nothing.
LEMMA FinishQuitKept ==
    ASSUME NEW s, NEW w, Kept(s, w)
    PROVE  Kept(FinishQuit(s), w)
<1> DEFINE cleaned == [s EXCEPT !.quit.cleaned = TRUE, !.files.generated = {},
                                !.files.doomed = @ \cup s.files.generated]
           t == IF s.quit.cleaned THEN s ELSE cleaned
           u == [t EXCEPT !.quit.approved = (t.files.doomed = {})]
           ready == /\ s.quit.quitting /\ s.quit.proxyStopped /\ s.quit.coreStopped
                    /\ s.quit.warnings = 0 /\ ~Busy(s) /\ ~FileBusy(s)
<1>1. s \in AppRec /\ w \in WorkerRec
  BY DEF Kept
<1>2. FinishQuit(s) = IF ready THEN u ELSE s
  BY DEF FinishQuit
<1>3. CASE ~ready
  BY <1>2, <1>3
<1>4. CASE ready
  <2>1. /\ t \in AppRec /\ t.core = s.core /\ t.profiles = s.profiles /\ t.backup = s.backup
        /\ t.quit = [s.quit EXCEPT !.cleaned = TRUE] /\ t.files.generated = {}
    <3>1. CASE s.quit.cleaned
      <4>1. s.files.generated = {}
        BY <3>1 DEF Kept, QuitKept
      <4>2. s.quit = [s.quit EXCEPT !.cleaned = TRUE]
        BY <1>1, <3>1 DEF AppRec, QuitRec
      <4> QED
        BY <1>1, <3>1, <4>1, <4>2
    <3>2. CASE ~s.quit.cleaned
      BY <1>1, <3>2 DEF AppRec, QuitRec, FilesRec
    <3> QED
      BY <3>1, <3>2
  <2> HIDE DEF t
  <2>2. /\ u \in AppRec /\ u.core = s.core /\ u.profiles = s.profiles /\ u.backup = s.backup
        /\ u.files = t.files
        /\ u.quit = [s.quit EXCEPT !.cleaned = TRUE, !.approved = (t.files.doomed = {})]
    BY <2>1, <1>1 DEF AppRec, QuitRec
  <2> HIDE DEF u
  <2>3. /\ u.quit.quitting = s.quit.quitting /\ u.quit.warnings = s.quit.warnings
        /\ u.quit.proxyStopped = s.quit.proxyStopped /\ u.quit.coreStopped = s.quit.coreStopped
        /\ u.quit.cleaned = TRUE /\ u.quit.approved = (t.files.doomed = {})
    BY <2>2, <1>1 DEF AppRec, QuitRec
  <2>4. FileBusy(u) = FileBusy(s) /\ Down(u) = Down(s) /\ Busy(u) = Busy(s)
    BY <2>2 DEF FileBusy, Down, Busy
  <2>5. CoreKept(u) /\ BackupKept(u, w)
    BY <2>2, <2>4 DEF Kept, CoreKept, BackupKept
  <2>6. QuitKept(u)
    BY <1>4, <2>1, <2>2, <2>3, <2>4 DEF Kept, QuitKept
  <2>7. u.profiles.void \subseteq u.profiles.writing
    BY <2>2 DEF Kept
  <2> QED
    BY <1>1, <1>2, <1>4, <2>2, <2>5, <2>6, <2>7 DEF Kept
<1> QED
  BY <1>3, <1>4

\* The answer to a stop comes when the core is down, and warns only if
\* nothing has warned of the core before.
LEMMA StopFinishedKept ==
    ASSUME NEW s, NEW w, NEW confirmed \in BOOLEAN, Kept(s, w), Down(s),
           ~confirmed /\ s.quit.quitting =>
               s.quit.warnings <= (IF s.quit.proxyStopped THEN 1 ELSE 0)
    PROVE  Kept(StopFinished(s, confirmed), w)
<1> DEFINE t == [s EXCEPT !.quit.coreStopped = TRUE]
           v == IF t.quit.quitting /\ ~confirmed THEN Warn(t) ELSE t
<1>1. s \in AppRec /\ w \in WorkerRec
  BY DEF Kept
<1>2. /\ v \in AppRec /\ v.core = s.core /\ v.files = s.files
      /\ v.profiles = s.profiles /\ v.backup = s.backup
      /\ v.quit.quitting = s.quit.quitting /\ v.quit.proxyStopped = s.quit.proxyStopped
      /\ v.quit.coreStopped = TRUE /\ v.quit.cleaned = s.quit.cleaned
      /\ v.quit.approved = s.quit.approved
      /\ v.quit.warnings = IF s.quit.quitting /\ ~confirmed THEN s.quit.warnings + 1
                           ELSE s.quit.warnings
  <2>1. s.quit.quitting /\ ~confirmed => s.quit.warnings + 1 \in 0 .. 2
    BY <1>1 DEF AppRec, QuitRec
  <2> QED
    BY <1>1, <2>1 DEF AppRec, QuitRec, Warn
<1> HIDE DEF v
<1>3. FileBusy(v) = FileBusy(s) /\ Down(v) = Down(s) /\ Busy(v) = Busy(s)
  BY <1>2 DEF FileBusy, Down, Busy
<1>4. CoreKept(v) /\ BackupKept(v, w)
  BY <1>2, <1>3 DEF Kept, CoreKept, BackupKept
<1>5. v.quit.quitting => v.quit.warnings <= (IF v.quit.proxyStopped THEN 1 ELSE 0) + 1
  <2>1. s.quit.quitting => s.quit.warnings <= (IF s.quit.proxyStopped THEN 1 ELSE 0) + 1
    BY DEF Kept, QuitKept
  <2> QED
    BY <1>1, <1>2, <2>1 DEF AppRec, QuitRec
<1>6. QuitKept(v)
  BY <1>2, <1>3, <1>5 DEF Kept, QuitKept
<1>7. Kept(v, w)
  BY <1>1, <1>2, <1>4, <1>6 DEF Kept
<1> QED
  BY <1>7, FinishQuitKept DEF StopFinished, v

\* A restore is permitted when the core is down.
LEMMA StoppedKept ==
    ASSUME NEW s, NEW w, Kept(s, w), Down(s)
    PROVE  /\ Kept(Stopped(s), w)
           /\ Stopped(s).core = s.core /\ Stopped(s).quit = s.quit
<1> DEFINE t == Stopped(s)
<1>1. s \in AppRec /\ w \in WorkerRec
  BY DEF Kept
<1>2. CASE ~s.backup.waitingForCore
  BY <1>2 DEF Stopped
<1>3. CASE s.backup.waitingForCore
  <2>1. /\ t \in AppRec /\ t.core = s.core /\ t.quit = s.quit /\ t.files = s.files
        /\ t.profiles = s.profiles /\ t.backup.local = s.backup.local
        /\ t.backup.transfer = s.backup.transfer /\ t.backup.waitingForCore = FALSE
        /\ t.backup.operation.cancelled = s.backup.operation.cancelled
        /\ t.backup.operation.preparation = s.backup.operation.preparation
        /\ t.backup.operation.approved = TRUE
    BY <1>1, <1>3 DEF AppRec, BackupRec, OperationRec, Stopped, ContinueRestore
  <2> HIDE DEF t
  <2>2. FileBusy(t) = FileBusy(s) /\ Down(t) = Down(s) /\ Busy(t) = Busy(s)
    BY <2>1 DEF FileBusy, Down, Busy
  <2>3. w.phase \notin {"off", "preparing", "saving"}
    BY <1>3 DEF Kept, BackupKept
  <2>4. BackupKept(t, w)
    BY <2>1, <2>2, <2>3 DEF Kept, BackupKept
  <2>5. QuitKept(t) /\ CoreKept(t)
    BY <2>1, <2>2 DEF Kept, QuitKept, CoreKept
  <2>6. Kept(t, w)
    BY <1>1, <2>1, <2>4, <2>5 DEF Kept
  <2> QED
    BY <2>1, <2>6 DEF t
<1> QED
  BY <1>2, <1>3

\* The worker may begin when the stores are idle.
LEMMA ContinueWhenIdleKept ==
    ASSUME NEW s, NEW w, Kept(s, w)
    PROVE  Kept(ContinueWhenIdle(s), w)
<1> DEFINE t == ContinueWhenIdle(s)
<1>1. s \in AppRec /\ w \in WorkerRec
  BY DEF Kept
<1>2. CASE ~(s.backup.waitingForFiles /\ ~FileBusy(s))
  BY <1>2 DEF ContinueWhenIdle
<1>3. CASE s.backup.waitingForFiles /\ ~FileBusy(s)
  <2>1. /\ t \in AppRec /\ t.core = s.core /\ t.quit = s.quit /\ t.files = s.files
        /\ t.profiles = s.profiles /\ t.backup.local = s.backup.local
        /\ t.backup.transfer = s.backup.transfer
        /\ t.backup.waitingForCore = s.backup.waitingForCore
        /\ t.backup.operation.cancelled = s.backup.operation.cancelled
        /\ t.backup.operation.approved = s.backup.operation.approved
    BY <1>1, <1>3 DEF AppRec, BackupRec, OperationRec, ContinueWhenIdle
  <2> HIDE DEF t
  <2>2. FileBusy(t) = FALSE /\ FileBusy(s) = FALSE /\ Down(t) = Down(s) /\ Busy(t) = Busy(s)
    BY <1>3, <2>1 DEF FileBusy, Down, Busy
  <2>3. BackupKept(t, w)
    BY <2>1, <2>2 DEF Kept, BackupKept
  <2>4. QuitKept(t) /\ CoreKept(t)
    BY <2>1, <2>2 DEF Kept, QuitKept, CoreKept
  <2>5. Kept(t, w)
    BY <1>1, <2>1, <2>3, <2>4 DEF Kept
  <2> QED
    BY <2>5 DEF t
<1> QED
  BY <1>2, <1>3

\* Stores that are no busier than before disturb nothing.
LEMMA QuieterKept ==
    ASSUME NEW s, NEW w, Kept(s, w), NEW t \in AppRec,
           t.core = s.core, t.quit = s.quit, t.files = s.files, t.backup = s.backup,
           t.profiles.maintenance = s.profiles.maintenance,
           t.profiles.void \subseteq t.profiles.writing,
           FileBusy(t) => FileBusy(s)
    PROVE  Kept(t, w)
<1>1. Down(t) = Down(s) /\ Busy(t) = Busy(s)
  BY DEF Down, Busy
<1>2. CoreKept(t)
  BY DEF Kept, CoreKept, Down
<1>3. QuitKept(t)
  BY <1>1 DEF Kept, QuitKept
<1>4. BackupKept(t, w)
  BY <1>1 DEF Kept, BackupKept
<1> QED
  BY <1>2, <1>3, <1>4 DEF Kept

\* A generation that is voided is one less to wait for.
LEMMA CancelGenerationKept ==
    ASSUME NEW s, NEW w, Kept(s, w)
    PROVE  /\ Kept(CancelGeneration(s), w)
           /\ CancelGeneration(s) = [s EXCEPT !.profiles = CancelGeneration(s).profiles]
           /\ CancelGeneration(s).profiles.writing = s.profiles.writing
           /\ CancelGeneration(s).profiles.void = s.profiles.void
           /\ CancelGeneration(s).profiles.maintenance = s.profiles.maintenance
<1> DEFINE t == CancelGeneration(s)
<1>1. s \in AppRec
  BY DEF Kept
<1>2. /\ t \in AppRec /\ t.core = s.core /\ t.quit = s.quit /\ t.files = s.files
      /\ t.backup = s.backup /\ t.profiles.maintenance = s.profiles.maintenance
      /\ t.profiles.writing = s.profiles.writing /\ t.profiles.void = s.profiles.void
      /\ (t.profiles.runtime # "idle" => s.profiles.runtime # "idle")
  BY <1>1 DEF AppRec, ProfilesRec, CancelGeneration
<1>3. t = [s EXCEPT !.profiles = t.profiles]
  BY <1>1 DEF AppRec, CancelGeneration
<1> HIDE DEF t
<1>4. FileBusy(t) => FileBusy(s)
  BY <1>2 DEF FileBusy
<1>5. t.profiles.void \subseteq t.profiles.writing
  BY <1>2 DEF Kept
<1>6. Kept(t, w)
  BY <1>2, <1>4, <1>5, QuieterKept
<1> QED
  BY <1>2, <1>3, <1>6 DEF t

LEMMA ReloadManagedKept ==
    ASSUME NEW s, NEW w, Kept(s, w)
    PROVE  Kept(ReloadManaged(s), w)
<1> DEFINE t == ReloadManaged(s)
<1>1. s \in AppRec
  BY DEF Kept
<1>2. /\ t \in AppRec /\ t.core = s.core /\ t.quit = s.quit /\ t.files = s.files
      /\ t.backup = s.backup /\ t.profiles.maintenance = s.profiles.maintenance
      /\ t.profiles.writing = s.profiles.writing /\ t.profiles.void = s.profiles.void
      /\ t.profiles.runtime = s.profiles.runtime
  BY <1>1 DEF AppRec, ProfilesRec, ReloadManaged
<1> HIDE DEF t
<1>3. FileBusy(t) => FileBusy(s)
  BY <1>2 DEF FileBusy
<1>4. t.profiles.void \subseteq t.profiles.writing
  BY <1>2 DEF Kept
<1>5. Kept(t, w)
  BY <1>2, <1>3, <1>4, QuieterKept
<1> QED
  BY <1>5 DEF t

\* A generation begins only when no backup runs and nobody quits.
LEMMA RequestRuntimeConfigKept ==
    ASSUME NEW s, NEW w, Kept(s, w)
    PROVE  Kept(RequestRuntimeConfig(s), w)
<1> DEFINE t == RequestRuntimeConfig(s)
<1>1. s \in AppRec
  BY DEF Kept
<1>2. CASE s.profiles.maintenance \/ s.quit.quitting
  BY <1>2 DEF RequestRuntimeConfig
<1>3. CASE ~s.profiles.maintenance /\ ~s.quit.quitting
  <2>1. /\ t \in AppRec /\ t.core = s.core /\ t.quit = s.quit /\ t.files = s.files
        /\ t.backup = s.backup /\ t.profiles.maintenance = s.profiles.maintenance
        /\ t.profiles.writing = s.profiles.writing /\ t.profiles.void = s.profiles.void
    BY <1>1, <1>3 DEF AppRec, ProfilesRec, RequestRuntimeConfig
  <2> HIDE DEF t
  <2>2. /\ w.phase = "off" /\ ~s.backup.local /\ ~s.quit.cleaned /\ ~s.quit.approved
        /\ Down(t) = Down(s)
    BY <1>3, <2>1 DEF Kept, BackupKept, QuitKept, Down
  <2>3. QuitKept(t) /\ CoreKept(t)
    BY <1>3, <2>1, <2>2 DEF Kept, QuitKept, CoreKept
  <2>4. BackupKept(t, w)
    BY <2>1, <2>2 DEF Kept, BackupKept
  <2>5. Kept(t, w)
    BY <2>1, <2>3, <2>4 DEF Kept
  <2> QED
    BY <2>5 DEF t
<1> QED
  BY <1>2, <1>3

\* Snapshots that nobody uses are to be deleted.
LEMMA PruneSnapshotsKept ==
    ASSUME NEW s, NEW w, Kept(s, w), ~s.quit.approved
    PROVE  Kept(PruneSnapshots(s), w)
<1> DEFINE t == PruneSnapshots(s)
<1>1. s \in AppRec
  BY DEF Kept
<1>2. /\ t \in AppRec /\ t.core = s.core /\ t.quit = s.quit /\ t.profiles = s.profiles
      /\ t.backup = s.backup /\ t.files.generated \subseteq s.files.generated
  BY <1>1 DEF AppRec, FilesRec, PruneSnapshots
<1> HIDE DEF t
<1>3. FileBusy(t) = FileBusy(s) /\ Down(t) = Down(s) /\ Busy(t) = Busy(s)
  BY <1>2 DEF FileBusy, Down, Busy
<1>4. CoreKept(t) /\ BackupKept(t, w)
  BY <1>2, <1>3 DEF Kept, CoreKept, BackupKept
<1>5. QuitKept(t)
  BY <1>2, <1>3 DEF Kept, QuitKept
<1>6. Kept(t, w)
  BY <1>2, <1>4, <1>5 DEF Kept
<1> QED
  BY <1>6 DEF t

-----------------------------------------------------------------------------
(* The managed core, and the begin and the end of a backup *)

\* A stop ends at once, or the core is stopped for good.
LEMMA CoreStopKept ==
    ASSUME NEW s, NEW w, Kept(s, w)
    PROVE  Kept(CoreStop(s), w)
<1> DEFINE up == Live(s.core) \/ s.core.state = "Stopping"
           t == [s EXCEPT !.core.state = "Stopping", !.core.pending = NoConfig, !.core.asked = TRUE]
           v == [s EXCEPT !.core.state = "Stopped"]
<1>1. s \in AppRec /\ w \in WorkerRec
  BY DEF Kept
<1>2. CASE up
  <2>1. /\ t \in AppRec /\ t.quit = s.quit /\ t.files = s.files /\ t.profiles = s.profiles
        /\ t.backup = s.backup /\ t.core.state = "Stopping"
        /\ t.core.pending = NoConfig /\ t.core.asked = TRUE
    BY <1>1 DEF AppRec, CoreRec
  <2>2. CoreStop(s) = t
    BY <1>2 DEF CoreStop
  <2> HIDE DEF t
  <2>3. FileBusy(t) = FileBusy(s) /\ Busy(t) = Busy(s) /\ ~Down(t) /\ ~Down(s)
    BY <1>2, <2>1 DEF FileBusy, Busy, Down, Live
  <2>4. CoreKept(t)
    BY <2>1, <2>3 DEF CoreKept
  <2>5. QuitKept(t)
    BY <2>1, <2>3 DEF Kept, QuitKept
  <2>6. BackupKept(t, w)
    BY <2>1, <2>3 DEF Kept, BackupKept
  <2> QED
    BY <1>1, <2>1, <2>2, <2>4, <2>5, <2>6 DEF Kept
<1>3. CASE ~up
  <2>1. Down(s)
    BY <1>1, <1>3 DEF AppRec, CoreRec, Live, Down
  <2>2. /\ v \in AppRec /\ v.quit = s.quit /\ v.files = s.files /\ v.profiles = s.profiles
        /\ v.backup = s.backup /\ v.core.state = "Stopped"
        /\ v.core.pending = s.core.pending /\ v.core.asked = s.core.asked
    BY <1>1 DEF AppRec, CoreRec
  <2>3. CoreStop(s) = StopFinished(Stopped(v), TRUE)
    BY <1>3 DEF CoreStop
  <2> HIDE DEF v
  <2>4. FileBusy(v) = FileBusy(s) /\ Busy(v) = Busy(s) /\ Down(v) = TRUE /\ Down(s) = TRUE
    BY <2>1, <2>2 DEF FileBusy, Busy, Down
  <2>5. CoreKept(v)
    BY <2>1, <2>2, <2>4 DEF Kept, CoreKept, Down
  <2>6. QuitKept(v)
    BY <2>2, <2>4 DEF Kept, QuitKept
  <2>7. BackupKept(v, w)
    BY <2>2, <2>4 DEF Kept, BackupKept
  <2>8. Kept(v, w)
    BY <1>1, <2>2, <2>5, <2>6, <2>7 DEF Kept
  <2>9. Kept(Stopped(v), w) /\ Down(Stopped(v))
    BY <2>4, <2>8, StoppedKept DEF Down
  <2> QED
    BY <2>3, <2>9, StopFinishedKept
<1> QED
  BY <1>2, <1>3

\* A start disturbs no restore and no quit that is not there.
LEMMA CoreStartKept ==
    ASSUME NEW s, NEW w, Kept(s, w), NEW config \in Configs,
           ~s.quit.quitting, w.phase \notin {"asking", "replacing"}
    PROVE  Kept(CoreStart(s, config), w)
<1> DEFINE t == CoreStart(s, config)
<1>1. s \in AppRec /\ w \in WorkerRec
  BY DEF Kept
<1>2. /\ t \in AppRec /\ t.quit = s.quit /\ t.files = s.files /\ t.profiles = s.profiles
      /\ t.backup = s.backup /\ t.core.asked = FALSE /\ ~Down(t)
  BY <1>1 DEF AppRec, CoreRec, CoreStart, Live, Down
<1> HIDE DEF t
<1>3. FileBusy(t) = FileBusy(s) /\ Busy(t) = Busy(s)
  BY <1>2 DEF FileBusy, Busy
<1>4. CoreKept(t)
  BY <1>2 DEF CoreKept
<1>5. QuitKept(t)
  BY <1>2, <1>3 DEF Kept, QuitKept
<1>6. BackupKept(t, w)
  BY <1>2, <1>3 DEF Kept, BackupKept
<1>7. Kept(t, w)
  BY <1>1, <1>2, <1>4, <1>5, <1>6 DEF Kept
<1> QED
  BY <1>7 DEF t

\* A backup operation begins with the stores in maintenance and its thread
\* waiting for them.
LEMMA RunAsyncKept ==
    ASSUME NEW s, NEW w, Kept(s, w), ~s.backup.local, ~s.quit.quitting,
           s.backup.transfer = "none", NEW kind \in Operations \cup {"import"}
    PROVE  Kept(RunAsync(s, kind), [IdleWorker EXCEPT !.phase = "preparing"])
<1> DEFINE v == [IdleWorker EXCEPT !.phase = "preparing"]
           t == [SetMaintenance(s) EXCEPT
                    !.backup.local = TRUE, !.backup.kind = kind,
                    !.backup.operation = NewOperation, !.backup.waitingForFiles = TRUE]
<1>1. s \in AppRec /\ w \in WorkerRec
  BY DEF Kept
<1>2. v \in WorkerRec /\ v.phase = "preparing" /\ v.posted = <<>>
  BY DEF WorkerRec, IdleWorker
<1>3. /\ t \in AppRec /\ t.core = s.core /\ t.quit = s.quit /\ t.files = s.files
      /\ t.profiles.maintenance = TRUE /\ t.profiles.void = t.profiles.writing
      /\ t.backup.local = TRUE /\ t.backup.transfer = s.backup.transfer
      /\ t.backup.waitingForCore = s.backup.waitingForCore
      /\ t.backup.operation = NewOperation
  <2> DEFINE m == SetMaintenance(s)
  <2>1. /\ m \in AppRec /\ m.core = s.core /\ m.quit = s.quit /\ m.files = s.files
        /\ m.backup = s.backup
        /\ m.profiles.maintenance = TRUE /\ m.profiles.void = m.profiles.writing
    BY <1>1 DEF AppRec, ProfilesRec, SetMaintenance
  <2> HIDE DEF m
  <2>2. NewOperation \in OperationRec
    BY DEF OperationRec, NewOperation
  <2>3. t = [m EXCEPT
                !.backup.local = TRUE, !.backup.kind = kind,
                !.backup.operation = NewOperation, !.backup.waitingForFiles = TRUE]
    BY DEF m
  <2> HIDE DEF t
  <2> QED
    BY <2>1, <2>2, <2>3 DEF AppRec, BackupRec
<1> HIDE DEF v, t
<1>4. w.phase = "off" /\ ~s.backup.waitingForCore
  BY <1>1 DEF Kept, BackupKept
<1>5. CoreKept(t)
  BY <1>3 DEF Kept, CoreKept, Down
<1>6. QuitKept(t)
  BY <1>3 DEF Kept, QuitKept
<1>7. BackupKept(t, v)
  BY <1>2, <1>3, <1>4 DEF BackupKept, NewOperation
<1>8. Kept(t, v)
  BY <1>2, <1>3, <1>5, <1>6, <1>7 DEF Kept
<1> QED
  BY <1>8, ContinueWhenIdleKept DEF RunAsync, t, v

\* A quit cancels the backup operation that runs.
LEMMA UserQuitsKept ==
    ASSUME NEW s, NEW w, Kept(s, w), ~s.quit.quitting
    PROVE  Kept(CancelAsync([CancelGeneration(s) EXCEPT !.quit.quitting = TRUE,
                             !.quit.coreStopped = FALSE, !.profiles.reload = FALSE]), w)
<1> DEFINE c == CancelGeneration(s)
           q == [c EXCEPT !.quit.quitting = TRUE, !.quit.coreStopped = FALSE,
                          !.profiles.reload = FALSE]
           t == [q EXCEPT !.backup.transfer = "none",
                     !.backup.operation = IF q.backup.local
                         THEN [@ EXCEPT !.cancelled = TRUE, !.permission = TRUE, !.preparation = TRUE]
                         ELSE @]
<1>1. s \in AppRec /\ w \in WorkerRec
  BY DEF Kept
<1>2. Kept(c, w) /\ c \in AppRec /\ ~c.quit.quitting
  BY <1>1, CancelGenerationKept DEF Kept, AppRec
<1> HIDE DEF c
<1>3. /\ t \in AppRec /\ t.core = c.core /\ t.files = c.files
      /\ t.profiles.writing = c.profiles.writing /\ t.profiles.void = c.profiles.void
      /\ t.profiles.runtime = c.profiles.runtime
      /\ t.profiles.maintenance = c.profiles.maintenance
      /\ t.quit.quitting = TRUE /\ t.quit.coreStopped = FALSE
      /\ t.quit.warnings = c.quit.warnings /\ t.quit.proxyStopped = c.quit.proxyStopped
      /\ t.quit.cleaned = c.quit.cleaned /\ t.quit.approved = c.quit.approved
      /\ t.backup.local = c.backup.local /\ t.backup.transfer = "none"
      /\ t.backup.waitingForCore = c.backup.waitingForCore
      /\ t.backup.operation.approved = c.backup.operation.approved
      /\ (c.backup.local => t.backup.operation.cancelled = TRUE)
  BY <1>2 DEF AppRec, QuitRec, ProfilesRec, BackupRec, OperationRec
<1> HIDE DEF t
<1>4. FileBusy(t) = FileBusy(c) /\ Down(t) = Down(c)
  BY <1>3 DEF FileBusy, Down
<1>5. CoreKept(t)
  BY <1>2, <1>3, <1>4 DEF Kept, CoreKept
<1>6. QuitKept(t)
  BY <1>2, <1>3, <1>4 DEF Kept, QuitKept
<1>7. BackupKept(t, w)
  BY <1>2, <1>3, <1>4 DEF Kept, BackupKept
<1>8. t.profiles.void \subseteq t.profiles.writing
  BY <1>2, <1>3 DEF Kept
<1>9. Kept(t, w)
  BY <1>1, <1>3, <1>5, <1>6, <1>7, <1>8 DEF Kept
<1> QED
  BY <1>9, FinishQuitKept DEF CancelAsync, t, q, c

-----------------------------------------------------------------------------
(* What the actions keep *)

\* The core that runs is replaced, becomes ready or dies.
LEMMA CoreRetiresKept ==
    ASSUME Kept(app, worker), CoreRetires
    PROVE  Kept(app', worker')
<1> DEFINE t == [app EXCEPT !.core.state = "Stopping"]
<1>1. app \in AppRec
  BY DEF Kept
<1>2. /\ t \in AppRec /\ t.quit = app.quit /\ t.files = app.files /\ t.profiles = app.profiles
      /\ t.backup = app.backup /\ t.core.state = "Stopping" /\ t.core.asked = app.core.asked
      /\ ~Down(t) /\ ~Down(app) /\ ~app.core.asked
  BY <1>1, AppIsRecord DEF Kept, CoreKept, AppRec, CoreRec, CoreRetires, Live, Down
<1>3. app' = t
  BY AppIsRecord DEF CoreRetires, app
<1> HIDE DEF t
<1>4. FileBusy(t) = FileBusy(app) /\ Busy(t) = Busy(app)
  BY <1>2 DEF FileBusy, Busy
<1>5. CoreKept(t)
  BY <1>2 DEF CoreKept
<1>6. QuitKept(t) /\ BackupKept(t, worker)
  BY <1>2, <1>4 DEF Kept, QuitKept, BackupKept
<1>7. Kept(t, worker)
  BY <1>2, <1>5, <1>6 DEF Kept
<1> QED
  BY <1>3, <1>7 DEF CoreRetires

LEMMA CoreBecomesReadyKept ==
    ASSUME Kept(app, worker), CoreBecomesReady, ~quit.approved
    PROVE  Kept(app', worker')
<1> DEFINE t == [app EXCEPT !.core.state = "Running"]
<1>1. app \in AppRec
  BY DEF Kept
<1>2. /\ t \in AppRec /\ t.quit = app.quit /\ t.files = app.files /\ t.profiles = app.profiles
      /\ t.backup = app.backup /\ t.core.state = "Running" /\ t.core.asked = app.core.asked
      /\ ~Down(t) /\ ~Down(app) /\ ~app.core.asked
  BY <1>1, AppIsRecord DEF Kept, CoreKept, AppRec, CoreRec, CoreBecomesReady, Down
<1>3. Apply(PruneSnapshots(t))
  BY DEF CoreBecomesReady
<1> HIDE DEF t
<1>4. FileBusy(t) = FileBusy(app) /\ Busy(t) = Busy(app)
  BY <1>2 DEF FileBusy, Busy
<1>5. CoreKept(t)
  BY <1>2 DEF CoreKept
<1>6. QuitKept(t) /\ BackupKept(t, worker)
  BY <1>2, <1>4 DEF Kept, QuitKept, BackupKept
<1>7. Kept(t, worker)
  BY <1>2, <1>5, <1>6 DEF Kept
<1>8. Kept(PruneSnapshots(t), worker)
  BY <1>2, <1>7, AppIsRecord, PruneSnapshotsKept
<1>9. app' = PruneSnapshots(t)
  BY <1>3, <1>8, ApplyIsApp DEF Kept
<1> QED
  BY <1>8, <1>9 DEF CoreBecomesReady

LEMMA CoreDiesKept ==
    ASSUME Kept(app, worker), CoreDies
    PROVE  Kept(app', worker')
<1> DEFINE t == [app EXCEPT !.core = [core EXCEPT !.state = "Failed", !.pending = NoConfig]]
<1>1. app \in AppRec
  BY DEF Kept
<1>2. /\ t \in AppRec /\ t.quit = app.quit /\ t.files = app.files /\ t.profiles = app.profiles
      /\ t.backup = app.backup /\ t.core.state = "Failed" /\ t.core.pending = NoConfig
      /\ t.core.asked = app.core.asked /\ Down(t) /\ ~Down(app) /\ ~app.core.asked
  BY <1>1, AppIsRecord DEF Kept, CoreKept, AppRec, CoreRec, CoreDies, Live, Down
<1>3. app' = t
  BY AppIsRecord DEF CoreDies, app
<1> HIDE DEF t
<1>4. FileBusy(t) = FileBusy(app) /\ Busy(t) = Busy(app)
  BY <1>2 DEF FileBusy, Busy
<1>5. CoreKept(t)
  BY <1>2 DEF CoreKept
<1>6. app.quit.warnings \in 0 .. 2
  BY <1>1 DEF AppRec, QuitRec
<1>7. QuitKept(t)
  BY <1>2, <1>4, <1>6 DEF Kept, QuitKept
<1>8. BackupKept(t, worker)
  BY <1>2, <1>4 DEF Kept, BackupKept
<1>9. Kept(t, worker)
  BY <1>2, <1>5, <1>7, <1>8 DEF Kept
<1> QED
  BY <1>3, <1>9 DEF CoreDies

\* The end of a stop, with a replacement, or confirmed or not.
LEMMA CoreStopEndsKept ==
    ASSUME Kept(app, worker), NEW confirmed \in BOOLEAN, CoreStopEnds(confirmed)
    PROVE  Kept(app', worker')
<1>1. /\ app \in AppRec /\ worker \in WorkerRec /\ worker' = worker
      /\ app.core.state = "Stopping" /\ ~Down(app)
  BY AppIsRecord DEF Kept, CoreStopEnds, Down
<1>2. CASE core.pending # NoConfig
  <2> DEFINE t == [app EXCEPT !.core = [@ EXCEPT !.state = "Starting",
                                   !.config = core.pending, !.pending = NoConfig]]
  <2>1. /\ t \in AppRec /\ t.quit = app.quit /\ t.files = app.files
        /\ t.profiles = app.profiles /\ t.backup = app.backup
        /\ t.core.asked = app.core.asked /\ ~Down(t) /\ ~app.core.asked
    BY <1>1, <1>2, AppIsRecord DEF Kept, CoreKept, AppRec, CoreRec, Down
  <2>2. Apply(t)
    BY <1>2 DEF CoreStopEnds
  <2> HIDE DEF t
  <2>3. FileBusy(t) = FileBusy(app) /\ Busy(t) = Busy(app)
    BY <2>1 DEF FileBusy, Busy
  <2>4. CoreKept(t)
    BY <2>1 DEF CoreKept
  <2>5. QuitKept(t) /\ BackupKept(t, worker)
    BY <1>1, <2>1, <2>3 DEF Kept, QuitKept, BackupKept
  <2>6. Kept(t, worker)
    BY <1>1, <2>1, <2>4, <2>5 DEF Kept
  <2>7. app' = t
    BY <2>1, <2>2, ApplyIsApp
  <2> QED
    BY <1>1, <2>6, <2>7
<1>3. CASE core.pending = NoConfig
  <2> DEFINE state == IF confirmed THEN "Stopped" ELSE "Failed"
             t == [app EXCEPT !.core.state = state, !.core.asked = FALSE]
  <2>1. /\ t \in AppRec /\ t.quit = app.quit /\ t.files = app.files
        /\ t.profiles = app.profiles /\ t.backup = app.backup
        /\ t.core.pending = NoConfig /\ t.core.asked = FALSE /\ Down(t)
    BY <1>1, <1>3, AppIsRecord DEF AppRec, CoreRec, Down
  <2>2. IF confirmed THEN Apply(StopFinished(Stopped(t), TRUE))
        ELSE Apply(IF core.asked THEN StopFinished(t, FALSE) ELSE t)
    BY <1>3 DEF CoreStopEnds
  <2> HIDE DEF t, state
  <2>3. FileBusy(t) = FileBusy(app) /\ Busy(t) = Busy(app)
    BY <2>1 DEF FileBusy, Busy
  <2>4. CoreKept(t)
    BY <2>1 DEF CoreKept
  <2>5. app.quit.quitting => app.quit.warnings <= (IF app.quit.proxyStopped THEN 1 ELSE 0)
    <3>1. app.quit.warnings \in 0 .. 2
      BY <1>1 DEF AppRec, QuitRec
    <3> QED
      BY <1>1, <3>1 DEF Kept, QuitKept
  <2>6. QuitKept(t)
    <3>1. app.quit.warnings \in 0 .. 2
      BY <1>1 DEF AppRec, QuitRec
    <3> QED
      BY <1>1, <2>1, <2>3, <2>5, <3>1 DEF Kept, QuitKept
  <2>7. BackupKept(t, worker)
    BY <1>1, <2>1, <2>3 DEF Kept, BackupKept
  <2>8. Kept(t, worker)
    BY <1>1, <2>1, <2>4, <2>6, <2>7 DEF Kept
  <2>9. Kept(Stopped(t), worker) /\ Down(Stopped(t))
    BY <2>1, <2>8, StoppedKept DEF Down
  <2>10. Kept(StopFinished(Stopped(t), TRUE), worker)
    BY <2>9, StopFinishedKept
  <2>11. Kept(StopFinished(t, FALSE), worker)
    BY <2>1, <2>5, <2>8, StopFinishedKept
  <2>12. Kept(app', worker)
    <3>1. CASE confirmed
      BY <2>2, <2>10, <3>1, ApplyIsApp DEF Kept
    <3>2. CASE ~confirmed /\ core.asked
      BY <2>2, <2>11, <3>2, ApplyIsApp DEF Kept
    <3>3. CASE ~confirmed /\ ~core.asked
      BY <2>2, <2>8, <3>3, ApplyIsApp DEF Kept
    <3> QED
      BY <3>1, <3>2, <3>3
  <2> QED
    BY <1>1, <2>12
<1> QED
  BY <1>2, <1>3

\* A store's change, its end, and the configuration made of it.
LEMMA UserEditsKept ==
    ASSUME Kept(app, worker), NEW store \in Stores, UserEdits(store)
    PROVE  Kept(app', worker')
<1> DEFINE c == IF store = "profiles" THEN CancelGeneration(app) ELSE app
           t == [c EXCEPT !.profiles.writing = @ \cup {store}]
<1>1. Kept(c, worker) /\ ~c.quit.quitting /\ ~c.profiles.maintenance
  <2>1. ~app.quit.quitting /\ ~app.profiles.maintenance
    BY AppIsRecord DEF UserEdits, UserActs
  <2>2. Kept(CancelGeneration(app), worker)
        /\ CancelGeneration(app).profiles.maintenance = app.profiles.maintenance
        /\ CancelGeneration(app).quit = app.quit
    BY CancelGenerationKept DEF Kept, AppRec
  <2> QED
    BY <2>1, <2>2
<1>2. Apply(t) /\ worker' = worker
  BY DEF UserEdits
<1> HIDE DEF c
<1>3. /\ t \in AppRec /\ t.core = c.core /\ t.quit = c.quit /\ t.files = c.files
      /\ t.backup = c.backup /\ t.profiles.maintenance = c.profiles.maintenance
      /\ t.profiles.void = c.profiles.void
      /\ t.profiles.writing = c.profiles.writing \cup {store}
  BY <1>1 DEF Kept, AppRec, ProfilesRec
<1> HIDE DEF t
<1>4. Busy(t) = Busy(c) /\ Down(t) = Down(c)
  BY <1>3 DEF Busy, Down
<1>5. CoreKept(t) /\ QuitKept(t)
  BY <1>1, <1>3, <1>4 DEF Kept, CoreKept, QuitKept
<1>6. BackupKept(t, worker)
  BY <1>1, <1>3, <1>4 DEF Kept, BackupKept
<1>7. t.profiles.void \subseteq t.profiles.writing
  BY <1>1, <1>3 DEF Kept
<1>8. Kept(t, worker)
  BY <1>1, <1>3, <1>5, <1>6, <1>7 DEF Kept
<1> QED
  BY <1>2, <1>3, <1>8, ApplyIsApp

LEMMA WriteEndsKept ==
    ASSUME Kept(app, worker), NEW store \in Stores, WriteEnds(store)
    PROVE  Kept(app', worker')
<1> DEFINE t == [app EXCEPT !.profiles.writing = @ \ {store}, !.profiles.void = @ \ {store}]
           u == CancelGeneration(t)
           v == ReloadManaged(u)
<1>1. (Apply(ContinueWhenIdle(v)) \/ Apply(ContinueWhenIdle(t))) /\ worker' = worker
  BY DEF WriteEnds
<1>2. /\ t \in AppRec /\ t.core = app.core /\ t.quit = app.quit /\ t.files = app.files
      /\ t.backup = app.backup /\ t.profiles.maintenance = app.profiles.maintenance
      /\ t.profiles.void = app.profiles.void \ {store}
      /\ t.profiles.writing = app.profiles.writing \ {store}
      /\ t.profiles.runtime = app.profiles.runtime
  BY DEF Kept, AppRec, ProfilesRec
<1> HIDE DEF t
<1>3. FileBusy(t) => FileBusy(app)
  BY <1>2 DEF FileBusy
<1>4. t.profiles.void \subseteq t.profiles.writing
  BY <1>2 DEF Kept
<1>5. Kept(t, worker)
  BY <1>2, <1>3, <1>4, QuieterKept
<1>6. Kept(u, worker)
  BY <1>5, CancelGenerationKept
<1> HIDE DEF u
<1>7. Kept(v, worker)
  BY <1>6, ReloadManagedKept
<1> HIDE DEF v
<1>8. Kept(ContinueWhenIdle(v), worker) /\ Kept(ContinueWhenIdle(t), worker)
  BY <1>5, <1>7, ContinueWhenIdleKept
<1>9. app' = ContinueWhenIdle(v) \/ app' = ContinueWhenIdle(t)
  BY <1>1, <1>8, ApplyIsApp DEF Kept
<1> QED
  BY <1>1, <1>8, <1>9

LEMMA GenerationEndsKept ==
    ASSUME Kept(app, worker), GenerationEnds
    PROVE  Kept(app', worker')
<1> DEFINE t == [app EXCEPT !.profiles.runtime = "idle"]
<1>1. app \in AppRec /\ worker' = worker /\ FileBusy(app)
  BY AppIsRecord DEF Kept, GenerationEnds, FileBusy
<1>2. \/ Apply(ContinueWhenIdle(t))
      \/ /\ profiles.runtime = "running"
         /\ \E config \in Configs \ (files.generated \cup files.doomed) :
              Apply(IF quit.quitting THEN [t EXCEPT !.files.generated = @ \cup {config}]
                    ELSE CoreStart([t EXCEPT !.files.generated = @ \cup {config}], config))
  BY DEF GenerationEnds
<1>3. /\ t \in AppRec /\ t.core = app.core /\ t.quit = app.quit /\ t.files = app.files
      /\ t.backup = app.backup /\ t.profiles.maintenance = app.profiles.maintenance
      /\ t.profiles.void = app.profiles.void /\ t.profiles.writing = app.profiles.writing
  BY <1>1 DEF AppRec, ProfilesRec
<1> HIDE DEF t
<1>4. t.profiles.void \subseteq t.profiles.writing
  BY <1>3 DEF Kept
<1>5. Kept(t, worker)
  BY <1>1, <1>3, <1>4, QuieterKept
<1>6. CASE Apply(ContinueWhenIdle(t))
  <2>1. Kept(ContinueWhenIdle(t), worker)
    BY <1>5, ContinueWhenIdleKept
  <2>2. app' = ContinueWhenIdle(t)
    BY <1>6, <2>1, ApplyIsApp DEF Kept
  <2> QED
    BY <1>1, <2>1, <2>2
<1>7. CASE ~Apply(ContinueWhenIdle(t))
  <2>1. PICK config \in Configs :
            Apply(IF quit.quitting THEN [t EXCEPT !.files.generated = @ \cup {config}]
                  ELSE CoreStart([t EXCEPT !.files.generated = @ \cup {config}], config))
    BY <1>2, <1>7
  <2> DEFINE u == [t EXCEPT !.files.generated = @ \cup {config}]
  <2>2. /\ u \in AppRec /\ u.core = t.core /\ u.quit = t.quit /\ u.profiles = t.profiles
        /\ u.backup = t.backup
    BY <1>3 DEF AppRec, FilesRec
  <2>3. Apply(IF quit.quitting THEN u ELSE CoreStart(u, config))
    BY <2>1
  <2> HIDE DEF u
  <2>4. ~t.quit.cleaned /\ ~t.quit.approved /\ worker.phase \notin {"asking", "replacing"}
    BY <1>1, <1>3 DEF Kept, QuitKept, BackupKept
  <2>5. FileBusy(u) = FileBusy(t) /\ Down(u) = Down(t)
    BY <2>2 DEF FileBusy, Down
  <2>6. CoreKept(u) /\ QuitKept(u) /\ BackupKept(u, worker)
    BY <1>5, <2>2, <2>4, <2>5 DEF Kept, CoreKept, QuitKept, BackupKept
  <2>7. Kept(u, worker)
    BY <1>5, <2>2, <2>6 DEF Kept
  <2>8. ~quit.quitting => Kept(CoreStart(u, config), worker)
    BY <1>3, <2>2, <2>4, <2>7, CoreStartKept, AppIsRecord
  <2> QED
    BY <1>1, <2>3, <2>7, <2>8, ApplyIsApp DEF Kept
<1> QED
  BY <1>6, <1>7

LEMMA ReloadTimeoutKept ==
    ASSUME Kept(app, worker), ReloadTimeout
    PROVE  Kept(app', worker')
<1> DEFINE t == [app EXCEPT !.profiles.reload = FALSE]
           v == IF CanReload(t) THEN RequestRuntimeConfig(t) ELSE t
<1>1. Apply(v) /\ worker' = worker
  BY DEF ReloadTimeout
<1>2. /\ t \in AppRec /\ t.core = app.core /\ t.quit = app.quit /\ t.files = app.files
      /\ t.backup = app.backup /\ t.profiles.maintenance = app.profiles.maintenance
      /\ t.profiles.void = app.profiles.void /\ t.profiles.writing = app.profiles.writing
      /\ t.profiles.runtime = app.profiles.runtime
  BY DEF Kept, AppRec, ProfilesRec
<1> HIDE DEF t
<1>3. FileBusy(t) => FileBusy(app)
  BY <1>2 DEF FileBusy
<1>4. t.profiles.void \subseteq t.profiles.writing
  BY <1>2 DEF Kept
<1>5. Kept(t, worker)
  BY <1>2, <1>3, <1>4, QuieterKept
<1>6. Kept(v, worker)
  BY <1>5, RequestRuntimeConfigKept
<1> QED
  BY <1>1, <1>6, ApplyIsApp DEF Kept

LEMMA DeleteSnapshotsKept ==
    ASSUME Kept(app, worker), DeleteSnapshots
    PROVE  Kept(app', worker')
<1> DEFINE t == [app EXCEPT !.files = [files EXCEPT !.doomed = {}]]
<1>1. /\ t \in AppRec /\ t.core = app.core /\ t.quit = app.quit /\ t.profiles = app.profiles
      /\ t.backup = app.backup /\ t.files.generated = app.files.generated
      /\ t.files.doomed = {}
  BY AppIsRecord DEF Kept, AppRec, FilesRec
<1>2. app' = t /\ worker' = worker
  BY AppIsRecord DEF DeleteSnapshots, app
<1> HIDE DEF t
<1>3. FileBusy(t) = FileBusy(app) /\ Down(t) = Down(app) /\ Busy(t) = Busy(app)
  BY <1>1 DEF FileBusy, Down, Busy
<1>4. CoreKept(t) /\ QuitKept(t) /\ BackupKept(t, worker)
  BY <1>1, <1>3 DEF Kept, CoreKept, QuitKept, BackupKept
<1>5. Kept(t, worker)
  BY <1>1, <1>4 DEF Kept
<1> QED
  BY <1>2, <1>5

\* The user starts and stops the core.
LEMMA UserCoreKept ==
    ASSUME Kept(app, worker), UserStartsCore \/ UserStopsCore
    PROVE  Kept(app', worker')
<1>1. worker' = worker
  BY DEF UserStartsCore, UserStopsCore
<1>2. Kept(RequestRuntimeConfig(app), worker) /\ Kept(CoreStop(CancelGeneration(app)), worker)
  BY RequestRuntimeConfigKept, CoreStopKept, CancelGenerationKept
<1>3. Apply(RequestRuntimeConfig(app)) \/ Apply(CoreStop(CancelGeneration(app)))
  BY DEF UserStartsCore, UserStopsCore
<1> QED
  BY <1>1, <1>2, <1>3, ApplyIsApp DEF Kept

-----------------------------------------------------------------------------
(* Backups begin, ask and end *)

LEMMA UserStartsBackupKept ==
    ASSUME Kept(app, worker), NEW kind \in Operations, UserStartsBackup(kind)
    PROVE  Kept(app', worker')
<1> DEFINE v == [IdleWorker EXCEPT !.phase = "preparing"]
<1>1. app \in AppRec /\ ~app.quit.quitting /\ ~Busy(app)
  BY AppIsRecord DEF Kept, UserStartsBackup, UserActs
<1>2. IF kind = "download"
      THEN Apply([app EXCEPT !.backup.transfer = kind]) /\ worker' = worker
      ELSE Apply(RunAsync(app, kind)) /\ worker' = v
  BY DEF UserStartsBackup
<1>3. CASE kind = "download"
  <2> DEFINE t == [app EXCEPT !.backup.transfer = kind]
  <2>1. /\ t \in AppRec /\ t.core = app.core /\ t.quit = app.quit /\ t.files = app.files
        /\ t.profiles = app.profiles /\ t.backup.local = app.backup.local
        /\ t.backup.operation = app.backup.operation
        /\ t.backup.waitingForCore = app.backup.waitingForCore
    BY <1>1, <1>3 DEF AppRec, BackupRec
  <2>2. Apply(t) /\ worker' = worker
    BY <1>2, <1>3
  <2> HIDE DEF t
  <2>3. FileBusy(t) = FileBusy(app) /\ Down(t) = Down(app) /\ ~app.backup.local
    BY <1>1, <2>1 DEF FileBusy, Down, Busy
  <2>4. CoreKept(t) /\ QuitKept(t) /\ BackupKept(t, worker)
    BY <1>1, <2>1, <2>3 DEF Kept, CoreKept, QuitKept, BackupKept
  <2>5. Kept(t, worker)
    BY <2>1, <2>4 DEF Kept
  <2> QED
    BY <2>1, <2>2, <2>5, ApplyIsApp
<1>4. CASE kind # "download"
  <2> HIDE DEF v
  <2>1. ~app.backup.local /\ app.backup.transfer = "none"
    BY <1>1 DEF Busy
  <2>2. Kept(RunAsync(app, kind), v)
    BY <1>1, <2>1, RunAsyncKept DEF v
  <2> QED
    BY <1>2, <1>4, <2>2, ApplyIsApp DEF Kept
<1> QED
  BY <1>3, <1>4

LEMMA TransferEndsKept ==
    ASSUME Kept(app, worker), NEW ok \in BOOLEAN, TransferEnds(ok)
    PROVE  Kept(app', worker')
<1> DEFINE t == [app EXCEPT !.backup.transfer = "none"]
           v == [IdleWorker EXCEPT !.phase = "preparing"]
<1>1. app \in AppRec /\ ~app.quit.quitting /\ ~app.backup.local
  BY AppIsRecord DEF Kept, TransferEnds, QuitKept, BackupKept
<1>2. \/ Apply(RunAsync(t, "import")) /\ worker' = v
      \/ Apply(FinishQuit(t)) /\ worker' = worker
  BY DEF TransferEnds
<1>3. /\ t \in AppRec /\ t.core = app.core /\ t.quit = app.quit /\ t.files = app.files
      /\ t.profiles = app.profiles /\ t.backup.local = app.backup.local
      /\ t.backup.operation = app.backup.operation /\ t.backup.transfer = "none"
      /\ t.backup.waitingForCore = app.backup.waitingForCore
  BY <1>1 DEF AppRec, BackupRec
<1> HIDE DEF t, v
<1>4. FileBusy(t) = FileBusy(app) /\ Down(t) = Down(app)
  BY <1>3 DEF FileBusy, Down
<1>5. CoreKept(t) /\ QuitKept(t) /\ BackupKept(t, worker)
  BY <1>1, <1>3, <1>4 DEF Kept, CoreKept, QuitKept, BackupKept
<1>6. Kept(t, worker)
  BY <1>3, <1>5 DEF Kept
<1>7. Kept(RunAsync(t, "import"), v)
  BY <1>1, <1>3, <1>6, RunAsyncKept DEF v
<1>8. Kept(FinishQuit(t), worker)
  BY <1>6, FinishQuitKept
<1> QED
  BY <1>2, <1>7, <1>8, ApplyIsApp DEF Kept

\* A signal that was delivered is no longer on its way.
LEMMA PostedOnce ==
    ASSUME NEW w \in WorkerRec, w.posted # <<>>
    PROVE  /\ [w EXCEPT !.posted = Tail(@)] \in WorkerRec
           /\ [w EXCEPT !.posted = Tail(@)].posted = <<>>
           /\ [w EXCEPT !.posted = Tail(@)].phase = w.phase
<1>1. w.posted \in {<<"restorePrepared">>, <<"restored">>}
  BY DEF WorkerRec
<1>2. Tail(<<"restorePrepared">>) = <<>> /\ Tail(<<"restored">>) = <<>>
  OBVIOUS
<1>3. Tail(w.posted) = <<>>
  BY <1>1, <1>2
<1> QED
  BY <1>3 DEF WorkerRec

LEMMA RestorePreparedKept ==
    ASSUME Kept(app, worker), RestorePrepared
    PROVE  Kept(app', worker')
<1> DEFINE v == [worker EXCEPT !.posted = Tail(@)]
           t == [app EXCEPT !.backup.waitingForCore = TRUE]
<1>1. app \in AppRec /\ worker \in WorkerRec /\ worker.posted # <<>>
  BY DEF Kept, RestorePrepared
<1>2. Apply(CoreStop(t)) /\ worker' = v
  BY DEF RestorePrepared
<1>3. v \in WorkerRec /\ v.posted = <<>> /\ v.phase = worker.phase
  BY <1>1, PostedOnce
<1>4. /\ t \in AppRec /\ t.core = app.core /\ t.quit = app.quit /\ t.files = app.files
      /\ t.profiles = app.profiles /\ t.backup.local = app.backup.local
      /\ t.backup.operation = app.backup.operation
      /\ t.backup.transfer = app.backup.transfer
  BY <1>1 DEF AppRec, BackupRec
<1> HIDE DEF t, v
<1>5. FileBusy(t) = FileBusy(app) /\ Down(t) = Down(app) /\ Busy(t) = Busy(app)
  BY <1>4 DEF FileBusy, Down, Busy
<1>6. CoreKept(t) /\ QuitKept(t)
  BY <1>4, <1>5 DEF Kept, CoreKept, QuitKept
<1>7. BackupKept(t, v)
  BY <1>1, <1>3, <1>4, <1>5 DEF Kept, BackupKept
<1>8. Kept(t, v)
  BY <1>3, <1>4, <1>6, <1>7 DEF Kept
<1>9. Kept(CoreStop(t), v)
  BY <1>8, CoreStopKept
<1> QED
  BY <1>2, <1>9, ApplyIsApp DEF Kept

LEMMA RestoredKept ==
    ASSUME Kept(app, worker), Restored
    PROVE  Kept(app', worker')
<1> DEFINE v == [worker EXCEPT !.posted = Tail(@)]
<1>1. worker \in WorkerRec /\ worker.posted # <<>>
  BY DEF Kept, Restored
<1>2. Apply(ReloadManaged(app)) /\ worker' = v
  BY DEF Restored
<1>3. v \in WorkerRec /\ v.posted = <<>> /\ v.phase = worker.phase
  BY <1>1, PostedOnce
<1> HIDE DEF v
<1>4. BackupKept(app, v)
  BY <1>1, <1>3 DEF Kept, BackupKept
<1>5. Kept(app, v)
  BY <1>3, <1>4 DEF Kept
<1>6. Kept(ReloadManaged(app), v)
  BY <1>5, ReloadManagedKept
<1> QED
  BY <1>2, <1>6, ApplyIsApp DEF Kept

LEMMA ThreadFinishedKept ==
    ASSUME Kept(app, worker), ThreadFinished
    PROVE  Kept(app', worker')
<1> DEFINE t == [app EXCEPT !.backup.local = FALSE, !.backup.waitingForCore = FALSE,
                            !.backup.waitingForFiles = FALSE,
                            !.profiles.maintenance = quit.quitting]
           upload == backup.kind = "upload" /\ worker.success /\ ~backup.operation.cancelled
           u == IF upload THEN [t EXCEPT !.backup.transfer = "upload"] ELSE t
<1>1. app \in AppRec /\ worker.phase = "finished" /\ quit = app.quit /\ backup = app.backup
  BY AppIsRecord DEF Kept, ThreadFinished
<1>2. Apply(FinishQuit(u)) /\ worker' = IdleWorker
  BY DEF ThreadFinished
<1>3. IdleWorker \in WorkerRec /\ IdleWorker.phase = "off" /\ IdleWorker.posted = <<>>
  BY DEF IdleWorker, WorkerRec
<1>4. app.backup.local /\ ~app.quit.approved /\ (upload => ~app.quit.quitting)
  BY <1>1 DEF Kept, QuitKept, BackupKept, Busy
<1>5. app.quit.quitting \in BOOLEAN
  BY <1>1 DEF AppRec, QuitRec
<1>6. /\ u \in AppRec /\ u.core = app.core /\ u.quit = app.quit /\ u.files = app.files
      /\ u.profiles.writing = app.profiles.writing /\ u.profiles.void = app.profiles.void
      /\ u.profiles.runtime = app.profiles.runtime
      /\ u.backup.local = FALSE /\ u.backup.waitingForCore = FALSE
      /\ u.backup.transfer = IF upload THEN "upload" ELSE app.backup.transfer
  BY <1>1, <1>5 DEF AppRec, BackupRec, ProfilesRec
<1> HIDE DEF u, upload
<1>7. FileBusy(u) = FileBusy(app) /\ Down(u) = Down(app)
  BY <1>6 DEF FileBusy, Down
<1>8. CoreKept(u)
  BY <1>6, <1>7 DEF Kept, CoreKept
<1>9. QuitKept(u)
  BY <1>4, <1>6, <1>7 DEF Kept, QuitKept
<1>10. BackupKept(u, IdleWorker)
  BY <1>3, <1>6, <1>7 DEF Kept, BackupKept
<1>11. u.profiles.void \subseteq u.profiles.writing
  BY <1>6 DEF Kept
<1>12. Kept(u, IdleWorker)
  BY <1>3, <1>6, <1>8, <1>9, <1>10, <1>11 DEF Kept
<1>13. Kept(FinishQuit(u), IdleWorker)
  BY <1>12, FinishQuitKept
<1> QED
  BY <1>2, <1>13, ApplyIsApp DEF Kept

-----------------------------------------------------------------------------
(* Quitting *)

LEMMA ProxyShutdownKept ==
    ASSUME Kept(app, worker), NEW success \in BOOLEAN, ProxyShutdownFinished(success)
    PROVE  Kept(app', worker')
<1> DEFINE t == [app EXCEPT !.quit.proxyStopped = TRUE]
           u == IF success THEN t ELSE Warn(t)
<1>1. /\ app \in AppRec /\ worker' = worker /\ app.quit.quitting /\ ~app.quit.proxyStopped
      /\ Apply(FinishQuit(CoreStop(u)))
  BY AppIsRecord DEF Kept, ProxyShutdownFinished
<1>2. app.quit.warnings \in 0 .. 2 /\ app.quit.warnings <= (IF Down(app) THEN 1 ELSE 0)
  BY <1>1 DEF Kept, QuitKept, AppRec, QuitRec
<1>3. app.quit.warnings + 1 \in 0 .. 2
  BY <1>2
<1>4. /\ u \in AppRec /\ u.core = app.core /\ u.files = app.files
      /\ u.profiles = app.profiles /\ u.backup = app.backup
      /\ u.quit.quitting = app.quit.quitting /\ u.quit.proxyStopped = TRUE
      /\ u.quit.coreStopped = app.quit.coreStopped /\ u.quit.cleaned = app.quit.cleaned
      /\ u.quit.approved = app.quit.approved
      /\ u.quit.warnings = IF success THEN app.quit.warnings ELSE app.quit.warnings + 1
  BY <1>1, <1>3 DEF AppRec, QuitRec, Warn
<1> HIDE DEF u
<1>5. FileBusy(u) = FileBusy(app) /\ Down(u) = Down(app) /\ Busy(u) = Busy(app)
  BY <1>4 DEF FileBusy, Down, Busy
<1>6. CoreKept(u) /\ BackupKept(u, worker)
  BY <1>4, <1>5 DEF Kept, CoreKept, BackupKept
<1>7. u.quit.warnings <= 1 + (IF Down(u) THEN 1 ELSE 0)
  BY <1>2, <1>4, <1>5
<1>8. QuitKept(u)
  BY <1>1, <1>4, <1>5, <1>7 DEF Kept, QuitKept
<1>9. Kept(u, worker)
  BY <1>4, <1>6, <1>8 DEF Kept
<1>10. Kept(FinishQuit(CoreStop(u)), worker)
  BY <1>9, CoreStopKept, FinishQuitKept
<1> QED
  BY <1>1, <1>10, ApplyIsApp DEF Kept

LEMMA WarningClosesKept ==
    ASSUME Kept(app, worker), WarningCloses, ~quit.approved
    PROVE  Kept(app', worker')
<1> DEFINE t == [app EXCEPT !.quit.warnings = @ - 1]
<1>1. /\ app \in AppRec /\ worker' = worker /\ app.quit.warnings > 0 /\ ~app.quit.approved
      /\ Apply(FinishQuit(t))
  BY AppIsRecord DEF Kept, WarningCloses
<1>2. app.quit.warnings \in 0 .. 2
  BY <1>1 DEF AppRec, QuitRec
<1>3. app.quit.warnings - 1 \in 0 .. 2
  BY <1>1, <1>2
<1>4. /\ t \in AppRec /\ t.core = app.core /\ t.files = app.files
      /\ t.profiles = app.profiles /\ t.backup = app.backup
      /\ t.quit.quitting = app.quit.quitting /\ t.quit.proxyStopped = app.quit.proxyStopped
      /\ t.quit.coreStopped = app.quit.coreStopped /\ t.quit.cleaned = app.quit.cleaned
      /\ t.quit.approved = app.quit.approved /\ t.quit.warnings = app.quit.warnings - 1
  BY <1>1, <1>3 DEF AppRec, QuitRec
<1> HIDE DEF t
<1>5. FileBusy(t) = FileBusy(app) /\ Down(t) = Down(app) /\ Busy(t) = Busy(app)
  BY <1>4 DEF FileBusy, Down, Busy
<1>6. CoreKept(t) /\ BackupKept(t, worker)
  BY <1>4, <1>5 DEF Kept, CoreKept, BackupKept
<1>7. app.quit.quitting
  BY <1>1 DEF Kept, QuitKept
<1>8. QuitKept(t)
  BY <1>1, <1>2, <1>4, <1>5, <1>7 DEF Kept, QuitKept
<1>9. Kept(t, worker)
  BY <1>4, <1>6, <1>8 DEF Kept
<1>10. Kept(FinishQuit(t), worker)
  BY <1>9, FinishQuitKept
<1> QED
  BY <1>1, <1>10, ApplyIsApp DEF Kept

LEMMA QuitKeptByAll ==
    ASSUME Kept(app, worker), UserQuits \/ ShutdownPoll
    PROVE  Kept(app', worker')
<1>1. CASE UserQuits
  <2> DEFINE t == CancelAsync([CancelGeneration(app) EXCEPT !.quit.quitting = TRUE,
                             !.quit.coreStopped = FALSE, !.profiles.reload = FALSE])
  <2>1. Apply(t) /\ worker' = worker /\ ~app.quit.quitting
    BY <1>1, AppIsRecord DEF UserQuits
  <2>2. Kept(t, worker)
    BY <2>1, UserQuitsKept
  <2> HIDE DEF t
  <2> QED
    BY <2>1, <2>2, ApplyIsApp DEF Kept
<1>2. CASE ShutdownPoll
  BY <1>2, FinishQuitKept, ApplyIsApp DEF Kept, ShutdownPoll
<1> QED
  BY <1>1, <1>2

-----------------------------------------------------------------------------
(* The worker's steps, as the window sees them *)

LEMMA WorkerKept ==
    ASSUME Kept(app, worker), NEW v \in WorkerRec, worker.phase # "off",
           UNCHANGED <<core, quit, files, profiles, backup>>, worker' = v,
           \/ v.phase = "finished"
           \/ v.phase = worker.phase /\ v.posted = worker.posted
           \/ /\ worker.phase = "preparing" /\ v.phase = "saving" /\ v.posted = worker.posted
              /\ app.backup.operation.preparation /\ ~app.backup.operation.cancelled
           \/ worker.phase = "saving" /\ v.phase = "asking"
           \/ /\ worker.phase = "asking" /\ v.phase = "replacing"
              /\ app.backup.operation.approved
    PROVE  Kept(app', worker')
<1>1. app' = app
  BY SameIsApp
<1>2. BackupKept(app, v)
  BY DEF Kept, BackupKept
<1>3. Kept(app, v)
  BY <1>2 DEF Kept
<1> QED
  BY <1>1, <1>3

-----------------------------------------------------------------------------
(* The files *)

\* What is left of a restore that does not go on.
Whole(d) ==
    \/ d.now = d.before /\ d.aside = {}
    \/ \A r \in Roots : d.now[r] = "new"
    \/ /\ d.kept
       /\ \A r \in Roots : \/ r \in d.aside \/ d.now[r] = d.before[r]
                           \/ d.before[r] = "gone"

LEMMA WholeIsAllOrNothing ==
    /\ RestoreIsAllOrNothing <=> (worker.phase # "replacing" => Whole(disk))
    /\ RestoreIsAllOrNothing' <=> (worker'.phase # "replacing" => Whole(disk'))
BY DEF RestoreIsAllOrNothing, Whole

\* A rollback brings everything back, or keeps the originals aside.
LEMMA RollbackLeavesWhole ==
    ASSUME NEW d \in DiskRec, NEW stuck \in SUBSET Roots,
           \A r \in Roots : \/ r \in d.aside
                            \/ IF r \in d.installed THEN d.before[r] = "gone"
                               ELSE d.now[r] = d.before[r]
    PROVE  Rollback(d, stuck) \in DiskRec /\ Whole(Rollback(d, stuck))
<1> DEFINE t == Rollback(d, stuck)
           removed == d.installed \ stuck
           back == {r \in d.aside \ stuck : r \notin d.installed \/ r \in removed}
           now == [r \in Roots |-> IF r \in back THEN d.before[r]
                                   ELSE IF r \in removed THEN "gone" ELSE d.now[r]]
<1>1. now \in [Roots -> {"old", "new", "gone"}]
  BY DEF DiskRec
<1>2. t = [d EXCEPT !.now = now, !.aside = @ \ back,
                    !.kept = (stuck \cap (d.installed \cup d.aside) # {})]
  BY DEF Rollback
<1>3. \A r \in Roots : now[r] = IF r \in back THEN d.before[r]
                                ELSE IF r \in removed THEN "gone" ELSE d.now[r]
  OBVIOUS
<1> HIDE DEF now, t
<1>4. /\ t \in DiskRec /\ t.now = now /\ t.before = d.before /\ t.aside = d.aside \ back
      /\ t.kept = (stuck \cap (d.installed \cup d.aside) # {})
  BY <1>1, <1>2 DEF DiskRec
<1>5. CASE stuck \cap (d.installed \cup d.aside) = {}
  <2>1. back = d.aside /\ removed = d.installed
    BY <1>5
  <2>2. \A r \in Roots : now[r] = d.before[r]
    BY <1>3, <2>1
  <2>3. d.before \in [Roots -> {"old", "new", "gone"}]
    BY DEF DiskRec
  <2>4. now = d.before
    BY <1>1, <2>2, <2>3
  <2> QED
    BY <1>4, <2>1, <2>4 DEF Whole, t
<1>6. CASE stuck \cap (d.installed \cup d.aside) # {}
  <2>1. ASSUME NEW r \in Roots
        PROVE  r \in t.aside \/ now[r] = d.before[r] \/ d.before[r] = "gone"
    BY <1>3, <1>4
  <2> QED
    BY <1>4, <1>6, <2>1 DEF Whole, t
<1> QED
  BY <1>5, <1>6

\* A root is replaced, or what was replaced is taken back.
LEMMA ReplaceRootKept ==
    ASSUME Kept(app, worker), DiskKept, NEW r \in Roots, ReplaceRoot(r)
    PROVE  Kept(app', worker') /\ DiskKept'
<1> DEFINE aside == IF disk.now[r] = "gone" THEN disk.aside ELSE disk.aside \cup {r}
           moved == [disk EXCEPT !.aside = IF disk.now[r] = "gone" THEN @ ELSE @ \cup {r},
                                 !.now[r] = "gone"]
           t == [moved EXCEPT !.now[r] = "new", !.installed = @ \cup {r}]
           v == [worker EXCEPT !.phase = "finished", !.success = FALSE]
<1>1. /\ worker \in WorkerRec /\ disk \in DiskRec /\ Undoable(disk)
      /\ worker.phase = "replacing" /\ r \notin disk.installed
      /\ disk.now[r] = disk.before[r] /\ r \notin disk.aside
  BY DEF Kept, DiskKept, ReplaceRoot, Undoable
<1>2. /\ moved \in DiskRec /\ moved.before = disk.before /\ moved.installed = disk.installed
      /\ moved.aside = aside
      /\ \A x \in Roots : moved.now[x] = IF x = r THEN "gone" ELSE disk.now[x]
  BY <1>1 DEF DiskRec
<1>3. /\ t \in DiskRec /\ t.before = disk.before /\ t.installed = disk.installed \cup {r}
      /\ t.aside = aside
      /\ \A x \in Roots : t.now[x] = IF x = r THEN "new" ELSE disk.now[x]
  BY <1>1 DEF DiskRec
<1>4. /\ v \in WorkerRec /\ v.phase = "finished"
  BY <1>1 DEF WorkerRec
<1>5. /\ UNCHANGED <<core, quit, files, profiles, backup>>
      /\ \/ disk' = t /\ worker' = worker
         \/ \E stuck \in SUBSET Roots, failed \in {disk, moved} :
                disk' = Rollback(failed, stuck) /\ worker' = v
  <2>1. Finish(FALSE) => worker' = v
    BY <1>1 DEF Finish, WorkerRec
  <2> QED
    BY <2>1 DEF ReplaceRoot
<1> HIDE DEF moved, t, v
<1>6. CASE disk' = t /\ worker' = worker
  <2>1. Undoable(t)
    <3>1. r \in t.aside \/ t.before[r] = "gone"
      BY <1>1, <1>3
    <3>2. \A x \in Roots \ {r} : /\ x \in t.aside <=> x \in disk.aside
                                 /\ x \in t.installed <=> x \in disk.installed
      BY <1>3
    <3>3. r \in t.installed /\ t.now[r] = "new"
      BY <1>3
    <3>4. \A x \in Roots \ {r} : t.now[x] = disk.now[x] /\ t.before[x] = disk.before[x]
      BY <1>3
    <3> HIDE DEF aside
    <3> SUFFICES ASSUME NEW x \in Roots
                 PROVE  IF x \in t.installed
                        THEN t.now[x] = "new" /\ (x \in t.aside \/ t.before[x] = "gone")
                        ELSE t.now[x] = t.before[x] /\ x \notin t.aside
      BY DEF Undoable
    <3>5. CASE x = r
      BY <3>1, <3>3, <3>5
    <3>6. CASE x # r
      BY <1>1, <3>2, <3>4, <3>6 DEF Undoable
    <3> QED
      BY <3>5, <3>6
  <2>2. Kept(app', worker')
    BY <1>1, <1>5, <1>6, WorkerKept
  <2>3. Undoable(disk)'
    BY <1>6, <2>1 DEF Undoable
  <2> QED
    BY <1>1, <1>3, <1>6, <2>2, <2>3, WholeIsAllOrNothing DEF DiskKept
<1>7. CASE \E stuck \in SUBSET Roots, failed \in {disk, moved} :
                disk' = Rollback(failed, stuck) /\ worker' = v
  <2>1. PICK stuck \in SUBSET Roots, failed \in {disk, moved} :
                disk' = Rollback(failed, stuck) /\ worker' = v
    BY <1>7
  <2>2. \A x \in Roots : \/ x \in failed.aside
                         \/ IF x \in failed.installed THEN failed.before[x] = "gone"
                            ELSE failed.now[x] = failed.before[x]
    BY <1>1, <1>2 DEF Undoable
  <2>3. failed \in DiskRec
    BY <1>1, <1>2
  <2>4. disk' \in DiskRec /\ Whole(disk')
    BY <2>1, <2>2, <2>3, RollbackLeavesWhole
  <2>5. Kept(app', worker')
    BY <1>1, <1>4, <1>5, <2>1, WorkerKept
  <2> QED
    BY <1>4, <2>1, <2>4, <2>5, WholeIsAllOrNothing DEF DiskKept
<1> QED
  BY <1>5, <1>6, <1>7

\* The preferences follow, or everything is taken back.
LEMMA ReplaceSettingsKept ==
    ASSUME Kept(app, worker), DiskKept, ReplaceSettings
    PROVE  Kept(app', worker') /\ DiskKept'
<1> DEFINE t == [disk EXCEPT !.aside = {}]
<1>1. /\ worker \in WorkerRec /\ disk \in DiskRec /\ Undoable(disk)
      /\ worker.phase = "replacing" /\ disk.installed = Roots
  BY DEF Kept, DiskKept, ReplaceSettings
<1>2. /\ UNCHANGED <<core, quit, files, profiles, backup>>
      /\ \/ disk' = t /\ Finish(TRUE)
         \/ \E stuck \in SUBSET Roots : disk' = Rollback(disk, stuck) /\ Finish(FALSE)
  BY DEF ReplaceSettings
<1>3. worker' \in WorkerRec /\ worker'.phase = "finished"
  BY <1>1, <1>2 DEF Finish, WorkerRec
<1>4. t \in DiskRec /\ Whole(t)
  BY <1>1 DEF DiskRec, Undoable, Whole
<1>5. ASSUME NEW stuck \in SUBSET Roots
      PROVE  Rollback(disk, stuck) \in DiskRec /\ Whole(Rollback(disk, stuck))
  <2>1. \A r \in Roots : \/ r \in disk.aside
                         \/ IF r \in disk.installed THEN disk.before[r] = "gone"
                            ELSE disk.now[r] = disk.before[r]
    BY <1>1 DEF Undoable
  <2> QED
    BY <1>1, <2>1, RollbackLeavesWhole
<1> HIDE DEF t
<1>6. disk' \in DiskRec /\ Whole(disk')
  BY <1>2, <1>4, <1>5
<1>7. Kept(app', worker')
  BY <1>1, <1>2, <1>3, WorkerKept
<1> QED
  BY <1>3, <1>6, <1>7, WholeIsAllOrNothing DEF DiskKept

\* The worker begins, saves, and is answered.
LEMMA WorkerBeginsKept ==
    ASSUME Kept(app, worker), DiskKept,
           WorkerBegins \/ (\E ok \in BOOLEAN : WorkerSaves(ok))
    PROVE  Kept(app', worker') /\ DiskKept'
<1>1. /\ worker \in WorkerRec /\ disk \in DiskRec /\ Whole(disk) /\ disk' = disk
      /\ worker.phase \in {"preparing", "saving"}
      /\ UNCHANGED <<core, quit, files, profiles, backup>>
  BY WholeIsAllOrNothing DEF Kept, DiskKept, WorkerBegins, WorkerSaves
<1>2. /\ worker' \in WorkerRec
      /\ \/ worker'.phase = "finished"
         \/ /\ worker.phase = "preparing" /\ worker'.phase = "saving"
            /\ worker'.posted = worker.posted
            /\ app.backup.operation.preparation /\ ~app.backup.operation.cancelled
         \/ worker.phase = "saving" /\ worker'.phase = "asking"
  <2>1. CASE WorkerBegins
    BY <1>1, <2>1, AppIsRecord DEF WorkerBegins, WorkerRec
  <2>2. ASSUME NEW ok \in BOOLEAN, WorkerSaves(ok)
        PROVE  /\ worker' \in WorkerRec
               /\ \/ worker'.phase = "finished"
                  \/ worker.phase = "saving" /\ worker'.phase = "asking"
    <3>1. (ok /\ backup.kind # "restore") \in BOOLEAN
      OBVIOUS
    <3> QED
      BY <1>1, <2>2, <3>1 DEF WorkerSaves, WorkerRec
  <2> QED
    BY <2>1, <2>2
<1>3. Kept(app', worker')
  BY <1>1, <1>2, WorkerKept
<1>4. worker'.phase # "replacing"
  BY <1>2
<1> QED
  BY <1>1, <1>3, <1>4, WholeIsAllOrNothing DEF DiskKept

LEMMA WorkerIsAnsweredKept ==
    ASSUME Kept(app, worker), DiskKept, WorkerIsAnswered
    PROVE  Kept(app', worker') /\ DiskKept'
<1> DEFINE t == [disk EXCEPT !.before = disk.now, !.installed = {}, !.aside = {}, !.kept = FALSE]
<1>1. /\ worker \in WorkerRec /\ disk \in DiskRec /\ disk' = t /\ worker.phase = "asking"
      /\ UNCHANGED <<core, quit, files, profiles, backup>>
  BY DEF Kept, DiskKept, WorkerIsAnswered
<1>2. t \in DiskRec /\ t.now = t.before /\ t.aside = {} /\ t.installed = {}
  BY <1>1 DEF DiskRec
<1> HIDE DEF t
<1>3. /\ worker' \in WorkerRec
      /\ \/ worker'.phase = "finished"
         \/ worker'.phase = "replacing" /\ app.backup.operation.approved
  BY <1>1, AppIsRecord DEF WorkerIsAnswered, WorkerRec
<1>4. Kept(app', worker')
  BY <1>1, <1>3, WorkerKept
<1>5. Whole(disk') /\ Undoable(disk)'
  BY <1>1, <1>2 DEF Whole, Undoable
<1> QED
  BY <1>1, <1>2, <1>4, <1>5, WholeIsAllOrNothing DEF DiskKept

-----------------------------------------------------------------------------
(* The whole system *)

LEMMA InitIInv == Init => IInv
<1> SUFFICES ASSUME Init PROVE IInv
  OBVIOUS
<1>1. app \in AppRec /\ app.profiles.void = {} /\ app.profiles.writing = {}
  <2>1. core \in CoreRec /\ quit \in QuitRec /\ files \in FilesRec
    BY DEF Init, CoreRec, QuitRec, FilesRec
  <2>2. profiles \in ProfilesRec
    BY DEF Init, ProfilesRec
  <2>3. backup \in BackupRec
    BY DEF Init, BackupRec, OperationRec, NewOperation
  <2> QED
    BY <2>1, <2>2, <2>3 DEF app, AppRec, Init
<1>2. worker \in WorkerRec /\ worker.phase = "off" /\ worker.posted = <<>>
  BY DEF Init, IdleWorker, WorkerRec
<1>3. CoreKept(app) /\ QuitKept(app) /\ BackupKept(app, worker)
  BY <1>2, AppIsRecord DEF Init, CoreKept, QuitKept, BackupKept, Down, Busy, FileBusy
<1>4. Kept(app, worker)
  BY <1>1, <1>2, <1>3 DEF Kept
<1>5. disk \in DiskRec /\ Whole(disk)
  BY DEF Init, DiskRec, Whole
<1>6. DiskKept
  BY <1>2, <1>5, WholeIsAllOrNothing DEF DiskKept
<1> QED
  BY <1>4, <1>6 DEF IInv, Init

\* A step of the window, the core or the user leaves the worker where it was
\* or lets it begin or end, and the files alone.
LEMMA AsideKept ==
    ASSUME DiskKept, disk' = disk,
           worker'.phase = worker.phase \/ worker'.phase # "replacing",
           worker'.phase = "replacing" \/ worker.phase # "replacing"
    PROVE  DiskKept'
<1>1. CASE worker'.phase = "replacing"
  BY <1>1 DEF DiskKept, RestoreIsAllOrNothing, Undoable
<1>2. CASE worker'.phase # "replacing"
  BY <1>2 DEF DiskKept, RestoreIsAllOrNothing
<1> QED
  BY <1>1, <1>2

LEMMA NextIInv == IInv /\ [Next]_vars => IInv'
<1> SUFFICES ASSUME IInv, [Next]_vars PROVE IInv'
  OBVIOUS
<1>1. Kept(app, worker) /\ DiskKept /\ owned \in BOOLEAN /\ stale \in BOOLEAN
  BY DEF IInv
<1>2. CASE UNCHANGED vars
  <2>1. app' = app /\ worker' = worker /\ disk' = disk /\ owned' = owned /\ stale' = stale
    BY <1>2, SameIsApp DEF vars
  <2>2. DiskKept'
    BY <1>1, <2>1, AsideKept
  <2> QED
    BY <1>1, <2>1, <2>2 DEF IInv
<1>3. CASE Next
  <2>1. ~quit.approved
    BY <1>3 DEF Next
  <2>2. ASSUME NEW store \in Stores, WriteEnds(store) \/ UserEdits(store)
        PROVE  IInv'
    <3>1. /\ worker' = worker /\ disk' = disk /\ owned' = owned
          /\ stale' \in BOOLEAN
      <4>1. CASE WriteEnds(store)
        <5>1. PICK done \in {FALSE, store \notin profiles.void} :
                  stale' = (stale \/ (done /\ CanReload(app)))
          BY <4>1 DEF WriteEnds
        <5>2. (stale \/ (done /\ CanReload(app))) \in BOOLEAN
          OBVIOUS
        <5> QED
          BY <4>1, <5>1, <5>2 DEF WriteEnds
      <4>2. CASE UserEdits(store)
        BY <1>1, <4>2 DEF UserEdits
      <4> QED
        BY <2>2, <4>1, <4>2
    <3>2. Kept(app', worker')
      BY <1>1, <2>2, WriteEndsKept, UserEditsKept
    <3>3. DiskKept'
      BY <1>1, <3>1, AsideKept
    <3> QED
      BY <1>1, <3>1, <3>2, <3>3 DEF IInv
  <2>3. CASE GenerationEnds \/ ReloadTimeout \/ DeleteSnapshots
    <3>1. /\ worker' = worker /\ disk' = disk /\ owned' = owned
          /\ stale' \in BOOLEAN
      <4>1. (stale /\ profiles.runtime = "void") \in BOOLEAN
        OBVIOUS
      <4> QED
        BY <1>1, <2>3, <4>1 DEF GenerationEnds, ReloadTimeout, DeleteSnapshots
    <3>2. Kept(app', worker')
      BY <1>1, <2>3, GenerationEndsKept, ReloadTimeoutKept, DeleteSnapshotsKept
    <3>3. DiskKept'
      BY <1>1, <3>1, AsideKept
    <3> QED
      BY <1>1, <3>1, <3>2, <3>3 DEF IInv
  <2>4. ASSUME NEW ok \in BOOLEAN, TransferEnds(ok) \/ ProxyShutdownFinished(ok)
        PROVE  IInv'
    <3>1. /\ disk' = disk /\ owned' \in BOOLEAN /\ stale' \in BOOLEAN
          /\ worker' = worker \/ worker' = [IdleWorker EXCEPT !.phase = "preparing"]
      <4>1. (owned /\ ~ok) \in BOOLEAN
        OBVIOUS
      <4> QED
        BY <1>1, <2>4, <4>1 DEF TransferEnds, ProxyShutdownFinished
    <3>2. Kept(app', worker')
      BY <1>1, <2>4, TransferEndsKept, ProxyShutdownKept
    <3>3. ~(worker.phase = "replacing" /\ TransferEnds(ok))
      BY <1>1, AppIsRecord DEF Kept, BackupKept, TransferEnds
    <3>4. DiskKept'
      <4>1. CASE worker' = worker
        BY <1>1, <3>1, <4>1, AsideKept
      <4>2. CASE worker' # worker
        <5>1. worker'.phase = "preparing"
          BY <3>1, <4>2 DEF IdleWorker
        <5>2. TransferEnds(ok)
          BY <2>4, <4>2 DEF ProxyShutdownFinished
        <5> QED
          BY <1>1, <3>1, <3>3, <5>1, <5>2, AsideKept
      <4> QED
        BY <4>1, <4>2
    <3> QED
      BY <3>1, <3>2, <3>4 DEF IInv
  <2>5. CASE RestorePrepared \/ Restored \/ ThreadFinished
    <3>1. /\ disk' = disk /\ owned' = owned /\ stale' \in BOOLEAN
          /\ \/ worker'.phase = worker.phase
             \/ worker.phase = "finished" /\ worker'.phase = "off"
      <4>1. CASE RestorePrepared \/ Restored
        <5>1. worker' = [worker EXCEPT !.posted = Tail(@)] /\ worker.posted # <<>>
              /\ disk' = disk /\ owned' = owned /\ stale' \in BOOLEAN
          BY <1>1, <4>1 DEF RestorePrepared, Restored
        <5>2. worker'.phase = worker.phase
          BY <1>1, <5>1, PostedOnce DEF Kept
        <5> QED
          BY <5>1, <5>2
      <4>2. CASE ThreadFinished
        BY <1>1, <4>2 DEF ThreadFinished, IdleWorker
      <4> QED
        BY <2>5, <4>1, <4>2
    <3>2. Kept(app', worker')
      BY <1>1, <2>5, RestorePreparedKept, RestoredKept, ThreadFinishedKept
    <3>3. DiskKept'
      BY <1>1, <3>1, AsideKept
    <3> QED
      BY <1>1, <3>1, <3>2, <3>3 DEF IInv
  <2>6. CASE WarningCloses \/ ShutdownPoll \/ UserQuits
    <3>1. worker' = worker /\ disk' = disk /\ owned' = owned /\ stale' = stale
      BY <2>6 DEF WarningCloses, ShutdownPoll, UserQuits
    <3>2. Kept(app', worker')
      BY <1>1, <2>1, <2>6, WarningClosesKept, QuitKeptByAll
    <3>3. DiskKept'
      BY <1>1, <3>1, AsideKept
    <3> QED
      BY <1>1, <3>1, <3>2, <3>3 DEF IInv
  <2>7. CASE CoreRetires \/ CoreBecomesReady \/ CoreDies \/ RestoreProxy \/ UserEnablesProxy
    <3>1. worker' = worker /\ disk' = disk /\ owned' \in BOOLEAN /\ stale' \in BOOLEAN
      BY <1>1, <2>7
         DEF CoreRetires, CoreBecomesReady, CoreDies, RestoreProxy, UserEnablesProxy
    <3>2. Kept(app', worker')
      <4>1. CASE RestoreProxy \/ UserEnablesProxy
        <5>1. app' = app
          BY <4>1, SameIsApp DEF RestoreProxy, UserEnablesProxy
        <5> QED
          BY <1>1, <3>1, <5>1
      <4>2. CASE CoreRetires \/ CoreBecomesReady \/ CoreDies
        BY <1>1, <2>1, <4>2, CoreRetiresKept, CoreBecomesReadyKept, CoreDiesKept
      <4> QED
        BY <2>7, <4>1, <4>2
    <3>3. DiskKept'
      BY <1>1, <3>1, AsideKept
    <3> QED
      BY <3>1, <3>2, <3>3 DEF IInv
  <2>8. ASSUME NEW confirmed \in BOOLEAN, CoreStopEnds(confirmed)
        PROVE  IInv'
    <3>1. worker' = worker /\ disk' = disk /\ owned' = owned /\ stale' \in BOOLEAN
      <4>1. (stale /\ core.pending # NoConfig) \in BOOLEAN
        OBVIOUS
      <4> QED
        BY <1>1, <2>8, <4>1 DEF CoreStopEnds
    <3>2. Kept(app', worker')
      BY <1>1, <2>8, CoreStopEndsKept
    <3>3. DiskKept'
      BY <1>1, <3>1, AsideKept
    <3> QED
      BY <1>1, <3>1, <3>2, <3>3 DEF IInv
  <2>9. CASE UserStartsCore \/ UserStopsCore
    <3>1. worker' = worker /\ disk' = disk /\ owned' = owned /\ stale' \in BOOLEAN
      BY <1>1, <2>9 DEF UserStartsCore, UserStopsCore
    <3>2. Kept(app', worker')
      BY <1>1, <2>9, UserCoreKept
    <3>3. DiskKept'
      BY <1>1, <3>1, AsideKept
    <3> QED
      BY <1>1, <3>1, <3>2, <3>3 DEF IInv
  <2>10. ASSUME NEW kind \in Operations, UserStartsBackup(kind)
         PROVE  IInv'
    <3>1. /\ disk' = disk /\ owned' = owned /\ stale' = stale
          /\ worker' = worker \/ worker' = [IdleWorker EXCEPT !.phase = "preparing"]
      BY <2>10 DEF UserStartsBackup
    <3>2. Kept(app', worker')
      BY <1>1, <2>10, UserStartsBackupKept
    <3>3. worker.phase = "off"
      BY <1>1, <2>10 DEF Kept, BackupKept, UserStartsBackup, Busy
    <3>4. worker'.phase \in {"off", "preparing"}
      BY <3>1, <3>3 DEF IdleWorker
    <3>5. DiskKept'
      BY <1>1, <3>1, <3>3, <3>4, AsideKept
    <3> QED
      BY <1>1, <3>1, <3>2, <3>5 DEF IInv
  <2>11. CASE Worker
    <3>1. owned' = owned /\ stale' = stale
      BY <2>11 DEF Worker, WorkerBegins, WorkerIsAnswered, ReplaceSettings, WorkerSaves,
                   ReplaceRoot
    <3>2. Kept(app', worker') /\ DiskKept'
      BY <1>1, <2>11, WorkerBeginsKept, WorkerIsAnsweredKept, ReplaceSettingsKept,
         ReplaceRootKept DEF Worker
    <3> QED
      BY <1>1, <3>1, <3>2 DEF IInv
  <2> QED
    BY <1>3, <2>2, <2>3, <2>4, <2>5, <2>6, <2>7, <2>8, <2>9, <2>10, <2>11
       DEF Next, Window, Core, User
<1> QED
  BY <1>2, <1>3

-----------------------------------------------------------------------------
(* The theorems *)

\* A backup and a restore have the stores and the core to themselves, and
\* leave the files all new, all as they were, or the originals aside
\* (BackupWorker::execute, BackupStore::restoreLocal, BackupPage).
THEOREM BackupsAreSafe == Spec => []FilesAreSafe
<1>1. IInv => FilesAreSafe
  <2> SUFFICES ASSUME IInv PROVE FilesAreSafe
    OBVIOUS
  <2>1. Kept(app, worker) /\ DiskKept /\ owned \in BOOLEAN /\ stale \in BOOLEAN
    BY DEF IInv
  <2>2. TypeOK
    BY <2>1, AppIsRecord DEF Kept, DiskKept, TypeOK
  <2>3. worker.phase \in {"saving", "asking", "replacing"} =>
            ~FileBusy(app) /\ profiles.maintenance
    BY <2>1, AppIsRecord DEF Kept, BackupKept
  <2>4. worker.phase = "replacing" => CoreIsDown /\ core.pending = NoConfig
    BY <2>1, AppIsRecord DEF Kept, BackupKept, CoreKept, Down, CoreIsDown
  <2> QED
    BY <2>1, <2>2, <2>3, <2>4 DEF FilesAreSafe, BackupIsExclusive, DiskKept
<1> QED
  BY InitIInv, NextIInv, <1>1, PTL DEF Spec

\* The application ends with no core, no snapshot, nothing in progress, and
\* no file missing that is not kept aside (finishQuit of main.cpp).
THEOREM EndIsClean == Spec => []QuitIsClean
<1>1. IInv => QuitIsClean
  <2> SUFFICES ASSUME IInv, quit.approved PROVE QuitIsClean
    BY DEF QuitIsClean
  <2>1. Kept(app, worker) /\ DiskKept
    BY DEF IInv
  <2>2. /\ quit.cleaned /\ quit.coreStopped /\ files.doomed = {} /\ ~Busy(app)
        /\ quit.quitting /\ files.generated = {} /\ ~FileBusy(app)
    BY <2>1, AppIsRecord DEF Kept, QuitKept
  <2>3. CoreIsDown /\ core.pending = NoConfig
    BY <2>1, <2>2, AppIsRecord DEF Kept, QuitKept, CoreKept, Down, CoreIsDown
  <2>4. worker.phase = "off"
    BY <2>1, <2>2, AppIsRecord DEF Kept, BackupKept, Busy
  <2>5. disk.kept \/ \A r \in Roots : disk.now[r] = "gone" => disk.before[r] = "gone"
    BY <2>1, <2>4 DEF DiskKept, RestoreIsAllOrNothing
  <2> QED
    BY <2>2, <2>3, <2>4, <2>5 DEF QuitIsClean
<1> QED
  BY InitIInv, NextIInv, <1>1, PTL DEF Spec

\* A restore that a quit has cancelled replaces nothing, though the core's
\* end may still permit it (BackupStore::cancelAsync, restoreLocal).
THEOREM QuitPrevents == Spec => QuitCancelsRestore
<1>1. IInv /\ [Next]_vars =>
        [worker.phase = "asking" /\ worker'.phase = "replacing" => ~quit.quitting]_vars
  <2> SUFFICES ASSUME IInv, Next, worker.phase = "asking", worker'.phase = "replacing"
               PROVE  ~quit.quitting
    BY DEF vars
  <2>1. Kept(app, worker)
    BY DEF IInv
  <2>2. WorkerIsAnswered => ~backup.operation.cancelled
    BY <2>1 DEF WorkerIsAnswered, Kept, WorkerRec
  <2>3. backup.local
    BY <2>1, AppIsRecord DEF Kept, BackupKept
  <2>4. ~backup.operation.cancelled => ~quit.quitting
    BY <2>1, <2>3, AppIsRecord DEF Kept, QuitKept
  <2>5. RestorePrepared \/ Restored => worker'.phase = worker.phase
    BY <2>1, PostedOnce DEF RestorePrepared, Restored, Kept
  <2>6. WorkerIsAnswered
    <3>1. Worker => WorkerIsAnswered
      BY <2>1 DEF Worker, WorkerBegins, WorkerSaves, ReplaceSettings, ReplaceRoot, Kept, WorkerRec
    <3>2. ~Window
      BY <2>5 DEF Window, WriteEnds, GenerationEnds, ReloadTimeout, DeleteSnapshots, TransferEnds,
                  ProxyShutdownFinished, ThreadFinished, WarningCloses, ShutdownPoll, IdleWorker
    <3>3. ~(Core \/ RestoreProxy \/ CoreDies \/ CoreStopEnds(FALSE))
      BY DEF Core, CoreRetires, CoreBecomesReady, CoreStopEnds, RestoreProxy, CoreDies
    <3>4. ~User
      BY DEF User, UserStartsCore, UserStopsCore, UserEnablesProxy, UserQuits, UserEdits,
             UserStartsBackup, IdleWorker
    <3> QED
      BY <3>1, <3>2, <3>3, <3>4 DEF Next
  <2> QED
    BY <2>2, <2>4, <2>6
<1> QED
  BY InitIInv, NextIInv, <1>1, PTL DEF Spec, QuitCancelsRestore

=============================================================================
