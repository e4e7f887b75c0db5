----------------------------- MODULE ProfileStoreOps -----------------------------
(***************************************************************************)
(* core::ProfileStore as a value: the index it holds in memory, the queue  *)
(* of file writes with the one write running on a worker thread, the       *)
(* downloads in flight and the generation of the runtime configuration.    *)
(* Operators are the functions the handlers are built from; each returns   *)
(* the new store.  A generation number and the cancellation flag captured  *)
(* with it change together in the code, and are one flag here.             *)
(***************************************************************************)
EXTENDS Naturals, Sequences, SequencesExt, FiniteSets

CONSTANTS
    Uids,     \* the uids that can be handed out
    Urls,     \* subscription URLs; also the content a URL answers with
    Edits,    \* contents that come from the user: an editor, a local file
    Nothing   \* the empty string, the missing file, the null pointer

ASSUME NothingAssumption ==
    Nothing \notin Uids /\ Nothing \notin Urls /\ Nothing \notin Edits

Contents == Urls \cup Edits
MaybeUrl == Urls \cup {Nothing}
MaybeContents == Contents \cup {Nothing}
Kind == {"Import", "Create", "Save", "Refresh"}

\* ProfileWrite: what to put in the file of which profile, and the URL of
\* the profile it carries.
RequestRec == [uid : Uids \cup {Nothing}, kind : Kind, content : MaybeContents,
               url : MaybeUrl]

\* The running write.  Past its last look at the flag, it is "armed"; it ends
\* committed, or abandoned because it was cancelled or met an error.
WriteRec == [request : RequestRec,
             stage : {"idle", "reading", "armed", "committed", "abandoned"},
             cancelled : BOOLEAN]

\* The running generation: the inputs it was given, what it read, and the
\* number of its file.
RuntimeRec == [uid : Uids \cup {Nothing}, settings : {0, 1}, content : MaybeContents,
               stage : {"idle", "reading", "read", "written", "done"},
               cancelled : BOOLEAN, path : Nat, failed : BOOLEAN]

StoreRec == [
    profiles     : Seq(Uids),              \* profiles_, in order
    url          : [Uids -> MaybeUrl],     \* Profile::url, remote when there is one
    currentUid   : Uids \cup {Nothing},
    secret       : BOOLEAN,                \* secret_ is not empty
    settings     : {0, 1},                 \* overrides, chain and current name, as they change
    fileQueue    : Seq(RequestRec),
    write        : WriteRec,
    updating     : [Uids -> MaybeUrl],     \* updating_: the URL asked
    imports      : SUBSET Urls,            \* downloads of importFromUrl()
    maintenance  : BOOLEAN,
    shuttingDown : BOOLEAN,
    runtime      : RuntimeRec,
    runtimeRequested : BOOLEAN,
    shown        : BOOLEAN,                \* the last fileBusyChanged()
    owed         : [Uids -> Nat]]          \* saves without their profileContentSaved()

IndexRec == [profiles : Seq(Uids), url : [Uids -> MaybeUrl],
             currentUid : Uids \cup {Nothing}, secret : BOOLEAN]

NoWrite == [request |-> [uid |-> Nothing, kind |-> "Save", content |-> Nothing, url |-> Nothing],
            stage |-> "idle", cancelled |-> FALSE]

NoRuntime == [uid |-> Nothing, settings |-> 0, content |-> Nothing, stage |-> "idle",
              cancelled |-> FALSE, path |-> 0, failed |-> FALSE]

\* A store as load() leaves it, with no work in progress.
NewStore(index) == [
    profiles |-> index.profiles, url |-> index.url, currentUid |-> index.currentUid,
    secret |-> index.secret, settings |-> 0, fileQueue |-> <<>>, write |-> NoWrite,
    updating |-> [u \in Uids |-> Nothing], imports |-> {},
    maintenance |-> FALSE, shuttingDown |-> FALSE,
    runtime |-> NoRuntime, runtimeRequested |-> FALSE,
    shown |-> FALSE, owed |-> [u \in Uids |-> 0]]

-----------------------------------------------------------------------------
Listed(s) == {s.profiles[i] : i \in DOMAIN s.profiles}

IndexOf(s, u) == CHOOSE i \in DOMAIN s.profiles : s.profiles[i] = u

\* profiles_.first().uid, or no uid.
FirstOf(list) == IF list = <<>> THEN Nothing ELSE list[1]

Index(s) == [profiles |-> s.profiles, url |-> s.url, currentUid |-> s.currentUid,
             secret |-> s.secret]

AcceptsChanges(s) == ~s.maintenance /\ ~s.shuttingDown

FileRunning(s) == s.write.stage # "idle"
RuntimeRunning(s) == s.runtime.stage # "idle"
IsFileBusy(s) == FileRunning(s) \/ RuntimeRunning(s)

Creating(request) == request.kind \in {"Import", "Create"}

\* Another uid in the list, selected when none is.
AppendProfile(s, request) ==
    [s EXCEPT !.profiles = Append(@, request.uid),
              !.url = [@ EXCEPT ![request.uid] = request.url],
              !.currentUid = IF @ = Nothing THEN request.uid ELSE @]

-----------------------------------------------------------------------------
(* Cancellation *)

CancelRuntimeGeneration(s) ==
    [s EXCEPT !.runtimeRequested = FALSE,
              !.runtime.cancelled = RuntimeRunning(s)]

CancelIfCurrent(s, uid) ==
    IF uid = s.currentUid THEN CancelRuntimeGeneration(s) ELSE s

\* The requests of an editor, which profileContentSaved() has to answer.
Saves(requests, u) ==
    {i \in DOMAIN requests : requests[i].kind = "Save" /\ requests[i].uid = u}

\* profileContentSaved() for every save among the requests.
Answer(owed, requests) ==
    [u \in Uids |-> owed[u] - Cardinality(Saves(requests, u))]

\* Mutant: the queue is dropped without a word to the editors.
CancelFileOperationsSilently(s) ==
    [s EXCEPT !.fileQueue = <<>>, !.write.cancelled = FileRunning(s)]

\* Mutant: the running save is answered too, before its own end answers it.
CancelFileOperationsTwice(s) ==
    [s EXCEPT !.fileQueue = <<>>,
              !.write.cancelled = FileRunning(s),
              !.owed = Answer(@, Append(s.fileQueue, s.write.request))]

CancelFileOperations(s) ==
    [s EXCEPT !.fileQueue = <<>>,
              !.write.cancelled = FileRunning(s),
              !.owed = Answer(@, s.fileQueue)]

CancelDownloads(s) ==
    [s EXCEPT !.updating = [u \in Uids |-> Nothing], !.imports = {}]

CancelEverything(s) ==
    CancelDownloads(CancelRuntimeGeneration(CancelFileOperations(s)))

-----------------------------------------------------------------------------
(* The queue of writes *)

\* Requests before the first that can start are dropped, with their answer.
StartNextWrite(s) ==
    LET q == s.fileQueue
        Startable(i) == Creating(q[i]) \/ q[i].uid \in Listed(s)
        Skipped(i) == \A j \in 1..i : ~Startable(j)
        Starts == {i \in DOMAIN q : Startable(i) /\ Skipped(i - 1)}
    IN IF q = <<>> \/ s.maintenance THEN s
       ELSE IF Starts = {} THEN [s EXCEPT !.fileQueue = <<>>, !.owed = Answer(@, q)]
       ELSE LET i == CHOOSE k \in Starts : TRUE
            IN [s EXCEPT !.fileQueue = SubSeq(q, i + 1, Len(q)),
                         !.owed = Answer(@, SubSeq(q, 1, i - 1)),
                         !.write = [request |-> q[i], stage |-> "reading", cancelled |-> FALSE],
                         !.shown = TRUE]

EnqueueWrite(s, request) ==
    IF ~AcceptsChanges(s) THEN s
    ELSE LET queued == [CancelIfCurrent(s, request.uid)
                            EXCEPT !.fileQueue = Append(@, request)]
         IN IF FileRunning(s) THEN queued ELSE StartNextWrite(queued)

-----------------------------------------------------------------------------
(* The generation of the runtime configuration *)

\* The first generation of an installation makes the controller's secret and
\* saves it in the index.
MakesSecret(s) == s.currentUid \in Listed(s) /\ ~s.secret

\* prepareRuntime() and the start of its worker, whose file is number path;
\* saved tells whether the secret could be saved.
StartPendingRuntime(s, path, saved) ==
    LET prepared == s.currentUid \in Listed(s) /\ (MakesSecret(s) => saved)
        next == [s EXCEPT
            !.secret = @ \/ MakesSecret(s),
            !.runtimeRequested = FALSE,
            !.runtime = IF prepared
                        THEN [NoRuntime EXCEPT !.uid = s.currentUid, !.settings = s.settings,
                                               !.stage = "reading", !.path = path]
                        ELSE NoRuntime]
    IN [next EXCEPT !.shown = IsFileBusy(next)]
=============================================================================
