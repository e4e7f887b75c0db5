------------------------------- MODULE Enhancer -------------------------------
(***************************************************************************)
(* The enhancement chain: core::ConfigEnhancer, which keeps the steps and  *)
(* writes their files on a worker thread, applyChain(), which a generation *)
(* of the runtime configuration runs on another, with the watchdog of its  *)
(* scripts, and the dialog of ui::ChainEditor that edits a step.           *)
(* A step's source is known by its version and by how it behaves.          *)
(***************************************************************************)
EXTENDS Naturals, Sequences, SequencesExt

CONSTANTS
    Items,          \* the uids that steps get, each once
    Scripts,        \* those of them that are scripts; the others are merges
    Behaviours,     \* what sources do: "well", "wrong" or, of scripts, "endless"
    MaxCalls,       \* bound on the changes that the user makes
    MaxRuns,        \* bound on the generations
    MaxSaveFailures \* bound on the writes of chain.json that fail

ASSUME ItemsAssumption ==
    /\ Scripts \subseteq Items /\ "well" \in Behaviours /\ "absent" \notin Behaviours
    /\ MaxCalls \in Nat

Absent == [version |-> 0, behaves |-> "absent"]
Contents == [version : 0 .. MaxCalls, behaves : Behaviours]
Template == [version |-> 0, behaves |-> "well"]

Step == [uid : Items, enabled : BOOLEAN]

Request == [uid : Items, content : Contents, create : BOOLEAN]

Outcome == [uid : Items, version : 0 .. MaxCalls, ok : BOOLEAN]

NoWrite == [phase |-> "none"]
NoRun == [phase |-> "idle"]
Closed == [state |-> "closed"]

StoreRec == [
    chain : Seq(Step), used : SUBSET Items,  \* the steps, and the uids handed out
    maintenance : BOOLEAN, shuttingDown : BOOLEAN,
    running : BOOLEAN, generation : Nat, queue : Seq(Request)]

WriteRec == [
    phase : {"started", "checked", "ended"}, request : Request,
    generation : Nat, cancelled : BOOLEAN, failed : BOOLEAN]

\* The number of the save that the dialog waits for and whether an earlier one
\* of the step was still unanswered when it was asked for are history.
DialogRec == [state : {"loading", "unreadable", "editing", "saving"}, uid : Items,
              asked : 0 .. MaxCalls, behind : BOOLEAN]
Dialog(state, uid) == [state |-> state, uid |-> uid, asked |-> 0, behind |-> FALSE]

RunRec == [
    phase : {"applying", "script"}, chain : Seq(Step), at : Nat,
    outcomes : Seq(Outcome), cancelled : BOOLEAN, fired : BOOLEAN,
    source : Contents \cup {Absent}]        \* of the script that runs

AppRec == [store : StoreRec, write : WriteRec \cup {NoWrite},
           dialog : DialogRec \cup {Closed}, run : RunRec \cup {NoRun}]

VARIABLES
    store,   \* ConfigEnhancer's members
    write,   \* the write on the worker thread, until its slot has run
    dialog,  \* the open edit dialog
    run,     \* the generation that applies the chain
    disk,    \* the steps' files
    index,   \* chain.json
    acked,   \* the newest version of each step whose save was confirmed
    calls, runs, saveFailures

vars == <<store, write, dialog, run, disk, index, acked, calls, runs, saveFailures>>

app == [store |-> store, write |-> write, dialog |-> dialog, run |-> run]

\* s is bound once: TLC evaluates it anew for every use of it when it looks for
\* what is enabled.
Apply(s) ==
    \E t \in {s} : store' = t.store /\ write' = t.write /\ dialog' = t.dialog /\ run' = t.run

Listed(s) == {s.store.chain[i].uid : i \in DOMAIN s.store.chain}
IndexOf(s, uid) == CHOOSE i \in DOMAIN s.store.chain : s.store.chain[i].uid = uid
IsFileBusy(s) == s.store.running
AcceptsChanges(s) == ~s.store.maintenance /\ ~s.store.shuttingDown

\* The requests that wait, and the one that the worker has.
Pending(s) ==
    Range(s.store.queue) \cup (IF s.write = NoWrite THEN {} ELSE {s.write.request})

Called == calls < MaxCalls /\ calls' = calls + 1

-----------------------------------------------------------------------------
(* What the slots pass on *)

\* The profile store voids the generation that began with the old chain.
ChainChanged(s) ==
    IF s.run.phase = "idle" THEN s ELSE [s EXCEPT !.run.cancelled = TRUE]

\* itemContentSaved at the dialog: the first answer to a save of its step counts,
\* be it of an earlier dialog that was closed while it waited.
ItemContentSaved(s, uid, success) ==
    IF s.dialog.state # "saving" \/ s.dialog.uid # uid THEN s
    ELSE IF success THEN [s EXCEPT !.dialog = Closed]
    ELSE [s EXCEPT !.dialog = Dialog("editing", uid)]

\* chain.json is rewritten; a failure is shown and the chain stays changed.
Save(s) ==
    \/ index' = s.store.chain /\ UNCHANGED saveFailures
    \/ /\ saveFailures < MaxSaveFailures /\ saveFailures' = saveFailures + 1
       /\ UNCHANGED index

-----------------------------------------------------------------------------
(* The write queue *)

\* The saves among requests that are given up are answered.
GiveUp(s, requests) ==
    IF s.dialog.state = "saving" /\ \E r \in requests : ~r.create /\ r.uid = s.dialog.uid
    THEN ItemContentSaved(s, s.dialog.uid, FALSE) ELSE s

\* Queued saves are answered at once, the one that runs when it ends.
CancelFileOperations(s) ==
    GiveUp([s EXCEPT !.store.generation = @ + 1, !.store.queue = <<>>,
                     !.write = IF @.phase = "none" THEN @ ELSE [@ EXCEPT !.cancelled = TRUE]],
           Range(s.store.queue))

\* Saves of steps that are gone are answered on the way to the next write.
StartNextWrite(s) ==
    LET queue == s.store.queue
        ready == {i \in DOMAIN queue : queue[i].create \/ queue[i].uid \in Listed(s)}
        first == CHOOSE i \in ready : \A j \in ready : i <= j
    IN IF s.store.maintenance THEN s
       ELSE IF ready = {} THEN GiveUp([s EXCEPT !.store.queue = <<>>], Range(queue))
       ELSE GiveUp([s EXCEPT !.store.queue = SubSeq(queue, first + 1, Len(queue)),
                             !.store.running = TRUE,
                             !.write = [phase |-> "started", request |-> queue[first],
                                        generation |-> s.store.generation,
                                        cancelled |-> FALSE, failed |-> FALSE]],
                   {queue[i] : i \in 1 .. first - 1})

EnqueueWrite(s, request) ==
    LET t == [s EXCEPT !.store.queue = Append(@, request)]
    IN IF ~AcceptsChanges(s) THEN s
       ELSE IF s.store.running THEN t ELSE StartNextWrite(t)

\* The worker reads the source of an import, looks for a cancellation twice
\* and checks what a merge holds.
WorkerPrepares ==
    /\ write.phase = "started"
    /\ LET bad == write.request.uid \notin Scripts /\ write.request.content.behaves # "well"
       IN \/ write.cancelled /\ write' = [write EXCEPT !.phase = "ended"]
          \/ ~write.cancelled /\ bad /\ write' = [write EXCEPT !.phase = "ended", !.failed = TRUE]
          \/ ~write.cancelled /\ ~bad /\ write' = [write EXCEPT !.phase = "checked"]
          \/ ~write.cancelled /\ write.request.create
             /\ write' = [write EXCEPT !.phase = "ended", !.failed = TRUE]
    /\ UNCHANGED <<store, dialog, run, disk, index, acked, calls, runs, saveFailures>>

\* Past its last look at the flag, the worker replaces the file.
WorkerCommits ==
    /\ write.phase = "checked"
    /\ \/ disk' = [disk EXCEPT ![write.request.uid] = write.request.content]
          /\ write' = [write EXCEPT !.phase = "ended"]
       \/ UNCHANGED disk /\ write' = [write EXCEPT !.phase = "ended", !.failed = TRUE]
    /\ UNCHANGED <<store, dialog, run, index, acked, calls, runs, saveFailures>>

\* Mutant: the end of a write that was cancelled counts.
WriteCountsAnyway(s) == ~s.write.failed

\* Whether what was written is still wanted.
WriteCounts(s) ==
    /\ s.write.generation = s.store.generation /\ ~s.store.maintenance
    /\ ~s.write.cancelled /\ ~s.write.failed

\* The end of the slot: the next write, or fileBusyChanged(false).
NextOrIdle(s) ==
    StartNextWrite([s EXCEPT !.write = NoWrite, !.store.running = FALSE])

\* Mutant: a save is not announced as a change of the chain.
FinishUpdateUnseen ==
    /\ write.phase = "ended" /\ ~write.request.create
    /\ LET uid == write.request.uid
           success == WriteCounts(app) /\ uid \in Listed(app)
       IN /\ Apply(NextOrIdle(ItemContentSaved(app, uid, success)))
          /\ acked' = IF success THEN [acked EXCEPT ![uid] = write.request.content.version] ELSE acked
    /\ UNCHANGED <<disk, index, calls, runs, saveFailures>>

\* The slot of a write to a step that exists.
FinishUpdate ==
    /\ write.phase = "ended" /\ ~write.request.create
    /\ LET uid == write.request.uid
           success == WriteCounts(app) /\ uid \in Listed(app)
           t == IF success THEN ChainChanged(app) ELSE app
       IN /\ Apply(NextOrIdle(ItemContentSaved(t, uid, success)))
          /\ acked' = IF success THEN [acked EXCEPT ![uid] = write.request.content.version] ELSE acked
    /\ UNCHANGED <<disk, index, calls, runs, saveFailures>>

\* Mutant: a step whose index could not be saved stays in the chain.
FinishCreationKeepingRow ==
    /\ write.phase = "ended" /\ write.request.create
    /\ LET uid == write.request.uid
           listed == [app EXCEPT !.store.chain = Append(@, [uid |-> uid, enabled |-> TRUE])]
       IN \/ /\ WriteCounts(app) /\ Apply(NextOrIdle(ChainChanged(listed)))
             /\ index' = listed.store.chain /\ UNCHANGED <<disk, saveFailures>>
          \/ /\ WriteCounts(app) /\ saveFailures < MaxSaveFailures
             /\ saveFailures' = saveFailures + 1
             /\ Apply(NextOrIdle(listed)) /\ disk' = [disk EXCEPT ![uid] = Absent]
             /\ UNCHANGED index
    /\ UNCHANGED <<acked, calls, runs>>

\* The slot of an import: the step is listed once the index is saved, and
\* otherwise its file is removed.
FinishCreation ==
    /\ write.phase = "ended" /\ write.request.create
    /\ LET uid == write.request.uid
           listed == [app EXCEPT !.store.chain = Append(@, [uid |-> uid, enabled |-> TRUE])]
       IN \/ /\ WriteCounts(app) /\ Apply(NextOrIdle(ChainChanged(listed)))
             /\ index' = listed.store.chain /\ UNCHANGED <<disk, saveFailures>>
          \/ /\ \/ ~WriteCounts(app) /\ UNCHANGED saveFailures
                \/ /\ WriteCounts(app) /\ saveFailures < MaxSaveFailures
                   /\ saveFailures' = saveFailures + 1
             /\ Apply(NextOrIdle(app)) /\ disk' = [disk EXCEPT ![uid] = Absent]
             /\ UNCHANGED index
    /\ UNCHANGED <<acked, calls, runs>>

-----------------------------------------------------------------------------
(* Changes of the chain by the user *)

AddItem(uid) ==
    /\ Called /\ AcceptsChanges(app) /\ uid \notin store.used
    /\ \/ UNCHANGED <<store, write, dialog, run, disk, index, saveFailures>>
       \/ LET t == [app EXCEPT !.store.chain = Append(@, [uid |-> uid, enabled |-> TRUE]),
                               !.store.used = @ \cup {uid}]
          IN Apply(ChainChanged(t)) /\ Save(t) /\ disk' = [disk EXCEPT ![uid] = Template]
    /\ UNCHANGED <<acked, runs>>

ImportItemAsync(uid, behaves) ==
    /\ Called /\ AcceptsChanges(app) /\ uid \notin store.used
    /\ Apply(EnqueueWrite([app EXCEPT !.store.used = @ \cup {uid}],
           [uid |-> uid, create |-> TRUE, content |-> [version |-> 0, behaves |-> behaves]]))
    /\ UNCHANGED <<disk, index, acked, runs, saveFailures>>

RemoveItem(uid) ==
    /\ Called /\ AcceptsChanges(app) /\ uid \in Listed(app)
    /\ LET t == [CancelFileOperations(app) EXCEPT !.store.chain = RemoveAt(@, IndexOf(app, uid))]
       IN Apply(ChainChanged(t)) /\ Save(t)
    /\ disk' = [disk EXCEPT ![uid] = Absent]
    /\ UNCHANGED <<acked, runs>>

SetEnabled(uid) ==
    /\ Called /\ AcceptsChanges(app) /\ uid \in Listed(app)
    /\ LET t == [app EXCEPT !.store.chain[IndexOf(app, uid)].enabled = ~@]
       IN Apply(ChainChanged(t)) /\ Save(t)
    /\ UNCHANGED <<disk, acked, runs>>

\* A step moves by one place, if there is one.
MoveItem(uid, target) ==
    /\ Called /\ AcceptsChanges(app) /\ uid \in Listed(app)
    /\ target \in DOMAIN store.chain \ {IndexOf(app, uid)}
    /\ LET from == IndexOf(app, uid)
           t == [app EXCEPT !.store.chain = InsertAt(RemoveAt(@, from), target, @[from])]
       IN Apply(ChainChanged(t)) /\ Save(t)
    /\ UNCHANGED <<disk, acked, runs>>

RenameItem(uid) ==
    /\ Called /\ AcceptsChanges(app) /\ uid \in Listed(app)
    /\ Apply(ChainChanged(app)) /\ Save(app)
    /\ UNCHANGED <<disk, acked, runs>>

-----------------------------------------------------------------------------
(* The edit dialog *)

EditStep(uid) ==
    /\ dialog.state = "closed" /\ uid \in Listed(app)
    /\ dialog' = Dialog("loading", uid)
    /\ UNCHANGED <<store, write, run, disk, index, acked, calls, runs, saveFailures>>

\* A file that cannot be read leaves a dialog that can only be closed.
EditorLoads(ok) ==
    /\ dialog.state = "loading"
    /\ ok => disk[dialog.uid] # Absent
    /\ dialog' = Dialog(IF ok THEN "editing" ELSE "unreadable", dialog.uid)
    /\ UNCHANGED <<store, write, run, disk, index, acked, calls, runs, saveFailures>>

\* The saves of a step that have not been answered.
Unanswered(s, uid) == {q \in Pending(s) : q.uid = uid /\ ~q.create}

\* saveItemContentAsync() answers what it refuses.
EditorSaves(behaves) ==
    /\ dialog.state = "editing" /\ Called
    /\ LET uid == dialog.uid
           t == [app EXCEPT !.dialog = [state |-> "saving", uid |-> uid, asked |-> calls + 1,
                                        behind |-> Unanswered(app, uid) # {}]]
           content == [version |-> calls + 1, behaves |-> behaves]
       IN Apply(IF ~AcceptsChanges(app) \/ uid \notin Listed(app)
                THEN ItemContentSaved(t, uid, FALSE)
                ELSE EnqueueWrite(t, [uid |-> uid, content |-> content, create |-> FALSE]))
    /\ UNCHANGED <<disk, index, acked, runs, saveFailures>>

\* By its button, by Escape or by the window, the last two also while it saves.
EditorCloses ==
    /\ dialog.state # "closed" /\ dialog' = Closed
    /\ UNCHANGED <<store, write, run, disk, index, acked, calls, runs, saveFailures>>

-----------------------------------------------------------------------------
(* Backups and the end of the application *)

SetMaintenanceMode(enabled) ==
    /\ store.maintenance # enabled /\ (enabled => Called) /\ (~enabled => UNCHANGED calls)
    /\ LET t == [app EXCEPT !.store.maintenance = enabled]
       IN Apply(IF enabled THEN ChainChanged(CancelFileOperations(t)) ELSE t)
    /\ UNCHANGED <<disk, index, acked, runs, saveFailures>>

\* A restore waits for the write that runs, replaces the files and has them
\* loaded: steps of the index, with their files, in any order.
Load(steps, files) ==
    /\ Called /\ store.maintenance /\ ~IsFileBusy(app)
    /\ Apply(ChainChanged(CancelFileOperations(
           [app EXCEPT !.dialog = Closed, !.store.chain = steps,
                       !.store.used = @ \cup {steps[i].uid : i \in DOMAIN steps}])))
    /\ index' = steps /\ disk' = files
    /\ acked' = [uid \in Items |-> 0]
    /\ UNCHANGED <<runs, saveFailures>>

BeginShutdown ==
    /\ ~store.shuttingDown
    /\ Apply([ChainChanged(app) EXCEPT !.store.shuttingDown = TRUE])
    /\ UNCHANGED <<disk, index, acked, calls, runs, saveFailures>>

-----------------------------------------------------------------------------
(* applyChain() on the generation's worker thread *)

\* The request takes the chain as it is.
Generate ==
    /\ run.phase = "idle" /\ runs < MaxRuns /\ runs' = runs + 1
    /\ AcceptsChanges(app)
    /\ run' = [phase |-> "applying", chain |-> store.chain, at |-> 1,
               outcomes |-> <<>>, cancelled |-> FALSE, fired |-> FALSE, source |-> Absent]
    /\ UNCHANGED <<store, write, dialog, disk, index, acked, calls, saveFailures>>

\* A step that fails leaves the configuration that it was handed.
Past(r, source, ok) ==
    [r EXCEPT !.phase = "applying", !.at = @ + 1, !.source = Absent,
              !.outcomes = Append(@, [uid |-> r.chain[r.at].uid,
                                      version |-> source.version, ok |-> ok])]

\* A merge is applied; a script is handed to an engine under a watchdog.
ApplyStep ==
    /\ run.phase = "applying" /\ ~run.cancelled /\ run.at <= Len(run.chain)
    /\ LET step == run.chain[run.at]
           source == disk[step.uid]
           ran == step.uid \in Scripts /\ source # Absent
       IN run' = IF ~step.enabled THEN [run EXCEPT !.at = @ + 1]
                 ELSE IF ran THEN [run EXCEPT !.phase = "script", !.fired = FALSE, !.source = source]
                 ELSE Past(run, source, source.behaves = "well")
    /\ UNCHANGED <<store, write, dialog, disk, index, acked, calls, runs, saveFailures>>

\* Mutant: the watchdog looks at the cancellation only.
WatchdogIgnoringDeadline ==
    /\ run.phase = "script" /\ ~run.fired /\ run.cancelled
    /\ run' = [run EXCEPT !.fired = TRUE]
    /\ UNCHANGED <<store, write, dialog, disk, index, acked, calls, runs, saveFailures>>

\* At its deadline, or when the generation is cancelled, it interrupts.
WatchdogFires ==
    /\ run.phase = "script" /\ ~run.fired
    /\ run' = [run EXCEPT !.fired = TRUE]
    /\ UNCHANGED <<store, write, dialog, disk, index, acked, calls, runs, saveFailures>>

\* Once the script has returned the watchdog is stopped and joined, and
\* what it did decides.
ScriptReturns ==
    /\ run.phase = "script" /\ (run.source.behaves = "endless" => run.fired)
    /\ run' = Past(run, run.source, ~run.fired /\ run.source.behaves = "well")
    /\ UNCHANGED <<store, write, dialog, disk, index, acked, calls, runs, saveFailures>>

\* The configuration is delivered unless the generation was cancelled.
Finished == run.phase = "applying" /\ (run.cancelled \/ run.at > Len(run.chain))
Deliver ==
    /\ Finished /\ run' = NoRun
    /\ UNCHANGED <<store, write, dialog, disk, index, acked, calls, runs, saveFailures>>

-----------------------------------------------------------------------------
\* The chains that backups hold.
Chains == {<<>>} \cup {<<[uid |-> uid, enabled |-> TRUE]>> : uid \in Items}

Init ==
    /\ \E first \in Items :
         /\ store = [chain |-> <<[uid |-> first, enabled |-> TRUE]>>, used |-> {first},
                     maintenance |-> FALSE, shuttingDown |-> FALSE, running |-> FALSE,
                     generation |-> 0, queue |-> <<>>]
         /\ disk = [uid \in Items |-> IF uid = first THEN Template ELSE Absent]
    /\ index = store.chain
    /\ write = NoWrite /\ dialog = Closed /\ run = NoRun
    /\ acked = [uid \in Items |-> 0]
    /\ calls = 0 /\ runs = 0 /\ saveFailures = 0

User ==
    \/ \E uid \in Items :
         \/ AddItem(uid) \/ RemoveItem(uid) \/ SetEnabled(uid) \/ RenameItem(uid) \/ EditStep(uid)
         \/ \E behaves \in Behaviours : ImportItemAsync(uid, behaves)
         \/ \E target \in 1 .. 3 : MoveItem(uid, target)
    \/ \E behaves \in Behaviours : EditorSaves(behaves)
    \/ EditorCloses \/ BeginShutdown \/ Generate
    \/ \E enabled \in BOOLEAN : SetMaintenanceMode(enabled)
    \/ \E steps \in Chains :
         Load(steps, [uid \in Items |->
             IF \E i \in DOMAIN steps : steps[i].uid = uid THEN Template ELSE disk[uid]])

Machine ==
    \/ WorkerPrepares \/ WorkerCommits \/ FinishUpdate \/ FinishCreation
    \/ \E ok \in BOOLEAN : EditorLoads(ok)
    \/ ApplyStep \/ WatchdogFires \/ ScriptReturns \/ Deliver

Next == User \/ Machine

\* Threads are scheduled, the event loop runs and scripts that end do.
Fairness ==
    /\ WF_vars(WorkerPrepares \/ WorkerCommits \/ FinishUpdate \/ FinishCreation)
    /\ WF_vars(ApplyStep \/ Deliver) /\ WF_vars(WatchdogFires) /\ WF_vars(ScriptReturns)

Spec == Init /\ [][Next]_vars /\ Fairness

-----------------------------------------------------------------------------
TypeOK ==
    /\ app \in AppRec
    /\ \A i, j \in DOMAIN store.chain : store.chain[i].uid = store.chain[j].uid => i = j
    /\ disk \in [Items -> Contents \cup {Absent}] /\ index \in Seq(Step)
    /\ acked \in [Items -> 0 .. MaxCalls] /\ calls \in 0 .. MaxCalls

\* The state has its type; a write runs as long as isFileBusy() says so, and
\* nothing waits in the queue without a write whose end takes it up; every
\* listed step has its file, and chain.json lists the steps that the chain
\* has unless writing it has failed (startNextWrite, the write's slot).
Safety ==
    /\ TypeOK
    /\ store.running <=> write # NoWrite
    /\ store.queue # <<>> => store.running
    /\ \A uid \in Listed(app) : disk[uid] # Absent
    /\ saveFailures = 0 => index = store.chain

\* A dialog that waits for a save and is not closed by the user closes only when
\* the step is listed and its file has what a write put there: cancellations,
\* removals and backups in between show as failures. What is there is its own
\* text, unless an earlier save of the step was still unanswered when it asked
\* (itemContentSaved in the write's slot and at the dialog).
SaveIsOnDisk ==
    [][ dialog.state = "saving" /\ dialog'.state = "closed" /\ ~EditorCloses /\ ~store.maintenance =>
          /\ write.phase = "ended" /\ write.request.uid = dialog.uid
          /\ disk[dialog.uid] = write.request.content /\ dialog.uid \in Listed(app)
          /\ ~dialog.behind => disk[dialog.uid].version = dialog.asked ]_vars

\* What a generation has tried is every enabled step of the chain, in order,
\* and in no older version than the one last confirmed as saved.
TriedTheChain(r) ==
    LET tried == r.outcomes
        Place(k) == IndexOf(app, tried[k].uid)
    IN /\ \A k \in DOMAIN tried : /\ tried[k].uid \in Listed(app)
                                 /\ tried[k].version >= acked[tried[k].uid]
       /\ {Place(k) : k \in DOMAIN tried} = {i \in DOMAIN store.chain : store.chain[i].enabled}
       /\ \A k, l \in DOMAIN tried : k < l => Place(k) < Place(l)

\* A generation that is delivered has tried the chain as it is now
\* (chainChanged voids the generation; applyChain).
DeliveredChainIsCurrent == [][ Deliver /\ ~run.cancelled => TriedTheChain(run) ]_vars

\* Every save of the dialog is answered, and every generation ends, an
\* endless script's too (itemContentSaved; Watchdog).
WorkEnds ==
    /\ []<>(dialog.state # "saving")
    /\ []<>(run.phase = "idle")
-----------------------------------------------------------------------------
(* What makes the safety properties inductive *)

\* Of two requests for one step, none creates it and the later is newer.
Follows(q, r) ==
    q.uid = r.uid => ~q.create /\ ~r.create /\ q.content.version <= r.content.version

\* Every step is listed once, and maintenance leaves nothing queued.
StoreKept(s) ==
    /\ \A i, j \in DOMAIN s.store.chain : s.store.chain[i].uid = s.store.chain[j].uid => i = j
    /\ Listed(s) \subseteq s.store.used
    /\ s.store.running <=> s.write # NoWrite
    /\ s.store.maintenance => s.store.queue = <<>>

\* What is to be written, of the a that was confirmed and the c calls so far.
QueueKept(s, a, c) ==
    /\ \A q \in Pending(s) :
           /\ q.uid \in s.store.used /\ (q.create => q.uid \notin Listed(s))
           /\ a[q.uid] <= q.content.version /\ q.content.version <= c
    /\ \A i, j \in DOMAIN s.store.queue : i < j => Follows(s.store.queue[i], s.store.queue[j])
    /\ s.write # NoWrite => \A r \in Range(s.store.queue) : Follows(s.write.request, r)

\* The files d hold what is listed, what was confirmed, and what the worker
\* has written.
FilesKept(s, d, a) ==
    /\ \A uid \in Listed(s) : d[uid] # Absent /\ a[uid] <= d[uid].version
    /\ \A uid \in Items \ s.store.used : a[uid] = 0
    /\ s.write.phase = "ended" /\ ~s.write.cancelled /\ ~s.write.failed =>
           d[s.write.request.uid] = s.write.request.content

\* The outcomes of a generation are those of the enabled steps it has passed.
Tried(r, a) ==
    LET passed == {i \in 1 .. r.at - 1 : r.chain[i].enabled}
        Of(k, i) == r.chain[i].uid = r.outcomes[k].uid
    IN /\ \A k \in DOMAIN r.outcomes :
              /\ \E i \in passed : Of(k, i)
              /\ a[r.outcomes[k].uid] <= r.outcomes[k].version
       /\ \A i \in passed : \E k \in DOMAIN r.outcomes : Of(k, i)
       /\ \A k, l \in DOMAIN r.outcomes : \A i, j \in passed :
              k < l /\ Of(k, i) /\ Of(l, j) => i < j

\* Of a run r, with the steps of the chain now.
RunKept(r, steps, a) ==
    r.phase # "idle" =>
        /\ r.at \in 1 .. Len(r.chain) + (IF r.phase = "script" THEN 0 ELSE 1)
        /\ ~r.cancelled =>
               /\ r.chain = steps /\ Tried(r, a)
               /\ r.phase = "script" =>
                      r.chain[r.at].enabled /\ a[r.chain[r.at].uid] <= r.source.version

Kept(s, d, a, c) ==
    /\ s \in AppRec /\ d \in [Items -> Contents \cup {Absent}]
    /\ a \in [Items -> 0 .. MaxCalls] /\ c \in 0 .. MaxCalls
    /\ \A uid \in Items : a[uid] <= c
    /\ StoreKept(s) /\ QueueKept(s, a, c) /\ FilesKept(s, d, a)
    /\ RunKept(s.run, s.store.chain, a)

\* The save that is next answered to the dialog is its own, unless it asked for
\* it behind another.
DialogKept(s) ==
    s.dialog.state = "saving" /\ ~s.dialog.behind =>
        \A q \in Unanswered(s, s.dialog.uid) : q.content.version = s.dialog.asked

\* Nothing waits without a write whose end takes it up.
Served(s) == s.store.queue # <<>> => s.store.running

IndexKept ==
    /\ index \in Seq(Step) /\ saveFailures \in Nat
    /\ saveFailures = 0 => index = store.chain

IInv == Kept(app, disk, acked, calls) /\ Served(app) /\ IndexKept /\ DialogKept(app)
-----------------------------------------------------------------------------
(* A known divergence *)

\* What one would want of the dialog and the code does not give: it closes as
\* saved only with its own text in the file. It takes the answer to a save of an
\* earlier dialog of the step, which was closed while it waited (the dialog's
\* slot of itemContentSaved knows the save by its step alone).
OwnSaveIsOnDisk ==
    [][ dialog.state = "saving" /\ dialog'.state = "closed" /\ ~EditorCloses /\ ~store.maintenance =>
          disk[dialog.uid].version = dialog.asked ]_vars
=============================================================================
