---------------------------- MODULE ProxyService ----------------------------
(***************************************************************************)
(* platform::SystemProxyService: commands that change the operating        *)
(* system's proxy settings, run one at a time on a worker thread.  All     *)
(* calls and slots run on the GUI thread.  While the end of a job is       *)
(* delivered, the slots of the signals may call the service again, so a    *)
(* delivery is a state with an action for each of its stages.              *)
(***************************************************************************)
EXTENDS ProxyJobs

CONSTANT NoJob   \* the empty optional

Changes  == Enables \cup {Disable}
Commands == Changes \cup {Restore}

ASSUME NoJobAssumption == NoJob \notin Jobs

VARIABLES
    service,   \* the SystemProxyService object
    last,      \* the last command that was run, reads aside
    intent,    \* the last command that was accepted
    overtaken  \* that command matched the active job while a restore waited

queueVars == <<service, last, intent, overtaken>>

\* delivering is the stage of the delivery: none, the job's result, or the
\* end of the shutdown; delivered is the job whose end it is.
ServiceRec == [
    active        : Jobs \cup {NoJob},
    queuedChange  : Changes \cup {NoJob},
    refreshQueued : BOOLEAN,
    restoreQueued : BOOLEAN,
    busy          : BOOLEAN,
    delivering    : {"none", "result", "shutdown"},
    delivered     : Jobs \cup {NoJob},
    shuttingDown  : BOOLEAN,
    shutdownDone  : BOOLEAN]

NewService == [
    active |-> NoJob, queuedChange |-> NoJob, refreshQueued |-> FALSE,
    restoreQueued |-> FALSE, busy |-> FALSE, delivering |-> "none",
    delivered |-> NoJob, shuttingDown |-> FALSE, shutdownDone |-> FALSE]

IsDelivering(s) == s.delivering # "none"

Start(s, job) == [s EXCEPT !.active = job, !.busy = TRUE]

\* Mutant: a change that waits runs before a restore that waits.
ProcessNextChangeFirst(s) ==
    IF s.active # NoJob \/ IsDelivering(s) \/ s.shutdownDone THEN s
    ELSE IF s.queuedChange # NoJob /\ ~s.shuttingDown
         THEN Start([s EXCEPT !.queuedChange = NoJob], s.queuedChange)
    ELSE IF s.restoreQueued THEN Start([s EXCEPT !.restoreQueued = FALSE], Restore)
    ELSE IF s.refreshQueued /\ ~s.shuttingDown
         THEN Start([s EXCEPT !.refreshQueued = FALSE], Refresh)
    ELSE [s EXCEPT !.busy = FALSE]

\* A restore goes before a change, and a change before a read.
ProcessNext(s) ==
    IF s.active # NoJob \/ IsDelivering(s) \/ s.shutdownDone THEN s
    ELSE IF s.restoreQueued THEN Start([s EXCEPT !.restoreQueued = FALSE], Restore)
    ELSE IF s.queuedChange # NoJob /\ ~s.shuttingDown
         THEN Start([s EXCEPT !.queuedChange = NoJob], s.queuedChange)
    ELSE IF s.refreshQueued /\ ~s.shuttingDown
         THEN Start([s EXCEPT !.refreshQueued = FALSE], Refresh)
    ELSE [s EXCEPT !.busy = FALSE]

QueueTypeOK ==
    /\ service \in ServiceRec
    /\ last \in Commands \cup {NoJob} /\ intent \in Commands \cup {NoJob}
    /\ overtaken \in BOOLEAN

QueueInit ==
    /\ service = NewService
    /\ last = NoJob /\ intent = NoJob /\ overtaken = FALSE

-----------------------------------------------------------------------------
(* Calls: from the user interface, or from a slot during a delivery *)

\* What is run when a handler is over, if it starts something.
Runs(s) == /\ service' = s
           /\ last' = IF s.active \in Commands THEN s.active ELSE last

\* A read is dropped while a job runs, which reads back anyway.
CallRefresh ==
    /\ ~service.shuttingDown /\ service.active = NoJob /\ ~IsDelivering(service)
    /\ Runs(ProcessNext([service EXCEPT !.refreshQueued = TRUE]))
    /\ UNCHANGED <<intent, overtaken>>

\* The latest change replaces the one that waits; one that the active job
\* already makes only drops it.
SetEnabled(request) ==
    /\ ~service.shuttingDown
    /\ Runs(IF service.active = request
            THEN [service EXCEPT !.queuedChange = NoJob]
            ELSE ProcessNext([service EXCEPT !.queuedChange = request, !.refreshQueued = FALSE]))
    /\ intent' = request
    /\ overtaken' = (service.active = request /\ service.restoreQueued)

\* Mutant: the restore waits in the place of a change.
RestoreOwnedAsChange ==
    /\ ~service.shuttingDown
    /\ Runs(ProcessNext([service EXCEPT !.queuedChange = Restore, !.refreshQueued = FALSE]))
    /\ intent' = Restore /\ overtaken' = FALSE

\* Mutant: a change that waits stays behind the restore.
RestoreOwnedKeepingChange ==
    /\ ~service.shuttingDown
    /\ Runs(ProcessNext([service EXCEPT !.refreshQueued = FALSE,
                         !.restoreQueued = @ \/ service.active # Restore]))
    /\ intent' = Restore /\ overtaken' = FALSE

RestoreOwned ==
    /\ ~service.shuttingDown
    /\ Runs(ProcessNext([service EXCEPT
                !.queuedChange = NoJob, !.refreshQueued = FALSE,
                !.restoreQueued = @ \/ service.active # Restore]))
    /\ intent' = Restore /\ overtaken' = FALSE

\* Mutant: a restore is queued only when nothing runs.
ShutdownUnlessActive ==
    /\ ~service.shuttingDown
    /\ Runs(ProcessNext([service EXCEPT
                !.shuttingDown = TRUE, !.queuedChange = NoJob, !.refreshQueued = FALSE,
                !.restoreQueued = service.active = NoJob]))
    /\ UNCHANGED <<intent, overtaken>>

Shutdown ==
    /\ ~service.shuttingDown
    /\ Runs(ProcessNext([service EXCEPT
                !.shuttingDown = TRUE, !.queuedChange = NoJob, !.refreshQueued = FALSE,
                !.restoreQueued = service.active # Restore]))
    /\ UNCHANGED <<intent, overtaken>>

-----------------------------------------------------------------------------
(* The end of a job *)

\* The worker has ended: stateChanged() and the report of the job follow.
Deliver ==
    /\ service.active # NoJob
    /\ Runs([service EXCEPT !.active = NoJob, !.delivering = "result",
                            !.delivered = service.active])
    /\ UNCHANGED <<intent, overtaken>>

EndsShutdown(s) == s.delivered = Restore /\ s.shuttingDown

\* Mutant: any job that ends after shutdown() ends it.
ReportShutdownOfAny ==
    /\ service.delivering = "result" /\ service.shuttingDown
    /\ Runs([service EXCEPT !.shutdownDone = TRUE, !.busy = FALSE, !.delivering = "shutdown"])
    /\ UNCHANGED <<intent, overtaken>>

\* After restoreFinished(): shutdownFinished(), whose slots may still call.
ReportShutdown ==
    /\ service.delivering = "result" /\ EndsShutdown(service)
    /\ Runs([service EXCEPT !.shutdownDone = TRUE, !.busy = FALSE, !.delivering = "shutdown"])
    /\ UNCHANGED <<intent, overtaken>>

\* Mutant: what slots queued during the delivery is not taken up.
EndDeliveryOnly ==
    /\ IsDelivering(service)
    /\ service.delivering = "result" => ~EndsShutdown(service)
    /\ Runs([service EXCEPT !.delivering = "none", !.delivered = NoJob,
                            !.busy = service.restoreQueued])
    /\ UNCHANGED <<intent, overtaken>>

EndDelivery ==
    /\ IsDelivering(service)
    /\ service.delivering = "result" => ~EndsShutdown(service)
    /\ Runs(ProcessNext([service EXCEPT !.delivering = "none", !.delivered = NoJob]))
    /\ UNCHANGED <<intent, overtaken>>

Calls == CallRefresh \/ RestoreOwned \/ Shutdown \/ \E request \in Changes : SetEnabled(request)

Delivery == ReportShutdown \/ EndDelivery

QueueNext == Calls \/ Deliver \/ Delivery

\* The worker's commands have deadlines, its end is delivered, slots return.
Fairness == WF_queueVars(Deliver) /\ WF_queueVars(Delivery)

QueueSpec == QueueInit /\ [][QueueNext]_queueVars
FairQueueSpec == QueueSpec /\ Fairness

-----------------------------------------------------------------------------
(* Safety *)

\* Nothing waits without a job or a delivery whose end takes it up, and then
\* the service does not claim to be busy.  What a shutdown leaves is the
\* exception: shutdown() called by a slot of the restore that answers it
\* queues a restore that never runs.
NothingWaits ==
    service.active = NoJob /\ ~IsDelivering(service) /\ ~service.shutdownDone =>
        /\ ~service.restoreQueued /\ ~service.refreshQueued
        /\ service.queuedChange = NoJob
        /\ ~service.busy

\* What will have been run last once everything that waits is done.
Outcome ==
    IF service.queuedChange # NoJob THEN service.queuedChange
    ELSE IF service.restoreQueued THEN Restore ELSE last

\* The command given last is the one that prevails, whatever ran or waited
\* when it was given; for overtaken see LatestIntentWins.
IntentKept == ~service.shuttingDown /\ ~overtaken => Outcome = intent

\* From shutdown() on a restore waits, runs or has run, and nothing runs
\* after the one that shutdownFinished() reports.
ShutdownRestoresLast ==
    /\ service.shuttingDown =>
        \/ service.restoreQueued \/ service.active = Restore
        \/ service.delivered = Restore \/ service.shutdownDone
    /\ service.shutdownDone => last = Restore /\ service.active = NoJob

\* The commands' order is kept and nothing is forgotten, in every state.
QueueSafety == QueueTypeOK /\ NothingWaits /\ IntentKept /\ ShutdownRestoresLast

\* What makes these three inductive: a job and a delivery exclude each other,
\* what runs or is delivered was run last, and a shutdown leaves no change.
Consistent ==
    /\ service.active # NoJob => ~IsDelivering(service) /\ service.busy
    /\ IsDelivering(service) <=> service.delivered # NoJob
    /\ service.delivering = "shutdown" => service.shutdownDone
    /\ service.shutdownDone => service.shuttingDown
    /\ service.active \in Commands => last = service.active
    /\ service.delivered \in Commands => last = service.delivered
    /\ service.shuttingDown => service.queuedChange = NoJob /\ ~service.refreshQueued

QueueIInv == QueueTypeOK /\ NothingWaits /\ IntentKept /\ ShutdownRestoresLast /\ Consistent

-----------------------------------------------------------------------------
(* Liveness *)

\* Quitting waits for shutdownFinished().
ShutdownFinishes == service.shuttingDown ~> service.shutdownDone

\* A core that is gone must not stay the system's proxy: a restore that waits
\* is run, however many changes are asked for.
RestoreIsRun == service.restoreQueued ~> service.active = Restore \/ service.shutdownDone

-----------------------------------------------------------------------------
(* What a comment says, and the code does not keep *)

\* "Latest intent already matches the in-flight operation.": at rest, the
\* command run last is the one given last.
LatestIntentWins ==
    service.active = NoJob /\ ~IsDelivering(service) /\ ~service.shuttingDown => last = intent
=============================================================================
