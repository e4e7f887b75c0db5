--------------------------- MODULE ServiceSettings ---------------------------
(***************************************************************************)
(* The privileged service's installation: platform::                       *)
(* PrivilegedServiceInstaller, whose inspections and whose installer run   *)
(* on worker threads, the page ui::ServiceSettings that drives it, and the *)
(* managed core as far as its state opens and closes the page's buttons.   *)
(***************************************************************************)
EXTENDS Naturals

CONSTANTS
    Retries,   \* probes that follow an installation (20)
    MaxClicks  \* bound on what the user starts

ASSUME RetriesAssumption == Retries \in Nat /\ MaxClicks \in Nat

Inspection == [latest : BOOLEAN, saw : {"nothing", "installed", "absent"}]
NoJob == [phase |-> "none"]

VARIABLES
    disk,      \* whether the service is installed
    late,      \* an installer that was given up: "none", what it will do, or "done"
    installer, \* PrivilegedServiceInstaller; latest marks the refreshEpoch_
    job,       \* the installer's run on its worker thread
    settings,  \* the page
    core,      \* the managed core, and the generation that will start it
    clicks

serviceVars == <<disk, late, installer, job, settings, core, clicks>>

Clicked == clicks < MaxClicks /\ clicks' = clicks + 1

\* A core that was stopped while it was being checked may take some time.
CoreStopped == core.state \in {"stopped", "settling"}

\* The buttons follow every change of what they depend on.
Available ==
    CoreStopped /\ ~settings.running /\ ~core.generating /\ ~installer.busy

-----------------------------------------------------------------------------
(* PrivilegedServiceInstaller *)

Supersede(inspections) == {[i EXCEPT !.latest = FALSE] : i \in inspections}

\* What a given-up installer did will be seen by an inspection that begins now.
Seen == late' = IF late = "done" THEN "none" ELSE late

RefreshInstaller(p) ==
    [p EXCEPT !.inspections = Supersede(@) \cup {[latest |-> TRUE, saw |-> "nothing"]}]

\* The worker looks at the files.
Inspect ==
    \E i \in installer.inspections :
        /\ i.saw = "nothing"
        /\ installer' = [installer EXCEPT !.inspections =
                (@ \ {i}) \cup {[i EXCEPT !.saw = IF disk THEN "installed" ELSE "absent"]}]
        /\ UNCHANGED <<disk, late, job, settings, core, clicks>>

InspectionEnds ==
    \E i \in installer.inspections :
        /\ i.saw # "nothing"
        /\ LET p == [installer EXCEPT !.inspections = @ \ {i}]
           IN IF ~i.latest \/ p.busy THEN installer' = p /\ UNCHANGED settings
              ELSE /\ installer' = [p EXCEPT !.installed = i.saw = "installed"]
                   /\ settings' = [settings EXCEPT !.checked = TRUE]
        /\ UNCHANGED <<disk, late, job, core, clicks>>

\* Mutant: an inspection that is under way still counts.
RunUnmarked(install) ==
    /\ ~installer.busy
    /\ installer' = [installer EXCEPT !.busy = TRUE]
    /\ job' = [phase |-> "authorizing", install |-> install,
               success |-> FALSE, installed |-> FALSE]
    /\ Seen

Run(install) ==
    /\ ~installer.busy
    /\ installer' = [installer EXCEPT !.busy = TRUE, !.inspections = Supersede(@)]
    /\ job' = [phase |-> "authorizing", install |-> install,
               success |-> FALSE, installed |-> FALSE]
    /\ Seen

\* installAuthorized(): the user may refuse, the helper succeeds, or fails
\* whatever it did, or takes longer than the limit.
Authorize ==
    /\ job.phase = "authorizing"
    /\ \/ job' = [job EXCEPT !.phase = "helping"]
       \/ job' = [job EXCEPT !.phase = "reading"]
    /\ UNCHANGED <<disk, late, installer, settings, core, clicks>>

HelperEnds ==
    /\ job.phase = "helping"
    /\ \/ disk' = job.install /\ job' = [job EXCEPT !.phase = "matching", !.success = TRUE]
       \/ disk' \in BOOLEAN /\ job' = [job EXCEPT !.phase = "matching"]
    /\ UNCHANGED <<late, installer, settings, core, clicks>>

\* One given-up helper at a time.
GiveUpHelper ==
    /\ job.phase = "helping" /\ late \in {"none", "done"}
    /\ job' = [job EXCEPT !.phase = "reading"]
    /\ late' = IF job.install THEN "installs" ELSE "removes"
    /\ UNCHANGED <<disk, installer, settings, core, clicks>>

LateHelper ==
    /\ late \in {"installs", "removes"}
    /\ disk' = (late = "installs") /\ late' = "done"
    /\ UNCHANGED <<installer, job, settings, core, clicks>>

\* A success whose files do not match is none.
MatchResult ==
    /\ job.phase = "matching"
    /\ job' = [job EXCEPT !.phase = "reading", !.success = @ /\ disk = job.install]
    /\ UNCHANGED <<disk, late, installer, settings, core, clicks>>

\* What is reported is looked at once more, whether it succeeded or not.
ReadResult ==
    /\ job.phase = "reading"
    /\ job' = [job EXCEPT !.phase = "ended", !.installed = disk]
    /\ UNCHANGED <<disk, late, installer, settings, core, clicks>>

-----------------------------------------------------------------------------
(* ServiceSettings *)

\* CoreProcess::setUseService() refuses while an earlier core is not gone.
ApplyMode(service) ==
    core' = IF core.state = "stopped" THEN [core EXCEPT !.service = service] ELSE core

Probing(s) == [s EXCEPT !.probe = TRUE]

CheckStatus ==
    IF installer.busy THEN UNCHANGED <<installer, settings, late>>
    ELSE installer' = RefreshInstaller(installer) /\ settings' = Probing(settings) /\ Seen

\* The finished signal, after the installer's own members are set.
RunEnds ==
    /\ job.phase = "ended"
    /\ LET p == [installer EXCEPT !.installed = job.installed, !.busy = FALSE]
           s == [settings EXCEPT !.checked = TRUE]
       IN IF job.success
          THEN /\ ApplyMode(job.installed)
               /\ installer' = RefreshInstaller(p)
               /\ settings' = Probing([s EXCEPT !.reachable = FALSE,
                                                !.retries = IF job.installed THEN Retries ELSE 0])
               /\ Seen
          ELSE installer' = p /\ settings' = s /\ UNCHANGED <<core, late>>
    /\ job' = NoJob
    /\ UNCHANGED <<disk, clicks>>

ClickCheck == Clicked /\ CheckStatus /\ UNCHANGED <<disk, job, core>>

\* stateChanged asks for a check in the next turn of the event loop.
CheckAfterStop ==
    /\ core.check
    /\ core' = [core EXCEPT !.check = FALSE]
    /\ CheckStatus
    /\ UNCHANGED <<disk, job, clicks>>

ClickInstall ==
    /\ Clicked /\ Available
    /\ settings' = [settings EXCEPT !.probe = FALSE]
    /\ Run(TRUE)
    /\ UNCHANGED <<disk, core>>

ClickRemove ==
    /\ Clicked /\ Available /\ installer.installed
    /\ settings' = [settings EXCEPT !.asking = TRUE]
    /\ UNCHANGED <<disk, late, installer, job, core>>

RemoveAnswered ==
    /\ settings.asking
    /\ \/ /\ Available
          /\ settings' = [settings EXCEPT !.asking = FALSE, !.probe = FALSE]
          /\ Run(FALSE)
       \/ settings' = [settings EXCEPT !.asking = FALSE] /\ UNCHANGED <<installer, job, late>>
    /\ UNCHANGED <<disk, core, clicks>>

ToggleService ==
    /\ Clicked /\ Available /\ installer.installed
    /\ ApplyMode(~core.service)
    /\ UNCHANGED <<disk, late, installer, job, settings>>

\* Another session's core may be running in the service as well.
StatusReceived ==
    /\ settings.probe
    /\ \E running \in BOOLEAN :
         settings' = [settings EXCEPT !.probe = FALSE, !.running = running, !.retries = 0,
                                      !.timer = FALSE, !.reachable = TRUE]
    /\ UNCHANGED <<disk, late, installer, job, core, clicks>>

\* Mutant: the tries are not counted.
ProbeFailsUncounted ==
    /\ settings.probe
    /\ settings' = [settings EXCEPT !.probe = FALSE, !.reachable = FALSE,
                                    !.timer = @ \/ (settings.retries > 0 /\ ~installer.busy)]
    /\ UNCHANGED <<disk, late, installer, job, core, clicks>>

ProbeFails ==
    /\ settings.probe
    /\ LET s == [settings EXCEPT !.probe = FALSE, !.reachable = FALSE]
       IN settings' = IF s.retries > 0 /\ ~installer.busy
                      THEN [s EXCEPT !.retries = @ - 1, !.timer = TRUE] ELSE s
    /\ UNCHANGED <<disk, late, installer, job, core, clicks>>

StartupRetry ==
    /\ settings.timer
    /\ settings' = Probing([settings EXCEPT !.timer = FALSE])
    /\ UNCHANGED <<disk, late, installer, job, core, clicks>>

-----------------------------------------------------------------------------
(* The managed core, from the main window, the tray or a hotkey *)

\* MainWindow::startCore() asks for a configuration, which launches the core.
StartCore ==
    /\ Clicked /\ CoreStopped /\ ~core.generating /\ ~installer.busy
    /\ core' = [core EXCEPT !.generating = TRUE]
    /\ UNCHANGED <<disk, late, installer, job, settings>>

RuntimeConfigReady ==
    /\ core.generating
    /\ \/ core' = [core EXCEPT !.generating = FALSE, !.state = "active"]
       \/ core' = [core EXCEPT !.generating = FALSE]
    /\ UNCHANGED <<disk, late, installer, job, settings, clicks>>

\* Stopped or failed; a check follows.
CoreEnds ==
    /\ core.state = "active"
    /\ \E state \in {"stopped", "settling"} :
         core' = [core EXCEPT !.state = state, !.check = TRUE]
    /\ UNCHANGED <<disk, late, installer, job, settings, clicks>>

CoreSettles ==
    /\ core.state = "settling" /\ core' = [core EXCEPT !.state = "stopped"]
    /\ UNCHANGED <<disk, late, installer, job, settings, clicks>>

-----------------------------------------------------------------------------

\* The mode is the saved one; the page asks for a check when it exists.
ServiceInit ==
    /\ disk \in BOOLEAN /\ late = "none" /\ job = NoJob /\ clicks = 0
    /\ installer = [installed |-> FALSE, busy |-> FALSE, inspections |-> {}]
    /\ settings = [checked |-> FALSE, retries |-> 0, timer |-> FALSE, probe |-> FALSE,
                   reachable |-> FALSE, running |-> FALSE, asking |-> FALSE]
    /\ \E service \in BOOLEAN :
         core = [state |-> "stopped", generating |-> FALSE, service |-> service, check |-> TRUE]

ServiceNext ==
    \/ Inspect \/ InspectionEnds \/ Authorize \/ HelperEnds \/ GiveUpHelper \/ LateHelper
    \/ MatchResult \/ ReadResult \/ RunEnds \/ ClickCheck \/ CheckAfterStop \/ ClickInstall
    \/ ClickRemove \/ RemoveAnswered \/ ToggleService \/ StatusReceived \/ ProbeFails \/ StartupRetry
    \/ StartCore \/ RuntimeConfigReady \/ CoreEnds \/ CoreSettles

\* A request of the probe ends within its time limit, the timer fires.
ServiceFairness ==
    /\ WF_serviceVars(StatusReceived \/ ProbeFails)
    /\ WF_serviceVars(StartupRetry)

ServiceSpec == ServiceInit /\ [][ServiceNext]_serviceVars /\ ServiceFairness

-----------------------------------------------------------------------------

InstallerRec == [installed : BOOLEAN, busy : BOOLEAN, inspections : SUBSET Inspection]
RunRec == [phase : {"authorizing", "helping", "matching", "reading", "ended"}, install : BOOLEAN,
           success : BOOLEAN, installed : BOOLEAN]
PageRec ==
    [checked : BOOLEAN, retries : 0 .. Retries, timer : BOOLEAN, probe : BOOLEAN,
     reachable : BOOLEAN, running : BOOLEAN, asking : BOOLEAN]
CoreRec == [state : {"stopped", "settling", "active"}, generating : BOOLEAN,
            service : BOOLEAN, check : BOOLEAN]

ServiceTypeOK ==
    /\ disk \in BOOLEAN /\ late \in {"none", "installs", "removes", "done"}
    /\ installer \in InstallerRec /\ job \in RunRec \cup {NoJob}
    /\ settings \in PageRec /\ core \in CoreRec
    /\ clicks \in 0 .. MaxClicks

BusyWithJob == installer.busy <=> job.phase # "none"
CoreRests   == installer.busy => CoreStopped /\ ~core.generating
NoLatest    == \A i \in installer.inspections : ~i.latest
KnownIsTrue ==
    settings.checked /\ ~installer.busy /\ late # "done" /\ NoLatest
        => (installer.installed <=> disk)

\* What is known of the installation is true, once it was looked at and
\* nothing is under way: no inspection that began before an installation
\* overwrites what it found.  Of a helper that was given up the next check
\* tells.  And files are only replaced while no core runs or is about to.
InstallationIsKnown == ServiceTypeOK /\ BusyWithJob /\ CoreRests /\ KnownIsTrue

\* What makes it inductive: the latest inspection, if it has looked, and a
\* run that has ended know what is installed.
LatestIsTrue ==
    \A i \in installer.inspections : i.latest =>
        /\ ~installer.busy
        /\ i.saw # "nothing" /\ late # "done" => (i.saw = "installed" <=> disk)
ResultIsTrue == job.phase = "ended" /\ late # "done" => (job.installed <=> disk)

ServiceIInv == InstallationIsKnown /\ LatestIsTrue /\ ResultIsTrue

\* The probes that follow an installation come to an end.
ProbingEnds == (settings.probe \/ settings.timer) ~> ~(settings.probe \/ settings.timer)
=============================================================================
