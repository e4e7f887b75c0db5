------------------------------- MODULE CoreOps -------------------------------
(***************************************************************************)
(* The member functions of core::CoreProcess as operators on one record,   *)
(* the object's fields.  A C++ function that calls others is an operator   *)
(* that applies theirs, so every event handler of the modules that use     *)
(* this one is a single step with all its nested calls.                    *)
(*                                                                         *)
(* The n-th call of start() is request n.  It names the configuration      *)
(* path, the validator process started for it and the core process it is   *)
(* launched as (a request is launched at most once).  NoReq is the null    *)
(* pointer, the empty optional and the invalid Endpoint.                   *)
(***************************************************************************)
EXTENDS Naturals

NoReq == 0

CoreState == {"Stopped", "Starting", "Running", "Stopping", "Failed"}

\* What QProcess::start of the core and the configuration lead to.
LaunchOutcome == {"failedToStart", "noController", "awaits"}

\* The signals of CoreProcess; stopFinished is split by its argument.
Signal == {"ready", "failed", "stopped", "stopConfirmed", "stopUnconfirmed"}

\* The fields, named after the members without the trailing underscore.
\* alive and checking hold the core and validator children QProcess still
\* reports as running; sig and call collect what the current handler emits
\* and the request it makes of the PrivilegedServiceClient.
CoreRec ==
    [state : CoreState, explicitStop : BOOLEAN, launchGeneration : Nat,
     pendingLaunch : Nat, process : Nat, retiring : Nat,
     stopResult : {"Stopped", "Failed"},
     validation : Nat, cancelingValidations : SUBSET Nat,
     configPath : Nat, endpoint : Nat, pendingEndpoint : Nat,
     readyTimer : BOOLEAN, probeReply : Nat,
     useService : BOOLEAN, serviceActive : BOOLEAN,
     serviceStopping : BOOLEAN, serviceParsing : BOOLEAN,
     alive : SUBSET Nat, checking : SUBSET Nat,
     sig : SUBSET Signal, call : {"none", "start", "stop"}]

NewCore(service) ==
    [state |-> "Stopped", explicitStop |-> FALSE, launchGeneration |-> 0,
     pendingLaunch |-> NoReq, process |-> NoReq, retiring |-> NoReq,
     stopResult |-> "Stopped",
     validation |-> NoReq, cancelingValidations |-> {},
     configPath |-> NoReq, endpoint |-> NoReq, pendingEndpoint |-> NoReq,
     readyTimer |-> FALSE, probeReply |-> NoReq,
     useService |-> service, serviceActive |-> FALSE,
     serviceStopping |-> FALSE, serviceParsing |-> FALSE,
     alive |-> {}, checking |-> {},
     sig |-> {}, call |-> "none"]

Emit(c, signals) == [c EXCEPT !.sig = @ \cup signals]

\* Every handler starts with no signal emitted and no client call made.
Handling(c) == [c EXCEPT !.sig = {}, !.call = "none"]

-----------------------------------------------------------------------------
(* Stopping *)

StopProbing(c) == [c EXCEPT !.readyTimer = FALSE, !.probeReply = NoReq]

\* A validator that still runs is killed and kept until it is gone.
CancelValidation(c) ==
    [c EXCEPT !.validation = NoReq,
              !.cancelingValidations = @ \cup ({c.validation} \cap c.checking)]

\* Mutant: a launch that waits is not forgotten.
SupersedeKeepsLaunch(c) ==
    [CancelValidation(c) EXCEPT !.launchGeneration = @ + 1,
                                !.serviceParsing = FALSE]

\* What every new command and every failure forgets: ++launchGeneration_
\* disowns the configuration being parsed for the service.
Supersede(c) ==
    [CancelValidation(c) EXCEPT !.launchGeneration = @ + 1,
                                !.serviceParsing = FALSE,
                                !.pendingLaunch = NoReq]

\* Mutant: a validation under way is overlooked.
SettleForgetsValidation(c) ==
    LET d == [c EXCEPT !.endpoint = NoReq] IN
    IF d.cancelingValidations # {}
    THEN [d EXCEPT !.state = "Stopping"]
    ELSE IF d.stopResult = "Failed"
    THEN Emit([d EXCEPT !.state = "Failed", !.explicitStop = FALSE],
              {"failed"} \cup IF d.explicitStop THEN {"stopUnconfirmed"} ELSE {})
    ELSE Emit([d EXCEPT !.state = "Stopped", !.explicitStop = FALSE],
              {"stopped", "stopConfirmed"})

\* Mutant: killed validators are not waited for.
SettleTooSoon(c) ==
    LET d == [c EXCEPT !.endpoint = NoReq] IN
    IF d.validation # NoReq \/ d.serviceParsing
    THEN [d EXCEPT !.state = "Starting"]
    ELSE IF d.stopResult = "Failed"
    THEN Emit([d EXCEPT !.state = "Failed", !.explicitStop = FALSE],
              {"failed"} \cup IF d.explicitStop THEN {"stopUnconfirmed"} ELSE {})
    ELSE Emit([d EXCEPT !.state = "Stopped", !.explicitStop = FALSE],
              {"stopped", "stopConfirmed"})

\* finishStop() when there is no launch waiting.
Settle(c) ==
    LET d == [c EXCEPT !.endpoint = NoReq] IN
    IF d.validation # NoReq \/ d.serviceParsing
    THEN [d EXCEPT !.state = "Starting"]
    ELSE IF d.cancelingValidations # {}
    THEN [d EXCEPT !.state = "Stopping"]
    ELSE IF d.stopResult = "Failed"
    THEN Emit([d EXCEPT !.state = "Failed", !.explicitStop = FALSE],
              {"failed"} \cup IF d.explicitStop THEN {"stopUnconfirmed"} ELSE {})
    ELSE Emit([d EXCEPT !.state = "Stopped", !.explicitStop = FALSE],
              {"stopped", "stopConfirmed"})

\* Mutant: only the current child counts.
NothingCurrentRuns(c) == ~c.serviceActive /\ c.process \notin c.alive

NothingRuns(c) ==
    ~c.serviceActive /\ c.retiring = NoReq /\ c.process \notin c.alive

DiscardProcess(c) == [c EXCEPT !.process = NoReq]

\* terminateProcess() when something has to exit first: the privileged core
\* after a stop request, a child that is already retiring, or the live child.
Retire(c) ==
    IF c.serviceActive
    THEN IF c.serviceStopping THEN c
         ELSE [c EXCEPT !.serviceStopping = TRUE, !.state = "Stopping", !.call = "stop"]
    ELSE IF c.retiring # NoReq
    THEN [c EXCEPT !.state = "Stopping"]
    ELSE [c EXCEPT !.process = NoReq, !.retiring = c.process, !.state = "Stopping"]

\* terminateProcess() called with no launch pending.
Quiesce(c) == IF NothingRuns(c) THEN Settle(DiscardProcess(c)) ELSE Retire(c)

\* What fail() and stop() have in common: forget every plan, then stop.
Halt(c, explicit, result) ==
    Quiesce([StopProbing(Supersede(c)) EXCEPT !.explicitStop = explicit,
                                              !.endpoint = NoReq,
                                              !.stopResult = result])

\* Mutant: stopResult_ is taken from state_.
FailWithState(c) == Halt(c, c.explicitStop, c.state)

Fail(c) == Halt(c, c.explicitStop, "Failed")
Stop(c) == Halt(c, TRUE, "Stopped")

-----------------------------------------------------------------------------
(* Launching *)

\* Mutant: the timer is created but not started.
AwaitForever(c, r) == [c EXCEPT !.pendingEndpoint = r]

AwaitController(c, r) == [c EXCEPT !.pendingEndpoint = r, !.readyTimer = TRUE]

LaunchChild(c, r, outcome) ==
    LET d == [c EXCEPT !.process = r, !.state = "Starting"]
        started == [d EXCEPT !.alive = @ \cup {r}]
    IN IF outcome = "failedToStart" THEN Fail(d)
       ELSE IF outcome = "noController" THEN Fail(started)
       ELSE AwaitController(started, r)

LaunchService(c) ==
    [c EXCEPT !.serviceActive = TRUE, !.serviceStopping = FALSE,
              !.state = "Starting", !.call = "start"]

LaunchProcess(c, r, outcome) ==
    LET d == [c EXCEPT !.configPath = r, !.endpoint = NoReq] IN
    IF d.useService THEN LaunchService(d) ELSE LaunchChild(d, r, outcome)

FinishStop(c, outcome) ==
    IF c.pendingLaunch # NoReq
    THEN LaunchProcess([c EXCEPT !.pendingLaunch = NoReq], c.pendingLaunch, outcome)
    ELSE Settle(c)

TerminateProcess(c, outcome) ==
    IF NothingRuns(c) THEN FinishStop(DiscardProcess(c), outcome) ELSE Retire(c)

\* Mutant: the probe of the predecessor stays in flight.
LaunchKeepsProbe(c, r, outcome) ==
    TerminateProcess([c EXCEPT !.pendingLaunch = r, !.stopResult = "Stopped"], outcome)

LaunchValidated(c, r, outcome) ==
    TerminateProcess([StopProbing(c) EXCEPT !.pendingLaunch = r, !.stopResult = "Stopped"],
                     outcome)

-----------------------------------------------------------------------------
(* Validating *)

\* Mutant: an unusable replacement is a failure of the core.
RejectAlways(c) == Fail(c)

\* An unusable replacement leaves a running core alone.
Reject(c) == IF c.state = "Running" THEN Emit(c, {"failed"}) ELSE Fail(c)

FinishValidation(c, valid, outcome) ==
    LET r == c.validation
        d == CancelValidation(c)
    IN IF ~valid THEN Reject(d)
       ELSE IF d.useService THEN [d EXCEPT !.serviceParsing = TRUE]
       ELSE LaunchValidated(d, r, outcome)

\* Mutant: the old core is stopped before its replacement is validated.
StartPreemptsRunning(c) ==
    LET d == [Supersede(c) EXCEPT !.explicitStop = FALSE] IN
    IF d.process # NoReq \/ d.serviceActive
    THEN Quiesce([d EXCEPT !.stopResult = "Stopped"])
    ELSE d

\* start() up to the terminateProcess() of a core that is not running yet.
StartPreempts(c) ==
    LET d == [Supersede(c) EXCEPT !.explicitStop = FALSE] IN
    IF (d.process # NoReq \/ d.serviceActive) /\ d.state # "Running"
    THEN Quiesce([d EXCEPT !.stopResult = "Stopped"])
    ELSE d

\* The old core stays live while its replacement is validated.
BeginValidation(c, r) ==
    [c EXCEPT !.validation = r,
              !.state = IF c.state # "Running" /\ c.retiring = NoReq THEN "Starting" ELSE @]

\* The rest of start().  begins says whether the validator could be executed.
StartValidates(c, r, found, begins) ==
    LET d == BeginValidation(c, r)
    IN IF ~found THEN Reject(c)
       ELSE IF begins THEN [d EXCEPT !.checking = @ \cup {r}]
       ELSE FinishValidation(d, FALSE, "awaits")

Start(c, r, found, begins) == StartValidates(StartPreempts(c), r, found, begins)

\* Mutant: the last validator to go does not finish the stop.
RetireValidationOnly(c, v, outcome) ==
    [c EXCEPT !.checking = @ \ {v}, !.cancelingValidations = @ \ {v}]

\* The killed validator v is gone.
RetireValidation(c, v, outcome) ==
    LET d == [c EXCEPT !.checking = @ \ {v}, !.cancelingValidations = @ \ {v}] IN
    IF /\ d.process = NoReq /\ d.retiring = NoReq
       /\ d.validation = NoReq /\ ~d.serviceActive
    THEN FinishStop(d, outcome)
    ELSE d

-----------------------------------------------------------------------------
(* Observers *)

IsRestartPending(c) ==
    c.pendingLaunch # NoReq \/ c.validation # NoReq \/ c.serviceParsing

\* Mutant: a killed validator is taken to be gone.
ActiveWithoutKilled(c, parsed) ==
    ( (IF c.process # NoReq \/ c.retiring # NoReq \/ c.serviceActive
       THEN {c.configPath} ELSE {})
      \cup (IF c.serviceParsing THEN {parsed} ELSE {})
      \cup {c.validation, c.pendingLaunch} ) \ {NoReq}

\* The requests whose configuration files are still needed.  parsed is the
\* request being parsed for the service.
ActiveConfigPaths(c, parsed) ==
    ( (IF c.process # NoReq \/ c.retiring # NoReq \/ c.serviceActive
       THEN {c.configPath} ELSE {})
      \cup (IF c.serviceParsing THEN {parsed} ELSE {})
      \cup {c.validation, c.pendingLaunch} \cup c.cancelingValidations ) \ {NoReq}

\* The service may be switched on or off only between cores.
MaySetUseService(c) ==
    /\ c.state \in {"Stopped", "Failed"}
    /\ c.process = NoReq /\ c.retiring = NoReq /\ c.validation = NoReq
    /\ ~c.serviceActive /\ ~c.serviceParsing /\ c.cancelingValidations = {}
=============================================================================
