----------------------------- MODULE CoreProcess -----------------------------
(***************************************************************************)
(* core::CoreProcess running mihomo as a child process (the service switch *)
(* off): start() and stop() calls, the validator and core children and     *)
(* their exits, the timers, and the readiness probes.  The code runs on    *)
(* the GUI thread; an action is one event handler.                         *)
(***************************************************************************)
EXTENDS CoreOps

CONSTANTS
    MaxStarts,   \* bound on the calls of start() and restart()
    MaxStops     \* bound on the calls of stop()

ASSUME BoundsAssumption == MaxStarts \in Nat /\ MaxStops \in Nat

VARIABLES
    core,     \* the CoreProcess object
    starts,   \* calls of start() so far; the newest request
    stops,    \* calls of stop() so far
    wanted,   \* the request of the newest command, NoReq after a stop()
    reply,    \* the core whose answer to the probe in flight is on its way
    phantom   \* a core was announced as ready although there was no child,
              \* and none has been launched since

vars == <<core, starts, stops, wanted, reply, phantom>>

TypeOK ==
    /\ core \in CoreRec
    /\ starts \in Nat
    /\ stops \in Nat
    /\ wanted \in Nat
    /\ reply \in Nat
    /\ phantom \in BOOLEAN

Init ==
    /\ core = NewCore(FALSE)
    /\ starts = 0
    /\ stops = 0
    /\ wanted = NoReq
    /\ reply = NoReq
    /\ phantom = FALSE

\* A handler: the new object, and the answer lost if its probe was aborted.
Handle(next) ==
    /\ core' = next
    /\ phantom' = \/ next.state = "Running" /\ next.process = NoReq
                  \/ phantom /\ next.alive \subseteq core.alive
    /\ reply' = IF next.probeReply = core.probeReply THEN reply ELSE NoReq

Commands == <<starts, stops, wanted>>

-----------------------------------------------------------------------------
(* Commands *)

\* start(), and restart(), which is start() with the last launched paths.
CallStart(found, begins) ==
    /\ starts < MaxStarts
    /\ Handle(Start(Handling(core), starts + 1, found, begins))
    /\ starts' = starts + 1
    /\ wanted' = starts + 1
    /\ UNCHANGED stops

CallStop ==
    /\ stops < MaxStops
    /\ Handle(Stop(Handling(core)))
    /\ stops' = stops + 1
    /\ wanted' = NoReq
    /\ UNCHANGED starts

-----------------------------------------------------------------------------
(* Children *)

ValidatorExits(valid, outcome) ==
    /\ core.validation # NoReq
    /\ Handle(FinishValidation([Handling(core) EXCEPT !.checking = @ \ {core.validation}],
                               valid, outcome))
    /\ UNCHANGED Commands

\* 15 seconds after it was started.
ValidatorTimesOut ==
    /\ core.validation # NoReq
    /\ Handle(FinishValidation(Handling(core), FALSE, "awaits"))
    /\ UNCHANGED Commands

CanceledValidatorExits(v, outcome) ==
    /\ v \in core.cancelingValidations
    /\ Handle(RetireValidation(Handling(core), v, outcome))
    /\ UNCHANGED Commands

\* The live core crashes, exits, or turns out not to have started.
CoreExits ==
    /\ core.process # NoReq
    /\ Handle(Fail([Handling(core) EXCEPT !.alive = @ \ {core.process}]))
    /\ UNCHANGED Commands

\* After terminate(), or kill() three seconds later.
RetiringExits(outcome) ==
    /\ core.retiring # NoReq
    /\ Handle(FinishStop([Handling(core) EXCEPT !.alive = @ \ {core.retiring},
                                                !.retiring = NoReq], outcome))
    /\ UNCHANGED Commands

-----------------------------------------------------------------------------
(* Readiness *)

ProbeDue == core.readyTimer /\ core.state = "Starting"

SendProbe ==
    /\ ProbeDue
    /\ core.probeReply = NoReq
    /\ Handle([Handling(core) EXCEPT !.probeReply = core.pendingEndpoint])
    /\ UNCHANGED Commands

\* The core was silent for ten seconds, or is not ready after three minutes.
ProbeDeadline ==
    /\ ProbeDue
    /\ Handle(Fail(Handling(core)))
    /\ UNCHANGED Commands

\* The probed core serves GET /version; the answer is on its way.
CoreAnswers ==
    /\ core.probeReply \in core.alive
    /\ reply = NoReq
    /\ reply' = core.probeReply
    /\ UNCHANGED <<core, starts, stops, wanted, phantom>>

\* A usable answer arrives: the core is ready, if one is still starting.
ProbeSucceeds ==
    /\ core.probeReply # NoReq
    /\ reply = core.probeReply
    /\ LET c == [Handling(core) EXCEPT !.probeReply = NoReq]
       IN IF core.state = "Starting"
          THEN Handle(Emit([c EXCEPT !.readyTimer = FALSE,
                                     !.endpoint = c.pendingEndpoint,
                                     !.state = "Running"], {"ready"}))
          ELSE Handle(c)
    /\ UNCHANGED Commands

\* The connection is refused, the transfer times out, the answer is no good.
ProbeFails ==
    /\ core.probeReply # NoReq
    /\ Handle([Handling(core) EXCEPT !.probeReply = NoReq])
    /\ UNCHANGED Commands

-----------------------------------------------------------------------------

Next ==
    \/ \E found, begins \in BOOLEAN : CallStart(found, begins)
    \/ CallStop
    \/ \E valid \in BOOLEAN, outcome \in LaunchOutcome : ValidatorExits(valid, outcome)
    \/ ValidatorTimesOut
    \/ \E v \in core.cancelingValidations, outcome \in LaunchOutcome :
          CanceledValidatorExits(v, outcome)
    \/ CoreExits
    \/ \E outcome \in LaunchOutcome : RetiringExits(outcome)
    \/ SendProbe
    \/ ProbeDeadline
    \/ CoreAnswers
    \/ ProbeSucceeds
    \/ ProbeFails

Spec == Init /\ [][Next]_vars

\* A validator ends or is timed out; a killed child is reaped, a core told to
\* terminate is killed after three seconds; the probe timer fires and its
\* deadline is finite.  No core need ever answer, and nobody need call.
Fairness ==
    /\ WF_vars(ValidatorTimesOut)
    /\ \A v \in 1..MaxStarts :
          WF_vars(\E outcome \in LaunchOutcome : CanceledValidatorExits(v, outcome))
    /\ WF_vars(\E outcome \in LaunchOutcome : RetiringExits(outcome))
    /\ WF_vars(ProbeDeadline)

FairSpec == Spec /\ Fairness

-----------------------------------------------------------------------------
(* Properties *)

\* A stale probe can announce a core when no child is there (ReadyCoreIsAlive
\* below states that it cannot, and is refuted); the properties that depend on
\* it say so with "phantom".

\* terminateProcess() and finishStop() never let a new core start before its
\* predecessor has exited: two cores would fight over the same ports.
OneCore == \A p, q \in core.alive : p = q

\* Stopped and Failed mean that nothing is left running or about to run:
\* setUseService(), the backup restore and the proxy clean-up act on them.
SettledIsQuiet ==
    core.state \in {"Stopped", "Failed"} =>
        /\ core.alive = {} /\ core.checking = {}
        /\ ~IsRestartPending(core)
        /\ ~core.readyTimer

\* The configuration of every child still running is listed by
\* activeConfigPaths(), so main.cpp's pruneSnapshots never removes its file.
LiveConfigsAreActive ==
    core.alive \cup core.checking \subseteq ActiveConfigPaths(core, NoReq)

\* What holds of CoreProcess between two events, however commands, exits,
\* timeouts and answers interleave: types, one core, rest, snapshots kept.
Safety == TypeOK /\ OneCore /\ SettledIsQuiet /\ LiveConfigsAreActive

\* Nothing is launched or validated for a command that start() or stop() has
\* superseded, whatever exits or answers late.
OnlyNewestIsLaunched ==
    [][\A r \in core'.alive \ core.alive : r = wanted' /\ r > core.configPath]_vars

\* A core is announced as ready on its own answer, not on one its predecessor
\* sent before it was replaced.
ReadyOnOwnAnswer ==
    [][ProbeSucceeds /\ core'.state = "Running" => reply = core.process \/ phantom']_vars

\* Every stopFinished answers a stop() that was still unanswered.
StopFinishedAnswersStop ==
    [][core'.sig \cap {"stopConfirmed", "stopUnconfirmed"} # {} /\ core' # core
          => core.explicitStop \/ stops' > stops \/ phantom]_vars

\* A core that is Running is replaced or stopped only by its own exit, a
\* stop(), or the launch of a validated replacement: a rejected validation or
\* a missing binary leaves it alone.
RunningSurvivesRejection ==
    [][core.state = "Running" /\ core.process \in core'.alive /\ core'.state # "Running"
          => wanted' = NoReq \/ core'.pendingLaunch = wanted]_vars

\* stop() is answered, unless start() takes it back.
StopIsAnswered == core.explicitStop ~> ~core.explicitStop

\* The transitional states end: each start and stop leads to a core that runs
\* or to a state in which a new command may be given.
TransitionsEnd ==
    core.state \in {"Starting", "Stopping"} ~> core.state \in {"Running", "Stopped", "Failed"}

\* CoreProcess keeps the contract; a core counts as ready while it lives.
Contract == INSTANCE CoreContract WITH
    launched <- core.configPath,
    live <- core.alive,
    ready <- core.state = "Running" /\ core.process \in core.alive

ImplementsContract == Contract!Spec

\* "The core may have died or timed out while this probe was in flight.":
\* Running must mean that there is a core.
ReadyCoreIsAlive == core.state = "Running" => core.process \in core.alive

-----------------------------------------------------------------------------
(* The inductive invariant behind the safety properties: who owns which      *)
(* child, and what a request number may still be used for.                   *)

LocalMode(c) ==
    ~c.useService /\ ~c.serviceActive /\ ~c.serviceParsing

\* A running core is the process or the retiring one, never both, and is the
\* last request launched.
CoresOwned(c) ==
    /\ c.alive \subseteq {c.process, c.retiring} \ {NoReq}
    /\ c.alive \subseteq {c.configPath}
    /\ c.retiring \in c.alive \cup {NoReq}
    /\ c.process = NoReq \/ c.retiring = NoReq

\* A running validator is the current one or one that was killed.
ValidatorsOwned(c) ==
    /\ c.cancelingValidations \subseteq c.checking
    /\ c.checking \subseteq c.cancelingValidations \cup {c.validation}
    /\ NoReq \notin c.checking
    /\ c.validation \notin c.cancelingValidations

\* A request waits to be launched only behind a core that is retiring, and the
\* current validation and the waiting launch are for newest, the newest command.
RequestsCurrent(c, newest, bound) ==
    /\ \A r \in c.checking : r <= bound
    /\ c.configPath <= bound
    /\ c.validation # NoReq => c.validation = newest /\ c.configPath < newest
    /\ c.pendingLaunch # NoReq =>
          /\ c.pendingLaunch = newest
          /\ c.configPath < newest
          /\ c.validation = NoReq

\* Between two events, the pointers to children are null or name live ones.
Resting(c) ==
    /\ c.process \in c.alive \cup {NoReq}
    /\ c.validation \in c.checking \cup {NoReq}
    /\ c.pendingLaunch # NoReq => c.retiring # NoReq
    /\ c.retiring # NoReq => c.state = "Stopping"
    /\ c.readyTimer =>
          /\ c.state \in {"Starting", "Stopping"}
          /\ c.process # NoReq \/ c.validation # NoReq
    /\ c.probeReply # NoReq => c.readyTimer
    /\ c.state \in {"Stopped", "Failed"} =>
          /\ c.process = NoReq /\ c.retiring = NoReq
          /\ c.validation = NoReq /\ c.cancelingValidations = {}

\* A probe, and the answer to it that is awaited, are those of the child that
\* is the process.
Probing(c) ==
    /\ c.readyTimer /\ c.process # NoReq => c.pendingEndpoint = c.process
    /\ c.probeReply # NoReq => c.probeReply = c.pendingEndpoint

\* Where finishStop() would report a stop that nobody waits for, something else
\* comes first, or the core was a phantom.
StopsExplained(c, ghostly) ==
    /\ c.stopResult = "Stopped" =>
           \/ c.explicitStop \/ c.state = "Stopped" \/ ghostly
           \/ c.process # NoReq \/ c.validation # NoReq \/ c.pendingLaunch # NoReq
    /\ c.state = "Running" => c.process # NoReq \/ ghostly

AnswersKept == Probing(core) /\ StopsExplained(core, phantom)

IInv ==
    /\ TypeOK
    /\ LocalMode(core)
    /\ CoresOwned(core)
    /\ ValidatorsOwned(core)
    /\ RequestsCurrent(core, wanted, starts)
    /\ Resting(core)
    /\ wanted \in {NoReq, starts}
=============================================================================
