----------------------------- MODULE ServiceSession -----------------------------
(***************************************************************************)
(* The service mode: core::CoreProcess, platform::PrivilegedServiceClient  *)
(* and the helper's serve() loop, which runs the core with privileges for  *)
(* as long as the connection that started it stays open.  The application  *)
(* and the helper are two processes joined by one socket; an action is one *)
(* event of the application's loop or one step of the helper's.            *)
(***************************************************************************)
EXTENDS ServiceClientOps

CONSTANTS
    MaxStarts,   \* bound on the calls of start() and restart()
    MaxStops     \* bound on the calls of stop()

ASSUME BoundsAssumption == MaxStarts \in Nat /\ MaxStops \in Nat

VARIABLES
    core,     \* the CoreProcess object
    client,   \* the PrivilegedServiceClient object and its socket
    helper,   \* the request whose core the helper runs, and whether the
              \* connection (or the one it has not seen closing) owns the lease
    parsing,  \* the request whose configuration is being read for the helper
    reply,    \* the core whose answer to the probe in flight is on its way
    starts,   \* calls of start() so far; the newest request
    stops,    \* calls of stop() so far
    wanted,   \* the request of the newest command, NoReq after a stop()
    overlapped  \* a core was launched while an older stop was unanswered

vars == <<core, client, helper, parsing, reply, starts, stops, wanted, overlapped>>

TypeOK ==
    /\ core \in CoreRec
    /\ client \in ClientRec
    /\ helper \in [core : Nat, owned : BOOLEAN]
    /\ starts \in 0..MaxStarts /\ stops \in 0..MaxStops
    /\ parsing \in 0..starts /\ wanted \in {NoReq, starts}
    /\ reply \in {NoReq, core.probeReply}
    /\ overlapped \in BOOLEAN

Init ==
    /\ core = NewCore(TRUE)
    /\ client = NewClient
    /\ helper = [core |-> NoReq, owned |-> FALSE]
    /\ parsing = NoReq /\ reply = NoReq
    /\ starts = 0 /\ stops = 0 /\ wanted = NoReq
    /\ overlapped = FALSE

\* Mutant: the answer to an aborted probe is still delivered.
DispatchLateReply(c, agenda) ==
    \E dial \in DialOutcome :
        \E s \in Run(CoreDid([core |-> c, client |-> client, agenda |-> agenda,
                              dial |-> dial], c)) :
           /\ core' = s.core
           /\ client' = s.client
           /\ UNCHANGED <<helper, reply, overlapped>>

\* One event of the application: the core's part c, then the agenda.
Dispatch(c, agenda) ==
    \E dial \in DialOutcome :
        \E s \in Run(CoreDid([core |-> c, client |-> client, agenda |-> agenda,
                              dial |-> dial], c)) :
           /\ core' = s.core
           /\ client' = s.client
           /\ reply' = IF s.core.probeReply = core.probeReply THEN reply ELSE NoReq
           /\ overlapped' = \/ overlapped
                            \/ /\ s.core.serviceActive /\ ~s.core.serviceStopping
                               /\ "stop" \in Outstanding(s.client)
           /\ UNCHANGED helper

Commands == <<starts, stops, wanted>>

-----------------------------------------------------------------------------
(* Commands and validators, as in CoreProcess *)

CallStart(found, begins) ==
    /\ starts < MaxStarts
    /\ Dispatch(StartPreempts(Handling(core)), <<Validate(starts + 1, found, begins)>>)
    /\ starts' = starts + 1
    /\ wanted' = starts + 1
    /\ UNCHANGED <<stops, parsing>>

CallStop ==
    /\ stops < MaxStops
    /\ Dispatch(Stop(Handling(core)), <<>>)
    /\ stops' = stops + 1
    /\ wanted' = NoReq
    /\ UNCHANGED <<starts, parsing>>

\* A validated configuration is parsed for the helper off the GUI thread.
ValidatorExits(valid) ==
    /\ core.validation # NoReq
    /\ Dispatch(FinishValidation([Handling(core) EXCEPT !.checking = @ \ {core.validation}],
                                 valid, "awaits"), <<>>)
    /\ parsing' = IF valid THEN core.validation ELSE parsing
    /\ UNCHANGED Commands

ValidatorTimesOut ==
    /\ core.validation # NoReq
    /\ Dispatch(FinishValidation(Handling(core), FALSE, "awaits"), <<>>)
    /\ UNCHANGED <<parsing, Commands>>

CanceledValidatorExits(v) ==
    /\ v \in core.cancelingValidations
    /\ Dispatch(RetireValidation(Handling(core), v, "awaits"), <<>>)
    /\ UNCHANGED <<parsing, Commands>>

\* The parse of the current generation ends; the others are ignored.
ParseFinishes(ok) ==
    /\ core.serviceParsing
    /\ LET c == [Handling(core) EXCEPT !.serviceParsing = FALSE]
       IN Dispatch(IF ok THEN LaunchValidated(c, parsing, "awaits") ELSE Reject(c), <<>>)
    /\ UNCHANGED <<parsing, Commands>>

-----------------------------------------------------------------------------
(* Readiness, as in CoreProcess; the helper's core serves the probes *)

ProbeDue == core.readyTimer /\ core.state = "Starting"

SendProbe ==
    /\ ProbeDue
    /\ core.probeReply = NoReq
    /\ Dispatch([Handling(core) EXCEPT !.probeReply = core.pendingEndpoint], <<>>)
    /\ UNCHANGED <<parsing, Commands>>

ProbeDeadline ==
    /\ ProbeDue
    /\ Dispatch(Fail(Handling(core)), <<>>)
    /\ UNCHANGED <<parsing, Commands>>

CoreAnswers ==
    /\ core.probeReply # NoReq
    /\ core.probeReply = helper.core
    /\ reply = NoReq
    /\ reply' = core.probeReply
    /\ UNCHANGED <<core, client, helper, parsing, starts, stops, wanted, overlapped>>

ProbeSucceeds ==
    /\ core.probeReply # NoReq
    /\ reply = core.probeReply
    /\ LET c == [Handling(core) EXCEPT !.probeReply = NoReq]
       IN Dispatch(IF core.state = "Starting"
                   THEN Emit([c EXCEPT !.readyTimer = FALSE, !.endpoint = c.pendingEndpoint,
                                       !.state = "Running"], {"ready"})
                   ELSE c, <<>>)
    /\ UNCHANGED <<parsing, Commands>>

ProbeFails ==
    /\ core.probeReply # NoReq
    /\ Dispatch([Handling(core) EXCEPT !.probeReply = NoReq], <<>>)
    /\ UNCHANGED <<parsing, Commands>>

-----------------------------------------------------------------------------
(* The client's timers and socket *)

\* servicePoll_, once a second; the log request that goes with it changes
\* nothing but the log.
Poll ==
    /\ core.serviceActive /\ ~core.serviceStopping
    /\ ~IsBusy(client)
    /\ Dispatch(Handling(core), <<EnqueueItem("status")>>)
    /\ UNCHANGED <<parsing, Commands>>

DialEnds(connected) ==
    /\ client.link = "dialing"
    /\ Dispatch(Handling(core),
                <<Do(IF connected THEN "connected" ELSE "failConnection")>>)
    /\ UNCHANGED <<parsing, Commands>>

\* deadline_: 5 seconds for a connection, 30 for an answer.
DeadlineExpires ==
    /\ client.link = "dialing" \/ client.active # NoCall
    /\ Dispatch(Handling(core), <<Do("failConnection")>>)
    /\ UNCHANGED <<parsing, Commands>>

AnswerArrives ==
    /\ client.answer # NoCall
    /\ Dispatch(Handling(core), <<Do("readAnswer")>>)
    /\ UNCHANGED <<parsing, Commands>>

\* The peer has closed the connection and nothing is left to read.
PeerCloses ==
    /\ client.link = "dropped"
    /\ client.answer = NoCall
    /\ Dispatch(Handling(core), <<Do("failConnection")>>)
    /\ UNCHANGED <<parsing, Commands>>

-----------------------------------------------------------------------------
(* The helper *)

Application == <<core, parsing, reply, starts, stops, wanted, overlapped>>

\* The loop drops closed connections before it accepts a new one.
Accept ==
    /\ client.link = "queued"
    /\ ~client.hungup
    /\ client' = [client EXCEPT !.link = "open"]
    /\ UNCHANGED <<Application, helper>>

Answer(ok, state) ==
    client' = [client EXCEPT !.inbox = NoCall,
                             !.answer = [ok |-> ok, state |-> IF state = NoReq THEN "stopped" ELSE "running",
                                         endpoint |-> state]]

\* A rejected configuration leaves the old core; a fork that fails does not.
HandleStart(outcome) ==
    /\ client.link = "open"
    /\ client.inbox.op = "start"
    /\ helper' = CASE outcome = "started" -> [core |-> client.inbox.cfg, owned |-> TRUE]
                   [] outcome = "rejected" -> helper
                   [] outcome = "noProcess" -> [helper EXCEPT !.core = NoReq]
    /\ Answer(outcome = "started", helper'.core)
    /\ UNCHANGED Application

\* Mutant: stop is acknowledged before the core has exited.
HandleStopEarly ==
    /\ client.link = "open"
    /\ client.inbox.op = "stop"
    /\ UNCHANGED helper
    /\ Answer(TRUE, NoReq)
    /\ UNCHANGED Application

HandleStop ==
    /\ client.link = "open"
    /\ client.inbox.op = "stop"
    /\ helper' = [core |-> NoReq, owned |-> FALSE]
    /\ Answer(TRUE, NoReq)
    /\ UNCHANGED Application

HandleStatus ==
    /\ client.link = "open"
    /\ client.inbox.op = "status"
    /\ Answer(TRUE, helper.core)
    /\ UNCHANGED <<Application, helper>>

\* Mutant: the lease ends but its core is left running.
ReleaseLeaseOnly == [helper EXCEPT !.owned = FALSE]

\* The lease ends with its connection.
Release == [core |-> IF helper.owned THEN NoReq ELSE helper.core, owned |-> FALSE]

NoticeHangup ==
    /\ client.hungup
    /\ helper' = Release
    /\ client' = [client EXCEPT !.hungup = FALSE]
    /\ UNCHANGED Application

\* The helper closes the connection: an answer could not be sent, a frame
\* took too long, or the helper is being stopped.
DropConnection ==
    /\ client.link = "open"
    /\ helper' = Release
    /\ client' = [client EXCEPT !.link = "dropped", !.inbox = NoCall]
    /\ UNCHANGED Application

PrivilegedCoreExits ==
    /\ helper.core # NoReq
    /\ helper' = [helper EXCEPT !.core = NoReq]
    /\ UNCHANGED <<Application, client>>

-----------------------------------------------------------------------------

HelperNext ==
    \/ Accept
    \/ \E outcome \in {"started", "rejected", "noProcess"} : HandleStart(outcome)
    \/ HandleStop
    \/ HandleStatus
    \/ NoticeHangup
    \/ DropConnection
    \/ PrivilegedCoreExits

Next ==
    \/ \E found, begins \in BOOLEAN : CallStart(found, begins)
    \/ CallStop
    \/ \E valid \in BOOLEAN : ValidatorExits(valid)
    \/ ValidatorTimesOut
    \/ \E v \in core.cancelingValidations : CanceledValidatorExits(v)
    \/ \E ok \in BOOLEAN : ParseFinishes(ok)
    \/ SendProbe
    \/ ProbeDeadline
    \/ CoreAnswers
    \/ ProbeSucceeds
    \/ ProbeFails
    \/ Poll
    \/ \E connected \in BOOLEAN : DialEnds(connected)
    \/ DeadlineExpires
    \/ AnswerArrives
    \/ PeerCloses
    \/ HelperNext

Spec == Init /\ [][Next]_vars

\* A validator ends or is timed out and a killed one is reaped; a parse ends;
\* the timers fire; a reply or a close that has reached the socket is read.
\* The helper need never do anything.
Fairness ==
    /\ WF_vars(ValidatorTimesOut)
    /\ \A v \in 1..MaxStarts : WF_vars(CanceledValidatorExits(v))
    /\ WF_vars(\E ok \in BOOLEAN : ParseFinishes(ok))
    /\ WF_vars(ProbeDeadline)
    /\ WF_vars(DeadlineExpires)
    /\ WF_vars(AnswerArrives)
    /\ WF_vars(PeerCloses)

FairSpec == Spec /\ Fairness

-----------------------------------------------------------------------------
(* Between two events *)

StartIn(queue) == \E i \in 1..Len(queue) : queue[i].op = "start"

OneStart(queue) ==
    \A i, j \in 1..Len(queue) : queue[i].op = "start" /\ queue[j].op = "start" => i = j

\* No core runs that a connection keeps alive.
CoreGone == helper.core = NoReq \/ client.hungup

\* What the socket carries belongs to the active request.
SocketMatches ==
    /\ client.link \in {"none", "dialing"} => client.inbox = NoCall /\ client.answer = NoCall
    /\ client.inbox # NoCall => client.inbox = client.active /\ client.answer = NoCall
    /\ client.answer # NoCall => client.active # NoCall

\* A start under way is the only one, CoreProcess counts the core it will
\* launch, no stop is queued behind it, and the helper runs no other core when
\* it reads it.
StartsMatch ==
    /\ "start" \in Outstanding(client) => core.serviceActive
    /\ StartIn(client.queue) =>
           ~core.serviceStopping /\ client.active.op # "start" /\ CoreGone
    /\ OneStart(client.queue)
    /\ client.inbox.op = "start" => CoreGone
    /\ core.serviceActive /\ ~core.serviceStopping => "stop" \notin Outstanding(client)

\* The answer that has been sent tells what has become of the core.
AnswersMatch ==
    client.answer # NoCall
    /\ (client.active.op = "stop" \/ (client.active.op = "start" /\ ~client.answer.ok))
    => CoreGone

-----------------------------------------------------------------------------
(* Properties *)

\* A request launched behind a stop that CoreProcess no longer waits for takes
\* that stop's answer for its own; StopLeavesNoCore below is refuted by such a
\* run, and the properties it breaks say so with "overlapped".

\* A privileged core is never lost: CoreProcess counts it, or the helper is
\* about to drop its lease.
NoOrphan ==
    helper.core # NoReq => core.serviceActive \/ client.hungup \/ overlapped

\* "Dropping this connection makes the helper stop that core": a core runs
\* only while its connection is open or its end has not been noticed.
CoreDiesWithConnection ==
    helper.core # NoReq => helper.owned /\ (client.link = "open" \/ client.hungup)

\* What holds of the three programs together, whatever is lost or late.
Safety == TypeOK /\ NoOrphan /\ CoreDiesWithConnection

\* The inductive invariant: Safety, and what the two queues of the connection
\* hold, as long as no launch has overlapped a stop.
IInv ==
    /\ Safety
    /\ core.validation <= starts
    /\ SocketMatches
    /\ overlapped \/ (StartsMatch /\ AnswersMatch)

\* A confirmed stop leaves no core that its own connection keeps alive.
ConfirmedStopLeavesNoCore ==
    [][core' # core /\ "stopConfirmed" \in core'.sig
          => helper.core = NoReq \/ client'.hungup \/ overlapped]_vars

\* stop() is answered, even by a helper that never answers.
StopIsAnswered == core.explicitStop ~> ~core.explicitStop

\* Starting and Stopping end, even with a helper that never answers.
TransitionsEnd ==
    core.state \in {"Starting", "Stopping"} ~> core.state \in {"Running", "Stopped", "Failed"}

\* "false means ... service disconnect prevented confirmation that the
\* privileged child exited": true must mean that it has exited.
StopConfirmedMeansExited ==
    [][core' # core /\ "stopConfirmed" \in core'.sig => helper.core = NoReq]_vars

\* ... and true that no connection of ours keeps a core running.
StopLeavesNoCore ==
    [][core' # core /\ "stopConfirmed" \in core'.sig
          => helper.core = NoReq \/ client'.hungup]_vars
=============================================================================
