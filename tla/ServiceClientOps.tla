---------------------------- MODULE ServiceClientOps ----------------------------
(***************************************************************************)
(* platform::PrivilegedServiceClient and the slots by which                *)
(* core::CoreProcess listens to it.  The two objects call each other       *)
(* inside one event: the client emits while it fails its requests, a slot  *)
(* launches or stops, and that calls the client again.  An event is        *)
(* therefore run on an agenda, the C++ call stack: the first item is       *)
(* performed, what it calls goes in front of what its callers still do.    *)
(***************************************************************************)
EXTENDS CoreOps, Sequences

CONSTANTS
    MaxQueue,   \* kMaximumQueuedRequests
    MaxCalls    \* bound on the calls that one event makes

ASSUME QueueAssumption == MaxQueue \in Nat \ {0} /\ MaxCalls \in Nat

Op == {"start", "stop", "status"}

Request == [op : Op, cfg : Nat]
NoCall == [op |-> "none", cfg |-> NoReq]

\* What connectToServer() may do before it returns.
DialOutcome == {"connected", "refused", "pending"}

\* The members, and the socket: link is its state ("queued" while the helper
\* has not accepted the connection, "dropped" when the helper has closed it),
\* inbox the request on its way to the helper and answer the reply on its way
\* back.  hungup holds while the helper has not noticed an earlier close.
ClientRec ==
    [link : {"none", "dialing", "queued", "open", "dropped"},
     hungup : BOOLEAN, reported : BOOLEAN, closing : BOOLEAN,
     active : Request \cup {NoCall}, queue : Seq(Request),
     inbox : Request \cup {NoCall},
     answer : [ok : BOOLEAN, state : {"running", "stopped"}, endpoint : Nat] \cup {NoCall}]

NewClient ==
    [link |-> "none", hungup |-> FALSE, reported |-> FALSE, closing |-> FALSE,
     active |-> NoCall, queue |-> <<>>, inbox |-> NoCall, answer |-> NoCall]

IsConnected(k) == k.link \in {"queued", "open", "dropped"}
IsBusy(k) == k.active # NoCall \/ k.queue # <<>>
Outstanding(k) == {k.active.op} \cup {k.queue[i].op : i \in DOMAIN k.queue}

-----------------------------------------------------------------------------
(* The agenda *)

Do(name) == [do |-> name]
Finished(op, ok) == [do |-> "finished", op |-> op, ok |-> ok]   \* requestFinished
EnqueueItem(op) == [do |-> "enqueue", op |-> op]
Drain(preserved) == [do |-> "drain", preserved |-> preserved]
CoreStarted(endpoint) == [do |-> "coreStarted", endpoint |-> endpoint]
Status(state) == [do |-> "status", state |-> state]
Validate(r, found, begins) ==
    [do |-> "validate", request |-> r, found |-> found, begins |-> begins]

Item ==
    [do : {"start", "stop", "connectToService", "connected", "sendNext",
           "failRequests", "failConnection", "abort", "close", "readAnswer",
           "coreStopped", "disconnected", "fail"}]
    \cup [do : {"finished"}, op : Op, ok : BOOLEAN]
    \cup [do : {"enqueue"}, op : Op \ {"start"}]
    \cup [do : {"drain"}, preserved : Seq([op : {"stop"}, cfg : Nat])]
    \cup [do : {"coreStarted"}, endpoint : Nat]
    \cup [do : {"status"}, state : {"running", "stopped"}]
    \cup [do : {"validate"}, request : Nat, found : BOOLEAN, begins : BOOLEAN]

\* An event in progress: both objects, what is left to do, and how a
\* connection attempt made by it turns out.
Session ==
    [core : CoreRec, client : ClientRec, agenda : Seq(Item), dial : DialOutcome]

Push(s, items) == [s EXCEPT !.agenda = items \o @]

\* The core's slot or command is done, except for the client call at its end.
CoreDid(s, c) ==
    Push([s EXCEPT !.core = [c EXCEPT !.call = "none"]],
         IF c.call = "none" THEN <<>> ELSE <<Do(c.call)>>)

-----------------------------------------------------------------------------
(* CoreProcess's slots *)

Ended(c) == [c EXCEPT !.serviceActive = FALSE, !.serviceStopping = FALSE]

OnCoreStarted(s, endpoint) ==
    IF ~s.core.serviceActive \/ s.core.serviceStopping THEN s
    ELSE CoreDid(s, AwaitController(s.core, endpoint))

OnCoreStopped(s) ==
    IF ~s.core.serviceActive THEN s
    ELSE CoreDid(s, FinishStop(Ended(s.core), "awaits"))

OnStatus(s, state) ==
    IF /\ s.core.serviceActive /\ ~s.core.serviceStopping
       /\ s.core.state \in {"Running", "Starting"} /\ state = "stopped"
    THEN CoreDid(s, Fail(s.core))
    ELSE s

\* connectedChanged(false): a core that was being stopped is gone with its
\* lease, but nobody has confirmed it.
OnDisconnected(s) ==
    LET c == s.core IN
    IF ~c.serviceActive THEN s
    ELSE IF c.serviceStopping /\ c.stopResult = "Stopped"
    THEN CoreDid(s, FinishStop([Ended(c) EXCEPT !.pendingLaunch = NoReq,
                                                !.stopResult = "Failed"], "awaits"))
    ELSE CoreDid(s, Fail(Ended(c)))

OnRequestFinished(s, op, ok) ==
    LET c == s.core IN
    IF ok \/ ~c.serviceActive \/ op = "status" THEN s
    ELSE IF op = "stop"
    THEN Push([s EXCEPT !.core = Ended(c)], <<Do("close"), Do("fail")>>)
    ELSE IF c.stopResult = "Stopped" /\ c.state = "Stopping"
    THEN CoreDid(s, FinishStop(Ended(c), "awaits"))
    ELSE CoreDid(s, Fail(Ended(c)))

-----------------------------------------------------------------------------
(* The client's functions *)

Enqueue(s, op) ==
    LET k == s.client IN
    IF op # "start" /\ op \in Outstanding(k) THEN s
    ELSE IF Len(k.queue) >= MaxQueue THEN Push(s, <<Finished(op, FALSE)>>)
    ELSE Push([s EXCEPT !.client.queue = Append(@, [op |-> op, cfg |-> s.core.configPath])],
              <<Do(IF IsConnected(k) THEN "sendNext" ELSE "connectToService")>>)

\* stopCore(): queued starts are cancelled, with a signal each, and polls
\* dropped before the stop is queued behind what is left.
StopCore(s, preserved) ==
    IF s.client.queue = <<>>
    THEN Push([s EXCEPT !.client.queue = preserved], <<EnqueueItem("stop")>>)
    ELSE LET request == Head(s.client.queue)
             rest == [s EXCEPT !.client.queue = Tail(@)]
         IN CASE request.op = "start" ->
                    Push(rest, <<Finished("start", FALSE), Drain(preserved)>>)
              [] request.op = "status" -> Push(rest, <<Drain(preserved)>>)
              [] request.op = "stop" ->
                    Push(rest, <<Drain(Append(preserved, request))>>)

ConnectToService(s) ==
    IF s.client.link # "none" THEN s
    ELSE LET k == [s.client EXCEPT !.closing = FALSE] IN
         CASE s.dial = "pending" -> [s EXCEPT !.client = [k EXCEPT !.link = "dialing"]]
           [] s.dial = "connected" -> Push([s EXCEPT !.client = k], <<Do("connected")>>)
           [] s.dial = "refused" -> Push([s EXCEPT !.client = k], <<Do("failConnection")>>)

Connected(s) ==
    Push([s EXCEPT !.client.link = "queued", !.client.reported = TRUE], <<Do("sendNext")>>)

SendNext(s) ==
    LET k == s.client IN
    IF ~IsConnected(k) \/ k.active # NoCall \/ k.queue = <<>> THEN s
    ELSE [s EXCEPT !.client = [k EXCEPT !.active = Head(k.queue), !.queue = Tail(k.queue),
                                        !.inbox = Head(k.queue)]]

\* Mutant: queued requests are dropped without a signal.
FailActiveRequest(s) ==
    LET k == s.client IN
    Push([s EXCEPT !.client = [k EXCEPT !.active = NoCall, !.queue = <<>>]],
         IF k.active = NoCall THEN <<>> ELSE <<Finished(k.active.op, FALSE)>>)

FailRequests(s) ==
    LET k == s.client
        failed == (IF k.active = NoCall THEN <<>> ELSE <<k.active>>) \o k.queue
    IN Push([s EXCEPT !.client = [k EXCEPT !.active = NoCall, !.queue = <<>>]],
            [i \in DOMAIN failed |-> Finished(failed[i].op, FALSE)])

\* QLocalSocket::abort(), which emits disconnected() before it returns.
Abort(s) ==
    LET k == s.client IN
    IF ~IsConnected(k) THEN [s EXCEPT !.client.link = "none"]
    ELSE Push([s EXCEPT !.client =
                  [k EXCEPT !.link = "none", !.inbox = NoCall, !.answer = NoCall,
                            !.hungup = @ \/ k.link = "open", !.reported = FALSE]],
              (IF k.reported THEN <<Do("disconnected")>> ELSE <<>>) \o <<Do("failRequests")>>)

\* Mutant: the socket of a failed connection stays open.
FailWithoutAbort(s) ==
    IF s.client.closing THEN s
    ELSE Push([s EXCEPT !.client.closing = TRUE], <<Do("failRequests")>>)

FailConnection(s) ==
    IF s.client.closing THEN s
    ELSE Push([s EXCEPT !.client.closing = TRUE], <<Do("failRequests"), Do("abort")>>)

Close(s) == Push([s EXCEPT !.client.closing = TRUE], <<Do("failRequests"), Do("abort")>>)

\* Mutant: the next request is not sent.
ReadAnswerOnly(s) ==
    LET op == s.client.active.op
        answer == s.client.answer
        announced == CASE ~answer.ok -> <<>>
                       [] answer.ok /\ op = "start" -> <<CoreStarted(answer.endpoint)>>
                       [] answer.ok /\ op = "stop" -> <<Do("coreStopped")>>
                       [] answer.ok /\ op = "status" -> <<Status(answer.state)>>
    IN Push([s EXCEPT !.client.active = NoCall, !.client.answer = NoCall],
            announced \o <<Finished(op, answer.ok)>>)

\* readFrames() with the answer to the active request.
ReadAnswer(s) ==
    LET op == s.client.active.op
        answer == s.client.answer
        announced == CASE ~answer.ok -> <<>>
                       [] answer.ok /\ op = "start" -> <<CoreStarted(answer.endpoint)>>
                       [] answer.ok /\ op = "stop" -> <<Do("coreStopped")>>
                       [] answer.ok /\ op = "status" -> <<Status(answer.state)>>
    IN Push([s EXCEPT !.client.active = NoCall, !.client.answer = NoCall],
            announced \o <<Finished(op, answer.ok), Do("sendNext")>>)

Perform(s, item) ==
    CASE item.do = "start" -> Enqueue(s, "start")
      [] item.do = "stop" -> StopCore(s, <<>>)
      [] item.do = "drain" -> StopCore(s, item.preserved)
      [] item.do = "enqueue" -> Enqueue(s, item.op)
      [] item.do = "connectToService" -> ConnectToService(s)
      [] item.do = "connected" -> Connected(s)
      [] item.do = "sendNext" -> SendNext(s)
      [] item.do = "failRequests" -> FailRequests(s)
      [] item.do = "failConnection" -> FailConnection(s)
      [] item.do = "abort" -> Abort(s)
      [] item.do = "close" -> Close(s)
      [] item.do = "readAnswer" -> ReadAnswer(s)
      [] item.do = "coreStarted" -> OnCoreStarted(s, item.endpoint)
      [] item.do = "coreStopped" -> OnCoreStopped(s)
      [] item.do = "status" -> OnStatus(s, item.state)
      [] item.do = "disconnected" -> OnDisconnected(s)
      [] item.do = "finished" -> OnRequestFinished(s, item.op, item.ok)
      [] item.do = "fail" -> CoreDid(s, Fail(s.core))
      [] item.do = "validate" ->
             CoreDid(s, StartValidates(s.core, item.request, item.found, item.begins))

\* One call: the first item is performed.
Call(s) ==
    IF s.agenda = <<>> THEN s ELSE Perform([s EXCEPT !.agenda = Tail(@)], Head(s.agenda))

\* The whole event: calls are made until nothing is left to do.
Run(s) ==
    LET after[n \in 0 .. MaxCalls] ==
            IF n = 0 THEN {s} ELSE {Call(t) : t \in after[n - 1]}
    IN {t \in after[MaxCalls] : t.agenda = <<>>}
=============================================================================
