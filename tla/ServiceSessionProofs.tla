------------------------- MODULE ServiceSessionProofs -------------------------
(***************************************************************************)
(* The supervisor, the service client and the helper together: for any     *)
(* number of starts and stops, no core that the supervisor does not know   *)
(* outlives its connection, and a confirmed stop leaves no core.           *)
(*                                                                         *)
(* Sound is what holds at every point of an event, while calls are still   *)
(* to be made.  There is a lemma for each call, CallKeeps joins them, and  *)
(* RunKeeps carries Sound to the end of the event, where it is IInv.       *)
(***************************************************************************)
EXTENDS ServiceSession, TLAPS, SequenceTheorems, WellFoundedInduction

\* A function of CoreProcess that touches neither the service nor the signals.
Quietly(c, d) ==
    /\ d \in CoreRec
    /\ d.serviceActive = c.serviceActive /\ d.serviceStopping = c.serviceStopping
    /\ d.sig = c.sig /\ d.call = c.call
    /\ d.validation \in {c.validation, NoReq}

\* What a command or slot of CoreProcess may do to the service: leave it,
\* launch when it counts no core, or ask for the stop of the core it counts.
\* A stop is confirmed only when it counts none.
Calling(c, d) ==
    /\ d \in CoreRec
    /\ d.validation \in {c.validation, NoReq}
    /\ "stopConfirmed" \in d.sig => ("stopConfirmed" \in c.sig \/ ~c.serviceActive)
    /\ \/ /\ d.call = "none"
          /\ d.serviceActive = c.serviceActive /\ d.serviceStopping = c.serviceStopping
       \/ d.call = "start" /\ ~c.serviceActive /\ d.serviceActive /\ ~d.serviceStopping
       \/ d.call = "stop" /\ c.serviceActive /\ d.serviceActive /\ d.serviceStopping

\* One that launches nothing.
Halting(c, d) == Calling(c, d) /\ d.call # "start"

\* A quiet step before a calling (or halting) one makes a calling (halting) step.
LEMMA QuietCalls ==
    ASSUME NEW c \in CoreRec, NEW d, NEW e, Quietly(c, d), Calling(d, e)
    PROVE  Calling(c, e) /\ (Halting(d, e) => Halting(c, e))
BY DEF Quietly, Calling, Halting

\* Two quiet steps make a quiet step.
LEMMA QuietTwice ==
    ASSUME NEW c \in CoreRec, NEW d, NEW e, Quietly(c, d), Quietly(d, e)
    PROVE  Quietly(c, e)
BY DEF Quietly

\* The helpers of CoreProcess that call no service and emit nothing are quiet:
\* stopping the probe,
LEMMA StopProbingQuiet ==
    ASSUME NEW c \in CoreRec
    PROVE  Quietly(c, StopProbing(c))
BY DEF Quietly, StopProbing, CoreRec, NoReq

\* cancelling a validation,
LEMMA CancelValidationQuiet ==
    ASSUME NEW c \in CoreRec
    PROVE  Quietly(c, CancelValidation(c))
BY DEF Quietly, CancelValidation, CoreRec, NoReq

\* superseding the launches before,
LEMMA SupersedeQuiet ==
    ASSUME NEW c \in CoreRec
    PROVE  Quietly(c, Supersede(c))
<1> DEFINE d == CancelValidation(c)
<1>1. Quietly(c, d)
  BY CancelValidationQuiet
<1>2. d \in CoreRec /\ d.launchGeneration + 1 \in Nat
  BY <1>1 DEF Quietly, CoreRec
<1>3. PICK g \in Nat :
         Supersede(c) = [d EXCEPT !.launchGeneration = g, !.serviceParsing = FALSE,
                                  !.pendingLaunch = NoReq]
  BY <1>2 DEF Supersede
<1> DEFINE e == [d EXCEPT !.launchGeneration = g, !.serviceParsing = FALSE,
                          !.pendingLaunch = NoReq]
<1> HIDE DEF d
<1>4. e \in CoreRec
  BY <1>2 DEF CoreRec, NoReq
<1>5. e.serviceActive = d.serviceActive /\ e.serviceStopping = d.serviceStopping
      /\ e.sig = d.sig /\ e.call = d.call /\ e.validation = d.validation
  BY <1>2 DEF CoreRec
<1> HIDE DEF e
<1>6. Quietly(c, e)
  BY <1>1, <1>4, <1>5 DEF Quietly
<1> QED
  BY <1>3, <1>6 DEF e

\* discarding the process
LEMMA DiscardQuiet ==
    ASSUME NEW c \in CoreRec
    PROVE  Quietly(c, DiscardProcess(c))
BY DEF Quietly, DiscardProcess, CoreRec, NoReq

\* and awaiting the controller.
LEMMA AwaitQuiet ==
    ASSUME NEW c \in CoreRec, NEW r \in Nat
    PROVE  Quietly(c, AwaitController(c, r))
BY DEF Quietly, AwaitController, CoreRec

\* Emitting signals changes the signals only.
LEMMA EmitTypes ==
    ASSUME NEW c \in CoreRec, NEW x \in SUBSET Signal
    PROVE  /\ Emit(c, x) \in CoreRec /\ Emit(c, x).sig = c.sig \cup x
           /\ Emit(c, x).serviceActive = c.serviceActive
           /\ Emit(c, x).serviceStopping = c.serviceStopping
           /\ Emit(c, x).call = c.call /\ Emit(c, x).validation = c.validation
<1>1. c.sig \cup x \in SUBSET Signal
  BY DEF CoreRec
<1>2. \A y \in SUBSET Signal : [c EXCEPT !.sig = y] \in CoreRec
  BY DEF CoreRec
<1> QED
  BY <1>1, <1>2 DEF Emit, CoreRec

\* finishStop() with no launch waiting.
LEMMA SettleHalts ==
    ASSUME NEW c \in CoreRec, c.call = "none", ~c.serviceActive
    PROVE  Halting(c, Settle(c))
<1> DEFINE d == [c EXCEPT !.endpoint = NoReq]
<1>1. Quietly(c, d)
  BY DEF Quietly, CoreRec, NoReq
<1>2. ASSUME NEW st \in CoreState
      PROVE  Quietly(c, [d EXCEPT !.state = st])
  BY <1>1 DEF Quietly, CoreRec
<1>3. ASSUME NEW st \in CoreState, NEW x \in SUBSET Signal
      PROVE  Halting(c, Emit([d EXCEPT !.state = st, !.explicitStop = FALSE], x))
  <2> DEFINE e == [d EXCEPT !.state = st, !.explicitStop = FALSE]
  <2> HIDE DEF d
  <2>1. Quietly(c, e)
    BY <1>1 DEF Quietly, CoreRec
  <2> HIDE DEF e
  <2>2. Emit(e, x) \in CoreRec /\ Emit(e, x).serviceActive = e.serviceActive
        /\ Emit(e, x).serviceStopping = e.serviceStopping
        /\ Emit(e, x).call = e.call /\ Emit(e, x).validation = e.validation
    BY <2>1, EmitTypes DEF Quietly
  <2>3. Halting(c, Emit(e, x))
    BY <2>1, <2>2 DEF Calling, Halting, Quietly
  <2> QED
    BY <2>3 DEF e
<1>4. ASSUME NEW e, Quietly(c, e)
      PROVE  Halting(c, e)
  BY <1>4 DEF Quietly, Calling, Halting
<1> HIDE DEF d
<1>5. "Starting" \in CoreState /\ "Stopping" \in CoreState /\ "Failed" \in CoreState
      /\ "Stopped" \in CoreState
  BY DEF CoreState
<1>6. {"failed"} \cup (IF d.explicitStop THEN {"stopUnconfirmed"} ELSE {}) \in SUBSET Signal
      /\ {"stopped", "stopConfirmed"} \in SUBSET Signal
  BY DEF Signal
<1> QED
  BY <1>2, <1>3, <1>4, <1>5, <1>6 DEF Settle, d

\* The functions that wind CoreProcess down launch nothing: retire(),
LEMMA RetireHalts ==
    ASSUME NEW c \in CoreRec, c.call = "none"
    PROVE  Halting(c, Retire(c))
BY DEF Halting, Calling, Retire, CoreRec, CoreState, NoReq

\* the quiescing of a start that failed,
LEMMA QuiesceHalts ==
    ASSUME NEW c \in CoreRec, c.call = "none"
    PROVE  Halting(c, Quiesce(c))
<1>1. CASE NothingRuns(c)
  <2>1. Quietly(c, DiscardProcess(c)) /\ ~c.serviceActive
    BY <1>1, DiscardQuiet DEF NothingRuns
  <2>2. Halting(DiscardProcess(c), Settle(DiscardProcess(c)))
    BY <2>1, SettleHalts DEF Quietly
  <2> QED
    BY <1>1, <2>1, <2>2, QuietCalls DEF Quiesce, Halting
<1>2. CASE ~NothingRuns(c)
  BY <1>2, RetireHalts DEF Quiesce
<1> QED
  BY <1>1, <1>2

\* halt(),
LEMMA HaltHalts ==
    ASSUME NEW c \in CoreRec, NEW x \in BOOLEAN, NEW y \in {"Stopped", "Failed"},
           c.call = "none"
    PROVE  Halting(c, Halt(c, x, y))
<1> DEFINE d == StopProbing(Supersede(c))
           e == [d EXCEPT !.explicitStop = x, !.endpoint = NoReq, !.stopResult = y]
<1>1. Quietly(c, d)
  <2>1. Quietly(c, Supersede(c))
    BY SupersedeQuiet
  <2>2. Quietly(Supersede(c), d)
    BY <2>1, StopProbingQuiet DEF Quietly
  <2> QED
    BY <2>1, <2>2, QuietTwice
<1> HIDE DEF d
<1>2. Quietly(c, e)
  BY <1>1 DEF Quietly, CoreRec, NoReq
<1> HIDE DEF e
<1>3. Halting(e, Quiesce(e))
  BY <1>2, QuiesceHalts DEF Quietly
<1> QED
  BY <1>2, <1>3, QuietCalls DEF Halt, Halting, d, e

\* fail()
LEMMA FailHalts ==
    ASSUME NEW c \in CoreRec, c.call = "none"
    PROVE  Halting(c, Fail(c))
<1>1. c.explicitStop \in BOOLEAN
  BY DEF CoreRec
<1> QED
  BY <1>1, HaltHalts DEF Fail

\* and stop().
LEMMA StopHalts ==
    ASSUME NEW c \in CoreRec, c.call = "none"
    PROVE  Halting(c, Stop(c))
BY HaltHalts DEF Stop

\* A launch is called for only when no core of the service counts.
LEMMA LaunchCalls ==
    ASSUME NEW c \in CoreRec, NEW r \in Nat, NEW out \in LaunchOutcome,
           c.call = "none", ~c.serviceActive
    PROVE  Calling(c, LaunchProcess(c, r, out))
<1> DEFINE d == [c EXCEPT !.configPath = r, !.endpoint = NoReq]
<1>1. Quietly(c, d)
  BY DEF Quietly, CoreRec, NoReq
<1> HIDE DEF d
<1>2. d \in CoreRec /\ d.call = "none" /\ ~d.serviceActive
  BY <1>1 DEF Quietly
<1>3. Calling(d, LaunchService(d))
  BY <1>2 DEF Calling, LaunchService, CoreRec, CoreState
<1>4. Calling(d, LaunchChild(d, r, out))
  <2> DEFINE e == [d EXCEPT !.process = r, !.state = "Starting"]
             f == [e EXCEPT !.alive = @ \cup {r}]
  <2>1. Quietly(d, e)
    BY <1>2 DEF Quietly, CoreRec, CoreState
  <2> HIDE DEF e
  <2>2. Quietly(d, f)
    BY <2>1 DEF Quietly, CoreRec
  <2> HIDE DEF f
  <2>3. Calling(d, Fail(e)) /\ Calling(d, Fail(f))
    BY <1>2, <2>1, <2>2, FailHalts, QuietCalls DEF Quietly, Halting
  <2>4. Quietly(d, AwaitController(f, r))
    BY <2>2, AwaitQuiet, QuietTwice, <1>2 DEF Quietly
  <2>5. Calling(d, AwaitController(f, r))
    BY <2>4, <1>2 DEF Calling, Quietly
  <2> QED
    BY <2>3, <2>5 DEF LaunchChild, e, f
<1> QED
  BY <1>1, <1>3, <1>4, QuietCalls DEF LaunchProcess, d

\* finishStop() of a CoreProcess that counts no core may launch the pending one.
LEMMA FinishStopCalls ==
    ASSUME NEW c \in CoreRec, NEW out \in LaunchOutcome, c.call = "none", ~c.serviceActive
    PROVE  Calling(c, FinishStop(c, out))
<1> DEFINE d == [c EXCEPT !.pendingLaunch = NoReq]
<1>1. Quietly(c, d) /\ c.pendingLaunch \in Nat
  BY DEF Quietly, CoreRec, NoReq
<1> HIDE DEF d
<1>2. Calling(c, LaunchProcess(d, c.pendingLaunch, out))
  BY <1>1, LaunchCalls, QuietCalls DEF Quietly
<1> QED
  BY <1>2, SettleHalts DEF FinishStop, Halting, d

\* The launch of a validated configuration keeps the contract of a call.
LEMMA LaunchValidatedCalls ==
    ASSUME NEW c \in CoreRec, NEW r \in Nat, NEW out \in LaunchOutcome, c.call = "none"
    PROVE  Calling(c, LaunchValidated(c, r, out))
<1> DEFINE p == StopProbing(c)
           d == [p EXCEPT !.pendingLaunch = r, !.stopResult = "Stopped"]
           e == DiscardProcess(d)
<1>1. Quietly(c, p)
  BY StopProbingQuiet
<1> HIDE DEF p
<1>2. Quietly(c, d)
  BY <1>1 DEF Quietly, CoreRec
<1> HIDE DEF d
<1>3. Calling(d, Retire(d))
  BY <1>2, RetireHalts DEF Quietly, Halting
<1>4. CASE NothingRuns(d)
  <2>1. Quietly(d, e) /\ ~d.serviceActive
    BY <1>2, <1>4, DiscardQuiet DEF NothingRuns, Quietly
  <2> HIDE DEF e
  <2>2. Calling(e, FinishStop(e, out))
    BY <1>2, <2>1, FinishStopCalls DEF Quietly
  <2>3. Calling(c, FinishStop(e, out))
    BY <1>2, <2>1, <2>2, QuietTwice, QuietCalls
  <2> QED
    BY <1>4, <2>3 DEF LaunchValidated, TerminateProcess, d, e, p
<1>5. CASE ~NothingRuns(d)
  BY <1>2, <1>3, <1>5, QuietCalls DEF LaunchValidated, TerminateProcess, d, p
<1> QED
  BY <1>4, <1>5

\* A rejected configuration launches nothing.
LEMMA RejectHalts ==
    ASSUME NEW c \in CoreRec, c.call = "none"
    PROVE  Halting(c, Reject(c))
<1>1. Halting(c, Emit(c, {"failed"}))
  <2>1. {"failed"} \in SUBSET Signal
    BY DEF Signal
  <2> QED
    BY <2>1, EmitTypes DEF Calling, Halting
<1> QED
  BY <1>1, FailHalts DEF Reject

\* finishValidation(), either way, keeps the contract of a call.
LEMMA FinishValidationCalls ==
    ASSUME NEW c \in CoreRec, NEW valid \in BOOLEAN, NEW out \in LaunchOutcome,
           c.call = "none"
    PROVE  Calling(c, FinishValidation(c, valid, out))
<1> DEFINE d == CancelValidation(c)
<1>1. Quietly(c, d) /\ c.validation \in Nat
  BY CancelValidationQuiet DEF CoreRec
<1> HIDE DEF d
<1>2. Calling(c, Reject(d)) /\ Calling(c, LaunchValidated(d, c.validation, out))
  BY <1>1, RejectHalts, LaunchValidatedCalls, QuietCalls DEF Quietly, Halting
<1>3. Calling(c, [d EXCEPT !.serviceParsing = TRUE])
  BY <1>1 DEF Quietly, Calling, CoreRec
<1> QED
  BY <1>2, <1>3 DEF FinishValidation, d

\* start() may stop what runs before it validates; it launches nothing yet.
LEMMA StartPreemptsHalts ==
    ASSUME NEW c \in CoreRec, c.call = "none"
    PROVE  Halting(c, StartPreempts(c))
<1> DEFINE u == Supersede(c)
           d == [u EXCEPT !.explicitStop = FALSE]
           e == [d EXCEPT !.stopResult = "Stopped"]
<1>1. Quietly(c, u)
  BY SupersedeQuiet
<1> HIDE DEF u
<1>2. Quietly(c, d)
  BY <1>1 DEF Quietly, CoreRec
<1> HIDE DEF d
<1>3. Quietly(c, e)
  BY <1>2 DEF Quietly, CoreRec
<1> HIDE DEF e
<1>4. Halting(c, Quiesce(e))
  BY <1>3, QuiesceHalts, QuietCalls DEF Quietly, Halting
<1>5. Halting(c, d)
  BY <1>2 DEF Quietly, Calling, Halting
<1> QED
  BY <1>4, <1>5 DEF StartPreempts, u, d, e

\* The rest of start() makes r the request being validated.
LEMMA StartValidatesHalts ==
    ASSUME NEW c \in CoreRec, NEW r \in Nat, NEW found \in BOOLEAN, NEW begins \in BOOLEAN,
           c.call = "none"
    PROVE  LET d == StartValidates(c, r, found, begins) IN
           /\ Halting([c EXCEPT !.validation = d.validation], d)
           /\ d.validation \in {c.validation, r, NoReq}
<1> DEFINE b == BeginValidation(c, r)
           e == [b EXCEPT !.checking = @ \cup {r}]
<1>1. \A st \in CoreState : [c EXCEPT !.validation = r, !.state = st] \in CoreRec
  BY DEF CoreRec
<1>2. PICK st \in CoreState : b = [c EXCEPT !.validation = r, !.state = st]
  <2>1. "Starting" \in CoreState /\ c.state \in CoreState
    BY DEF CoreRec, CoreState
  <2> QED
    BY <2>1 DEF BeginValidation, CoreRec
<1> HIDE DEF b
<1>3. /\ b \in CoreRec /\ b.validation = r /\ b.call = "none" /\ b.sig = c.sig
      /\ b.serviceActive = c.serviceActive /\ b.serviceStopping = c.serviceStopping
  BY <1>1, <1>2 DEF CoreRec
<1>4. e \in CoreRec /\ e.validation = r /\ e.call = "none" /\ e.sig = c.sig
      /\ e.serviceActive = c.serviceActive /\ e.serviceStopping = c.serviceStopping
  BY <1>3 DEF CoreRec
<1>5. \A v \in Nat : [c EXCEPT !.validation = v] \in CoreRec
        /\ LET x == [c EXCEPT !.validation = v] IN
           x.serviceActive = c.serviceActive /\ x.serviceStopping = c.serviceStopping
           /\ x.sig = c.sig /\ x.validation = v
  BY DEF CoreRec
<1> HIDE DEF e
<1>6. Halting(c, Reject(c)) /\ Halting(b, FinishValidation(b, FALSE, "awaits"))
  <2>1. Quietly(b, CancelValidation(b))
    BY <1>3, CancelValidationQuiet
  <2>2. Halting(CancelValidation(b), Reject(CancelValidation(b)))
    BY <1>3, <2>1, RejectHalts DEF Quietly
  <2> QED
    BY <1>3, <2>1, <2>2, RejectHalts, QuietCalls DEF FinishValidation, Halting
<1> DEFINE Good(d) == /\ Halting([c EXCEPT !.validation = d.validation], d)
                      /\ d.validation \in {c.validation, r, NoReq}
<1>7. ASSUME NEW x \in {b, c}, NEW d, Halting(x, d)
      PROVE  Good(d)
  <2>1. d.validation \in Nat
    BY <1>7 DEF Halting, Calling, CoreRec
  <2> DEFINE y == [c EXCEPT !.validation = d.validation]
  <2>2. y.serviceActive = c.serviceActive /\ y.serviceStopping = c.serviceStopping
        /\ y.sig = c.sig /\ y.validation = d.validation
    BY <1>5, <2>1
  <2> HIDE DEF y
  <2>3. Halting(y, d)
    BY <1>3, <1>7, <2>2 DEF Halting, Calling
  <2>4. d.validation \in {c.validation, r, NoReq}
    BY <1>3, <1>7 DEF Halting, Calling
  <2> QED
    BY <2>3, <2>4 DEF y
<1>8. Halting(b, e)
  BY <1>3, <1>4 DEF Halting, Calling
<1>9. Good(Reject(c)) /\ Good(e) /\ Good(FinishValidation(b, FALSE, "awaits"))
  BY <1>6, <1>7, <1>8
<1> HIDE DEF Good
<1>10. Good(StartValidates(c, r, found, begins))
  BY <1>9 DEF StartValidates, b, e
<1> QED
  BY <1>10 DEF Good

\* Retiring a validation may finish a stop, within the contract of a call.
LEMMA RetireValidationCalls ==
    ASSUME NEW c \in CoreRec, NEW v, NEW out \in LaunchOutcome, c.call = "none"
    PROVE  Calling(c, RetireValidation(c, v, out))
<1> DEFINE d == [c EXCEPT !.checking = @ \ {v}, !.cancelingValidations = @ \ {v}]
<1>1. Quietly(c, d)
  BY DEF Quietly, CoreRec
<1> HIDE DEF d
<1>2. Calling(c, d)
  BY <1>1 DEF Quietly, Calling
<1>3. ASSUME ~d.serviceActive
      PROVE  Calling(c, FinishStop(d, out))
  BY <1>1, <1>3, FinishStopCalls, QuietCalls DEF Quietly
<1> QED
  BY <1>2, <1>3 DEF RetireValidation, d

\* A call of d is still to be made.
Pending(a, d) == \E i \in 1..Len(a) : a[i].do = d
\* The failure of a start is to be reported,
Failure(x) == x.do = "finished" /\ x.op = "start" /\ ~x.ok
Failing(a) == \E i \in 1..Len(a) : Failure(a[i])
\* once at most.
OneFailing(a) ==
    \A i, j \in 1..Len(a) : Failure(a[i]) /\ Failure(a[j]) => i = j
\* Validations are of requests up to n.
Bounded(a, n) == \A i \in 1..Len(a) : a[i].do = "validate" => a[i].request <= n
\* None of the calls that must come first.
Quiet(a) ==
    \A d \in {"start", "coreStopped", "disconnected", "connected", "failRequests",
               "readAnswer"} : ~Pending(a, d)
\* Those come first, or right behind the end of a connection.
Ordered(a) ==
    \/ a = <<>>
    \/ Head(a).do # "disconnected" /\ Quiet(Tail(a))
    \/ /\ Head(a).do = "disconnected" /\ Tail(a) # <<>>
       /\ Head(Tail(a)).do = "failRequests" /\ Quiet(Tail(Tail(a)))

\* The items of two agendas, one after the other.
LEMMA ConcatAt ==
    ASSUME NEW u \in Seq(Item), NEW b \in Seq(Item)
    PROVE  /\ u \o b \in Seq(Item)
           /\ Len(u \o b) = Len(u) + Len(b)
           /\ \A i \in 1..Len(u) : i \in 1..Len(u \o b) /\ (u \o b)[i] = u[i]
           /\ \A i \in 1..Len(b) :
                 Len(u) + i \in 1..Len(u \o b) /\ (u \o b)[Len(u) + i] = b[i]
           /\ \A i \in 1..Len(u \o b) :
                 \/ i \in 1..Len(u) /\ (u \o b)[i] = u[i]
                 \/ i - Len(u) \in 1..Len(b) /\ (u \o b)[i] = b[i - Len(u)]
<1>1. Len(u) \in Nat /\ Len(b) \in Nat
  OBVIOUS
<1>2. u \o b \in Seq(Item) /\ Len(u \o b) = Len(u) + Len(b)
  OBVIOUS
<1>3. \A i \in 1..(Len(u) + Len(b)) :
         (u \o b)[i] = IF i <= Len(u) THEN u[i] ELSE b[i - Len(u)]
  OBVIOUS
<1>4. ASSUME NEW i \in 1..Len(u)
      PROVE  i \in 1..Len(u \o b) /\ (u \o b)[i] = u[i]
  BY <1>1, <1>2, <1>3
<1>5. ASSUME NEW i \in 1..Len(b)
      PROVE  Len(u) + i \in 1..Len(u \o b) /\ (u \o b)[Len(u) + i] = b[i]
  <2>1. Len(u) + i \in 1..(Len(u) + Len(b)) /\ ~(Len(u) + i <= Len(u))
        /\ (Len(u) + i) - Len(u) = i
    BY <1>1
  <2> QED
    BY <2>1, <1>2, <1>3
<1>6. ASSUME NEW i \in 1..Len(u \o b)
      PROVE  \/ i \in 1..Len(u) /\ (u \o b)[i] = u[i]
             \/ i - Len(u) \in 1..Len(b) /\ (u \o b)[i] = b[i - Len(u)]
  BY <1>1, <1>2, <1>3
<1> QED
  BY <1>2, <1>4, <1>5, <1>6

\* What two agendas hold is what each of them holds.
LEMMA ConcatPending ==
    ASSUME NEW u \in Seq(Item), NEW b \in Seq(Item)
    PROVE  /\ \A d : Pending(u \o b, d) <=> (Pending(u, d) \/ Pending(b, d))
           /\ Failing(u \o b) <=> (Failing(u) \/ Failing(b))
           /\ OneFailing(u) /\ OneFailing(b) /\ ~(Failing(u) /\ Failing(b))
                 => OneFailing(u \o b)
           /\ \A n : Bounded(u, n) /\ Bounded(b, n) => Bounded(u \o b, n)
<1> DEFINE a == u \o b
<1>1. /\ \A i \in 1..Len(u) : i \in 1..Len(a) /\ a[i] = u[i]
      /\ \A i \in 1..Len(b) : Len(u) + i \in 1..Len(a) /\ a[Len(u) + i] = b[i]
      /\ \A i \in 1..Len(a) :
                 \/ i \in 1..Len(u) /\ a[i] = u[i]
                 \/ i - Len(u) \in 1..Len(b) /\ a[i] = b[i - Len(u)]
  BY ConcatAt
<1>2. Len(u) \in Nat /\ Len(b) \in Nat /\ Len(a) \in Nat
  <2>1. a \in Seq(Item)
    BY ConcatAt
  <2> HIDE DEF a
  <2>2. Len(a) \in Nat
    BY <2>1
  <2>3. Len(u) \in Nat
    OBVIOUS
  <2>4. Len(b) \in Nat
    OBVIOUS
  <2> QED
    BY <2>2, <2>3, <2>4
<1> HIDE DEF a
<1>3. ASSUME NEW d
      PROVE  Pending(a, d) <=> (Pending(u, d) \/ Pending(b, d))
  <2>1. ASSUME Pending(a, d)
        PROVE  Pending(u, d) \/ Pending(b, d)
    <3>1. PICK i \in 1..Len(a) : a[i].do = d
      BY <2>1 DEF Pending
    <3> QED
      BY <1>1, <3>1 DEF Pending
  <2>2. ASSUME Pending(u, d)
        PROVE  Pending(a, d)
    <3>1. PICK i \in 1..Len(u) : u[i].do = d
      BY <2>2 DEF Pending
    <3> QED
      BY <1>1, <3>1 DEF Pending
  <2>3. ASSUME Pending(b, d)
        PROVE  Pending(a, d)
    <3>1. PICK i \in 1..Len(b) : b[i].do = d
      BY <2>3 DEF Pending
    <3> QED
      BY <1>1, <3>1 DEF Pending
  <2> QED
    BY <2>1, <2>2, <2>3
<1>4. Failing(a) <=> (Failing(u) \/ Failing(b))
  BY <1>1 DEF Failing
<1>5. ASSUME OneFailing(u), OneFailing(b), ~(Failing(u) /\ Failing(b))
      PROVE  OneFailing(a)
  <2>1. SUFFICES ASSUME NEW i \in 1..Len(a), NEW j \in 1..Len(a),
                        Failure(a[i]), Failure(a[j])
                 PROVE  i = j
    BY DEF OneFailing
  <2>2. CASE i \in 1..Len(u) /\ a[i] = u[i]
    <3>1. Failing(u)
      BY <2>1, <2>2 DEF Failing
    <3>2. ~Failing(b)
      BY <3>1, <1>5
    <3>3. j \in 1..Len(u) /\ a[j] = u[j]
      BY <1>1, <2>1, <3>2 DEF Failing
    <3> QED
      BY <1>5, <2>1, <2>2, <3>3 DEF OneFailing
  <2>3. CASE i - Len(u) \in 1..Len(b) /\ a[i] = b[i - Len(u)]
    <3>1. Failing(b)
      BY <2>1, <2>3 DEF Failing
    <3>2. ~Failing(u)
      BY <3>1, <1>5
    <3>3. j - Len(u) \in 1..Len(b) /\ a[j] = b[j - Len(u)]
      BY <1>1, <2>1, <3>2 DEF Failing
    <3>4. i - Len(u) = j - Len(u)
      BY <1>5, <2>1, <2>3, <3>3 DEF OneFailing
    <3> QED
      BY <1>2, <3>4
  <2> QED
    BY <1>1, <2>2, <2>3
<1>6. \A n : Bounded(u, n) /\ Bounded(b, n) => Bounded(a, n)
  BY <1>1 DEF Bounded
<1> QED
  BY <1>3, <1>4, <1>5, <1>6 DEF a

\* What an agenda of at most three items holds.
LEMMA NoItem ==
    /\ \A d : ~Pending(<<>>, d)
    /\ ~Failing(<<>>) /\ OneFailing(<<>>)
    /\ \A n : Bounded(<<>>, n)
BY DEF Pending, Failing, OneFailing, Bounded

\* An agenda of one item,
LEMMA OneItem ==
    ASSUME NEW x
    PROVE  /\ \A d : Pending(<<x>>, d) <=> x.do = d
           /\ Failing(<<x>>) <=> Failure(x)
           /\ OneFailing(<<x>>)
           /\ \A n : (x.do = "validate" => x.request <= n) => Bounded(<<x>>, n)
<1>1. Len(<<x>>) = 1 /\ 1..1 = {1} /\ <<x>>[1] = x
  OBVIOUS
<1> QED
  BY <1>1 DEF Pending, Failing, OneFailing, Bounded

\* of two items
LEMMA TwoItems ==
    ASSUME NEW x, NEW y
    PROVE  /\ \A d : Pending(<<x, y>>, d) <=> (x.do = d \/ y.do = d)
           /\ Failing(<<x, y>>) <=> (Failure(x) \/ Failure(y))
           /\ ~(Failure(x) /\ Failure(y)) => OneFailing(<<x, y>>)
           /\ x.do # "validate" /\ y.do # "validate" => \A n : Bounded(<<x, y>>, n)
<1> DEFINE a == <<x, y>>
<1>1. Len(a) = 2 /\ 1..2 = {1, 2} /\ a[1] = x /\ a[2] = y
  OBVIOUS
<1> HIDE DEF a
<1>2. \A d : Pending(a, d) <=> (x.do = d \/ y.do = d)
  BY <1>1 DEF Pending
<1>3. Failing(a) <=> (Failure(x) \/ Failure(y))
  BY <1>1 DEF Failing
<1>4. ~(Failure(x) /\ Failure(y)) => OneFailing(a)
  BY <1>1 DEF OneFailing
<1>5. x.do # "validate" /\ y.do # "validate" => \A n : Bounded(a, n)
  BY <1>1 DEF Bounded
<1> QED
  BY <1>2, <1>3, <1>4, <1>5 DEF a

\* and of three items.
LEMMA ThreeItems ==
    ASSUME NEW x, NEW y, NEW z
    PROVE  /\ \A d : Pending(<<x, y, z>>, d) <=> (x.do = d \/ y.do = d \/ z.do = d)
           /\ Failing(<<x, y, z>>) <=> (Failure(x) \/ Failure(y) \/ Failure(z))
           /\ ~(Failure(x) /\ Failure(y)) /\ ~Failure(z) => OneFailing(<<x, y, z>>)
           /\ x.do # "validate" /\ y.do # "validate" /\ z.do # "validate"
                 => \A n : Bounded(<<x, y, z>>, n)
<1> DEFINE a == <<x, y, z>>
<1>1. Len(a) = 3 /\ 1..3 = {1, 2, 3} /\ a[1] = x /\ a[2] = y /\ a[3] = z
  OBVIOUS
<1> HIDE DEF a
<1>2. \A d : Pending(a, d) <=> (x.do = d \/ y.do = d \/ z.do = d)
  BY <1>1 DEF Pending
<1>3. Failing(a) <=> (Failure(x) \/ Failure(y) \/ Failure(z))
  BY <1>1 DEF Failing
<1>4. ~(Failure(x) /\ Failure(y)) /\ ~Failure(z) => OneFailing(a)
  BY <1>1 DEF OneFailing
<1>5. x.do # "validate" /\ y.do # "validate" /\ z.do # "validate"
         => \A n : Bounded(a, n)
  BY <1>1 DEF Bounded
<1> QED
  BY <1>2, <1>3, <1>4, <1>5 DEF a

\* What an agenda holds is its first item and what the rest holds.
LEMMA FirstAndRest ==
    ASSUME NEW a \in Seq(Item), a # <<>>
    PROVE  /\ Head(a) \in Item /\ Tail(a) \in Seq(Item)
           /\ \A d : Pending(a, d) <=> (Head(a).do = d \/ Pending(Tail(a), d))
           /\ Failing(a) <=> (Failure(Head(a)) \/ Failing(Tail(a)))
           /\ OneFailing(a) => OneFailing(Tail(a)) /\ ~(Failure(Head(a)) /\ Failing(Tail(a)))
           /\ \A n : Bounded(a, n) <=>
                 /\ Head(a).do = "validate" => Head(a).request <= n
                 /\ Bounded(Tail(a), n)
<1> DEFINE b == Tail(a)
           x == Head(a)
<1>1. /\ Len(a) \in Nat /\ Len(a) > 0 /\ b \in Seq(Item) /\ Len(b) = Len(a) - 1
      /\ x = a[1] /\ x \in Item
  OBVIOUS
<1>2. \A i \in 1..Len(b) : b[i] = a[i + 1]
  OBVIOUS
<1> HIDE DEF b, x
<1>3. \A i \in 1..Len(b) : i + 1 \in 1..Len(a) /\ i + 1 # 1 /\ b[i] = a[i + 1]
  BY <1>1, <1>2
<1>4. \A i \in 1..Len(a) : \/ i = 1 /\ a[i] = x
                           \/ i - 1 \in 1..Len(b) /\ a[i] = b[i - 1]
  <2> TAKE i \in 1..Len(a)
  <2>1. i # 1 => i - 1 \in 1..Len(b) /\ (i - 1) + 1 = i
    BY <1>1
  <2> QED
    BY <1>1, <1>2, <2>1
<1>5. 1 \in 1..Len(a)
  BY <1>1
<1>6. \A d : Pending(a, d) <=> (x.do = d \/ Pending(b, d))
  BY <1>1, <1>3, <1>4, <1>5 DEF Pending
<1>7. Failing(a) <=> (Failure(x) \/ Failing(b))
  BY <1>1, <1>3, <1>4, <1>5 DEF Failing
<1>8. ASSUME OneFailing(a)
      PROVE  OneFailing(b) /\ ~(Failure(x) /\ Failing(b))
  <2>1. ASSUME NEW i \in 1..Len(b), NEW j \in 1..Len(b), Failure(b[i]), Failure(b[j])
        PROVE  i = j
    <3>1. i + 1 = j + 1
      BY <1>3, <1>8, <2>1 DEF OneFailing
    <3> QED
      BY <3>1
  <2>2. ~(Failure(x) /\ Failing(b))
    BY <1>1, <1>3, <1>5, <1>8 DEF OneFailing, Failing
  <2> QED
    BY <2>1, <2>2 DEF OneFailing
<1>9. \A n : Bounded(a, n) <=>
                 /\ x.do = "validate" => x.request <= n
                 /\ Bounded(b, n)
  BY <1>1, <1>3, <1>4, <1>5 DEF Bounded
<1> QED
  BY <1>1, <1>6, <1>7, <1>8, <1>9 DEF b, x

\* Two items pushed at once or one after the other.
LEMMA PairOnto ==
      ASSUME NEW b \in Seq(Item), NEW x \in Item, NEW y \in Item
      PROVE  <<x, y>> \o b = <<x>> \o (<<y>> \o b)
<1> DEFINE v == <<y>> \o b
           e == <<x, y>> \o b
           f == <<x>> \o v
<1>1. v \in Seq(Item) /\ Len(v) = 1 + Len(b) /\ Len(b) \in Nat
      /\ \A i \in 1..(1 + Len(b)) : v[i] = IF i <= 1 THEN y ELSE b[i - 1]
  OBVIOUS
<1>2. e \in Seq(Item) /\ Len(e) = 2 + Len(b)
      /\ \A i \in 1..(2 + Len(b)) : e[i] = IF i <= 2 THEN <<x, y>>[i] ELSE b[i - 2]
  OBVIOUS
<1> HIDE DEF v, e
<1>3. f \in Seq(Item) /\ Len(f) = 1 + Len(v)
      /\ \A i \in 1..(1 + Len(v)) : f[i] = IF i <= 1 THEN x ELSE v[i - 1]
  BY <1>1
<1> HIDE DEF f
<1>4. ASSUME NEW i \in 1..Len(e)
      PROVE  e[i] = f[i]
  <2>1. CASE i = 1
    BY <1>1, <1>2, <1>3, <2>1
  <2>2. CASE i = 2
    BY <1>1, <1>2, <1>3, <2>2
  <2>3. CASE i > 2
    <3>1. i - 1 \in 1..(1 + Len(b)) /\ ~(i - 1 <= 1) /\ (i - 1) - 1 = i - 2
      BY <1>1, <1>2, <2>3
    <3>2. e[i] = b[i - 2] /\ f[i] = v[i - 1] /\ v[i - 1] = b[(i - 1) - 1]
      BY <1>1, <1>2, <1>3, <2>3, <3>1
    <3> QED
      BY <3>1, <3>2
  <2> QED
    BY <1>2, <2>1, <2>2, <2>3, <1>1
<1>5. Len(e) = Len(f)
  BY <1>1, <1>2, <1>3
<1>6. e = [i \in 1..Len(e) |-> e[i]] /\ f = [i \in 1..Len(f) |-> f[i]]
  BY <1>2, <1>3
<1>7. e = f
  BY <1>4, <1>5, <1>6
<1> QED
  BY <1>7 DEF e, f, v

\* What is pushed in front of an agenda without launches stays in order.
LEMMA PushOrdered ==
    ASSUME NEW b \in Seq(Item), Quiet(b)
    PROVE  /\ Ordered(b)
           /\ \A x \in Item : x.do # "disconnected" => Ordered(<<x>> \o b)
           /\ \A u \in Seq(Item) : Quiet(u) => Ordered(u \o b)
           /\ \A x, y \in Item : 
                 x.do = "disconnected" /\ y.do = "failRequests" => Ordered(<<x, y>> \o b)
<1>1. \A a \in Seq(Item) :
         a # <<>> /\ Quiet(a) => Quiet(Tail(a)) /\ Head(a).do # "disconnected"
  BY FirstAndRest DEF Quiet
<1>2. \A u \in Seq(Item) : Quiet(u) => Quiet(u \o b) /\ u \o b \in Seq(Item)
  BY ConcatPending, ConcatAt DEF Quiet
<1>3. \A x \in Item, v \in Seq(Item) : Tail(<<x>> \o v) = v /\ Head(<<x>> \o v) = x
  OBVIOUS
<1>4. \A x, y \in Item : <<x, y>> \o b = <<x>> \o (<<y>> \o b)
  BY PairOnto
<1>5. \A y \in Item : <<y>> \o b \in Seq(Item) /\ <<y>> \o b # <<>>
  OBVIOUS
<1>6. Ordered(b) /\ \A u \in Seq(Item) : Quiet(u) => Ordered(u \o b)
  BY <1>1, <1>2 DEF Ordered
<1>7. \A x \in Item : x.do # "disconnected" => Ordered(<<x>> \o b)
  BY <1>3 DEF Ordered
<1>9. ASSUME NEW x \in Item, NEW y \in Item, x.do = "disconnected", y.do = "failRequests"
      PROVE  Ordered(<<x, y>> \o b)
  <2> DEFINE v == <<y>> \o b
  <2>1. v \in Seq(Item) /\ v # <<>> /\ Tail(v) = b /\ Head(v) = y
    BY <1>3, <1>5
  <2>2. <<x, y>> \o b = <<x>> \o v
    BY <1>4
  <2> HIDE DEF v
  <2>3. Tail(<<x>> \o v) = v /\ Head(<<x>> \o v) = x
    BY <1>3, <2>1
  <2>4. Ordered(<<x>> \o v)
    BY <1>9, <2>1, <2>3 DEF Ordered
  <2> QED
    BY <2>2, <2>4
<1> QED
  BY <1>6, <1>7, <1>9

\* Every call the two objects leave for one another is an item,
LEMMA Items ==
    /\ \A d \in {"start", "stop", "connectToService", "connected", "sendNext",
           "failRequests", "failConnection", "abort", "close", "readAnswer",
           "coreStopped", "disconnected", "fail"} : Do(d) \in Item /\ Do(d).do = d
    /\ \A op \in Op, ok \in BOOLEAN : 
          /\ Finished(op, ok) \in Item /\ Finished(op, ok).do = "finished"
          /\ Finished(op, ok).op = op /\ Finished(op, ok).ok = ok
    /\ EnqueueItem("stop") \in Item /\ EnqueueItem("stop").do = "enqueue" /\ EnqueueItem("stop").op = "stop"
    /\ EnqueueItem("status") \in Item /\ EnqueueItem("status").do = "enqueue" /\ EnqueueItem("status").op = "status"
    /\ \A p \in Seq([op : {"stop"}, cfg : Nat]) : Drain(p) \in Item /\ Drain(p).do = "drain"
          /\ Drain(p).preserved = p
    /\ \A e \in Nat : CoreStarted(e) \in Item /\ CoreStarted(e).do = "coreStarted"
          /\ CoreStarted(e).endpoint = e
    /\ \A st \in {"running", "stopped"} : Status(st) \in Item /\ Status(st).do = "status"
    /\ \A r \in Nat, f, g \in BOOLEAN :
          Validate(r, f, g) \in Item /\ Validate(r, f, g).do = "validate"
          /\ Validate(r, f, g).request = r
<1>1. \A d \in {"start", "stop", "connectToService", "connected", "sendNext",
           "failRequests", "failConnection", "abort", "close", "readAnswer",
           "coreStopped", "disconnected", "fail"} : Do(d) \in Item /\ Do(d).do = d
  BY DEF Item, Do
<1>2. \A op \in Op, ok \in BOOLEAN : 
          /\ Finished(op, ok) \in Item /\ Finished(op, ok).do = "finished"
          /\ Finished(op, ok).op = op /\ Finished(op, ok).ok = ok
  BY DEF Item, Finished
<1>3. \A op \in {"stop", "status"} : 
        EnqueueItem(op) \in Item /\ EnqueueItem(op).do = "enqueue" /\ EnqueueItem(op).op = op
  BY DEF Item, EnqueueItem, Op
<1>4. \A p \in Seq([op : {"stop"}, cfg : Nat]) : Drain(p) \in Item /\ Drain(p).do = "drain"
          /\ Drain(p).preserved = p
  BY DEF Item, Drain
<1>5. \A e \in Nat : CoreStarted(e) \in Item /\ CoreStarted(e).do = "coreStarted"
          /\ CoreStarted(e).endpoint = e
  BY DEF Item, CoreStarted
<1>6. \A st \in {"running", "stopped"} : Status(st) \in Item /\ Status(st).do = "status"
  BY DEF Item, Status
<1>7. \A r \in Nat, f, g \in BOOLEAN :
          Validate(r, f, g) \in Item /\ Validate(r, f, g).do = "validate"
          /\ Validate(r, f, g).request = r
  BY DEF Item, Validate
<1> QED
  BY <1>1, <1>2, <1>3, <1>4, <1>5, <1>6, <1>7

\* and every item has the fields of its kind.
LEMMA ItemShapes ==
    ASSUME NEW x \in Item
    PROVE  /\ x.do \in {"start", "stop", "connectToService", "connected", "sendNext",
               "failRequests", "failConnection", "abort", "close", "readAnswer",
               "coreStopped", "disconnected", "fail", "finished", "enqueue", "drain",
               "coreStarted", "status", "validate"}
           /\ x.do = "finished" => x.op \in Op /\ x.ok \in BOOLEAN
           /\ x.do = "enqueue" => x.op \in Op \ {"start"}
           /\ x.do = "drain" => x.preserved \in Seq([op : {"stop"}, cfg : Nat])
           /\ x.do = "coreStarted" => x.endpoint \in Nat
           /\ x.do = "status" => x.state \in {"running", "stopped"}
           /\ x.do = "validate" => /\ x.request \in Nat /\ x.found \in BOOLEAN
                                   /\ x.begins \in BOOLEAN
BY DEF Item

\* The connection is to be cut.
Aborting(a) == Pending(a, "abort") \/ Pending(a, "close")

\* No core runs that a connection keeps alive, or that connection is to be cut.
GoneIn(h, s) == h.core = NoReq \/ s.client.hungup \/ Aborting(s.agenda)

\* The types of a session.
Formed(s, n) ==
    /\ s \in Session
    /\ s.core.call = "none"
    /\ s.core.validation <= n
    /\ Bounded(s.agenda, n)

\* SocketMatches and CoreDiesWithConnection inside an event.
Linked(h, s) ==
    /\ h.core # NoReq => h.owned /\ (s.client.link = "open" \/ s.client.hungup)
    /\ s.client.link \in {"none", "dialing"} =>
          s.client.inbox = NoCall /\ s.client.answer = NoCall
    /\ ~Aborting(s.agenda) =>
          /\ s.client.inbox # NoCall =>
                s.client.inbox = s.client.active /\ s.client.answer = NoCall
          /\ s.client.answer # NoCall => s.client.active # NoCall
    /\ Pending(s.agenda, "failRequests") => Aborting(s.agenda) \/ s.client.link = "none"
    /\ Pending(s.agenda, "readAnswer") => s.client.answer # NoCall /\ ~Aborting(s.agenda)
    /\ Pending(s.agenda, "connected") => s.client.link \in {"none", "dialing"}

\* A start has been asked for,
StartOut(k) == k.active.op = "start" \/ StartIn(k.queue)
\* or is to be.
Launching(a) == Pending(a, "start") \/ Pending(a, "coreStopped")

\* StartsMatch and AnswersMatch inside an event.
Timely(h, s) ==
    LET c == s.core
        k == s.client
        a == s.agenda IN
    /\ c.serviceActive \/ GoneIn(h, s)
    /\ StartOut(k) => c.serviceActive \/ Pending(a, "close") \/ Pending(a, "failRequests")
    /\ StartOut(k) => ~Failing(a) /\ ~Launching(a)
    /\ StartIn(k.queue) \/ k.inbox.op = "start" \/ Failing(a) \/ Launching(a) => GoneIn(h, s)
    /\ k.active.op = "start" => ~StartIn(k.queue)
    /\ OneStart(k.queue)
    /\ OneFailing(a)
    /\ Launching(a) => ~Failing(a)
    /\ Pending(a, "start") => c.serviceActive /\ ~c.serviceStopping
    /\ StartIn(k.queue) => ~c.serviceStopping \/ Pending(a, "stop") \/ Pending(a, "drain")
    /\ k.answer # NoCall /\ (k.active.op = "stop" \/ (k.active.op = "start" /\ ~k.answer.ok))
          => GoneIn(h, s)
    /\ Pending(a, "readAnswer") =>
          ~Failing(a) /\ (k.active.op = "stop" => ~StartIn(k.queue))
    /\ "stopConfirmed" \in c.sig => GoneIn(h, s)

\* Calls made from inside an event go before those that wait.
LEMMA PushIs ==
    ASSUME NEW s \in Session, NEW u \in Seq(Item)
    PROVE  /\ Push(s, u) \in Session
           /\ Push(s, u).core = s.core /\ Push(s, u).client = s.client
           /\ Push(s, u).agenda = u \o s.agenda /\ Push(s, u).dial = s.dial
<1>1. u \o s.agenda \in Seq(Item)
  BY ConcatAt DEF Session
<1>2. \A a \in Seq(Item) : [s EXCEPT !.agenda = a] \in Session
  BY DEF Session
<1>3. Push(s, u) = [s EXCEPT !.agenda = u \o s.agenda]
  BY DEF Push, Session
<1> QED
  BY <1>1, <1>2, <1>3 DEF Session

\* A session whose CoreProcess changes, and nothing else,
LEMMA WithCore ==
    ASSUME NEW s \in Session, NEW c \in CoreRec
    PROVE  LET t == [s EXCEPT !.core = c] IN
           /\ t \in Session /\ t.core = c /\ t.client = s.client
           /\ t.agenda = s.agenda /\ t.dial = s.dial
BY DEF Session

\* and one whose client changes, and nothing else.
LEMMA WithClient ==
    ASSUME NEW s \in Session, NEW k \in ClientRec
    PROVE  LET t == [s EXCEPT !.client = k] IN
           /\ t \in Session /\ t.core = s.core /\ t.client = k
           /\ t.agenda = s.agenda /\ t.dial = s.dial
BY DEF Session

\* The state in which the first item is performed.
LEMMA FirstIs ==
    ASSUME NEW s \in Session, s.agenda # <<>>, Ordered(s.agenda)
    PROVE  LET x == Head(s.agenda)
               r == [s EXCEPT !.agenda = Tail(@)] IN
           /\ r \in Session /\ r.core = s.core /\ r.client = s.client /\ r.dial = s.dial
           /\ r.agenda \in Seq(Item) /\ x \in Item
           /\ \A d : Pending(s.agenda, d) <=> (x.do = d \/ Pending(r.agenda, d))
           /\ Failing(s.agenda) <=> (Failure(x) \/ Failing(r.agenda))
           /\ OneFailing(s.agenda) => OneFailing(r.agenda) /\ ~(Failure(x) /\ Failing(r.agenda))
           /\ \A n : Bounded(s.agenda, n) <=>
                 /\ x.do = "validate" => x.request <= n
                 /\ Bounded(r.agenda, n)
           /\ x.do # "disconnected" => Quiet(r.agenda)
           /\ x.do = "disconnected" =>
                 /\ Ordered(r.agenda)
                 /\ Pending(r.agenda, "failRequests") /\ ~Pending(r.agenda, "start")
           /\ Call(s) = Perform(r, x)
<1> DEFINE r == [s EXCEPT !.agenda = Tail(@)]
<1>1. s.agenda \in Seq(Item) /\ Tail(s.agenda) \in Seq(Item)
  BY FirstAndRest DEF Session
<1>2. r \in Session /\ r.core = s.core /\ r.client = s.client /\ r.dial = s.dial
      /\ r.agenda = Tail(s.agenda)
  BY <1>1 DEF Session
<1>3. Call(s) = Perform(r, Head(s.agenda))
  BY DEF Call
<1> HIDE DEF r
<1>4. Head(s.agenda).do # "disconnected" => Quiet(r.agenda)
  BY <1>1, <1>2 DEF Ordered
<1>5. ASSUME Head(s.agenda).do = "disconnected"
      PROVE  Ordered(r.agenda) /\ Pending(r.agenda, "failRequests")
             /\ ~Pending(r.agenda, "start")
  <2>1. /\ Tail(s.agenda) # <<>> /\ Head(Tail(s.agenda)).do = "failRequests"
        /\ Quiet(Tail(Tail(s.agenda)))
    BY <1>5 DEF Ordered
  <2>2. Ordered(r.agenda)
    BY <1>2, <2>1 DEF Ordered
  <2> QED
    BY <1>1, <1>2, <2>1, <2>2, FirstAndRest DEF Quiet
<1> QED
  BY <1>1, <1>2, <1>3, <1>4, <1>5, FirstAndRest DEF r

\* What holds at every point of an event; n bounds the requests, and o says
\* that an earlier launch has overlapped a stop.
Sound(h, s, n, o) ==
    Formed(s, n) /\ Ordered(s.agenda) /\ Linked(h, s) /\ (o \/ Timely(h, s))

\* CoreDid leaves the call CoreProcess made on the client first on the agenda.
LEMMA CoreDidIs ==
    ASSUME NEW s \in Session, NEW d \in CoreRec
    PROVE  LET t == CoreDid(s, d) IN
           /\ t \in Session /\ t.client = s.client /\ t.dial = s.dial
           /\ t.core \in CoreRec /\ t.core.call = "none" /\ t.core.sig = d.sig
           /\ t.core.validation = d.validation
           /\ t.core.serviceActive = d.serviceActive
           /\ t.core.serviceStopping = d.serviceStopping
           /\ d.call = "none" => t.agenda = s.agenda
           /\ d.call # "none" => t.agenda = <<Do(d.call)>> \o s.agenda
<1> DEFINE e == [d EXCEPT !.call = "none"]
           q == [s EXCEPT !.core = e]
<1>1. /\ e \in CoreRec /\ e.call = "none" /\ e.sig = d.sig /\ e.validation = d.validation
      /\ e.serviceActive = d.serviceActive /\ e.serviceStopping = d.serviceStopping
  BY DEF CoreRec
<1> HIDE DEF e
<1>2. q \in Session /\ q.core = e /\ q.client = s.client /\ q.agenda = s.agenda
      /\ q.dial = s.dial
  BY <1>1, WithCore
<1> HIDE DEF q
<1>3. d.call # "none" => <<Do(d.call)>> \in Seq(Item)
  <2>1. d.call # "none" => Do(d.call) \in Item
    BY Items DEF CoreRec
  <2> QED
    BY <2>1
<1>4. CASE d.call = "none"
  <2>1. CoreDid(s, d) = Push(q, <<>>)
    BY <1>4 DEF CoreDid, q, e
  <2>2. <<>> \in Seq(Item) /\ <<>> \o q.agenda = q.agenda
    BY <1>2 DEF Session
  <2>3. Push(q, <<>>) \in Session /\ Push(q, <<>>).core = q.core
        /\ Push(q, <<>>).client = q.client /\ Push(q, <<>>).agenda = q.agenda
        /\ Push(q, <<>>).dial = q.dial
    BY <1>2, <2>2, PushIs
  <2> QED
    BY <1>1, <1>2, <1>4, <2>1, <2>3
<1>5. CASE d.call # "none"
  <2> DEFINE u == <<Do(d.call)>>
  <2>1. CoreDid(s, d) = Push(q, u)
    BY <1>5 DEF CoreDid, q, e
  <2>2. u \in Seq(Item)
    BY <1>3, <1>5
  <2> HIDE DEF u
  <2>3. Push(q, u) \in Session /\ Push(q, u).core = q.core
        /\ Push(q, u).client = q.client /\ Push(q, u).agenda = u \o q.agenda
        /\ Push(q, u).dial = q.dial
    BY <1>2, <2>2, PushIs
  <2> QED
    BY <1>1, <1>2, <1>5, <2>1, <2>3 DEF u
<1> QED
  BY <1>4, <1>5

\* One item pushed on an agenda that launches nothing.
LEMMA PushOne ==
    ASSUME NEW b \in Seq(Item), NEW x \in Item
    PROVE  /\ \A d : Pending(<<x>> \o b, d) <=> (x.do = d \/ Pending(b, d))
           /\ Failing(<<x>> \o b) <=> (Failure(x) \/ Failing(b))
           /\ OneFailing(b) /\ ~(Failure(x) /\ Failing(b)) => OneFailing(<<x>> \o b)
           /\ \A n : (x.do = "validate" => x.request <= n) /\ Bounded(b, n)
                        => Bounded(<<x>> \o b, n)
           /\ Quiet(b) /\ x.do # "disconnected" => Ordered(<<x>> \o b)
           /\ <<x>> \o b \in Seq(Item)
<1>1. <<x>> \in Seq(Item)
  OBVIOUS
<1> QED
  BY <1>1, OneItem, ConcatPending, PushOrdered, ConcatAt

\* Two items pushed before a quiet agenda.
LEMMA PushTwo ==
    ASSUME NEW b \in Seq(Item), NEW x \in Item, NEW y \in Item,
           x.do # "validate", y.do # "validate"
    PROVE  LET a == <<x, y>> \o b IN
           /\ \A d : Pending(a, d) <=> (x.do = d \/ y.do = d \/ Pending(b, d))
           /\ Failing(a) <=> (Failure(x) \/ Failure(y) \/ Failing(b))
           /\ OneFailing(b) /\ ~(Failure(x) /\ Failure(y))
                 /\ ((Failure(x) \/ Failure(y)) => ~Failing(b)) => OneFailing(a)
           /\ \A n : Bounded(b, n) => Bounded(a, n)
           /\ Quiet(b) /\ x.do # "disconnected" /\ Quiet(<<y>>) => Ordered(a)
           /\ a \in Seq(Item)
<1>1. <<x, y>> \in Seq(Item) /\ <<y>> \in Seq(Item) /\ <<x>> \in Seq(Item)
  OBVIOUS
<1>2. ASSUME Quiet(b), x.do # "disconnected", Quiet(<<y>>)
      PROVE  Ordered(<<x, y>> \o b)
  <2> DEFINE v == <<y>> \o b
  <2>1. v \in Seq(Item) /\ Quiet(v)
    BY <1>1, <1>2, ConcatAt, ConcatPending DEF Quiet
  <2>2. <<x, y>> \o b = <<x>> \o v
    BY PairOnto
  <2> HIDE DEF v
  <2> QED
    BY <1>2, <2>1, <2>2, PushOrdered
<1> QED
  BY <1>1, <1>2, TwoItems, ConcatPending, ConcatAt

\* A slot or command of CoreProcess, up to the client call at its end.
LEMMA CoreDidKeeps ==
    ASSUME NEW h, NEW n \in Nat, NEW o \in BOOLEAN, NEW q, NEW d,
           Formed(q, n), Quiet(q.agenda), Linked(h, q), o \/ Timely(h, q),
           Calling(q.core, d), d.validation <= n,
           o \/ (d.call = "start" => ~StartOut(q.client) /\ ~Failing(q.agenda))
    PROVE  Sound(h, CoreDid(q, d), n, o)
<1> DEFINE t == CoreDid(q, d)
           b == q.agenda
           c == q.core
<1>1. q \in Session /\ d \in CoreRec /\ b \in Seq(Item) /\ c \in CoreRec
  BY DEF Formed, Calling, Session
<1>2. /\ t \in Session /\ t.client = q.client
      /\ t.core.call = "none" /\ t.core.sig = d.sig /\ t.core.validation = d.validation
      /\ t.core.serviceActive = d.serviceActive
      /\ t.core.serviceStopping = d.serviceStopping
      /\ d.call = "none" => t.agenda = b
      /\ d.call # "none" => t.agenda = <<Do(d.call)>> \o b
  BY <1>1, CoreDidIs
<1> HIDE DEF t
<1>3. d.call \in {"none", "start", "stop"}
  BY <1>1 DEF CoreRec
<1>4. /\ \A f : Pending(t.agenda, f) <=> ((d.call # "none" /\ d.call = f) \/ Pending(b, f))
      /\ Failing(t.agenda) <=> Failing(b)
      /\ OneFailing(b) => OneFailing(t.agenda)
      /\ Bounded(b, n) => Bounded(t.agenda, n)
      /\ Ordered(t.agenda)
  <2>1. CASE d.call = "none"
    BY <1>1, <1>2, <2>1, PushOrdered
  <2>2. CASE d.call # "none"
    <3> DEFINE x == Do(d.call)
    <3>1. x \in Item /\ x.do = d.call /\ ~Failure(x) /\ x.do # "validate"
          /\ x.do # "disconnected"
      BY <1>3, <2>2, Items DEF Failure
    <3>2. t.agenda = <<x>> \o b
      BY <1>2, <2>2
    <3> HIDE DEF x
    <3> QED
      BY <1>1, <2>2, <3>1, <3>2, PushOne
  <2> QED
    BY <2>1, <2>2
<1>5. Formed(t, n)
  BY <1>2, <1>4 DEF Formed
<1>6. \A f : f \notin {"start", "stop"} => (Pending(t.agenda, f) <=> Pending(b, f))
  BY <1>3, <1>4
<1>7. Linked(h, t)
  BY <1>2, <1>6 DEF Linked, Aborting
<1>8. ASSUME ~o PROVE Timely(h, t)
  <2>1. Timely(h, q)
    BY <1>8
  <2>2. GoneIn(h, t) <=> GoneIn(h, q)
    BY <1>2, <1>6 DEF GoneIn, Aborting
  <2>3. ~Launching(b)
    BY DEF Quiet, Launching
  <2>4. CASE d.call = "none"
    <3>1. Launching(t.agenda) <=> Launching(b)
      BY <1>4, <2>4 DEF Launching
    <3> QED
      BY <1>2, <1>4, <2>1, <2>2, <2>3, <2>4, <3>1 DEF Timely, Calling
  <2>5. CASE d.call = "start"
    <3>1. ~StartOut(q.client) /\ ~Failing(b)
      BY <1>8, <2>5
    <3>2. ~c.serviceActive /\ d.serviceActive /\ ~d.serviceStopping
      BY <2>5 DEF Calling
    <3>3. GoneIn(h, t)
      BY <2>1, <2>2, <3>2 DEF Timely
    <3> QED
      BY <1>2, <1>4, <1>6, <2>1, <3>1, <3>2, <3>3 DEF Timely, StartOut
  <2>6. CASE d.call = "stop"
    <3>1. Launching(t.agenda) <=> Launching(b)
      BY <1>4, <2>6 DEF Launching
    <3>2. ~Pending(t.agenda, "start") /\ Pending(t.agenda, "stop")
      BY <1>4, <2>3, <2>6 DEF Launching
    <3> QED
      BY <1>2, <1>4, <1>6, <2>1, <2>2, <2>3, <2>6, <3>1, <3>2 DEF Timely, Calling
  <2> QED
    BY <1>3, <2>4, <2>5, <2>6
<1> QED
  BY <1>4, <1>5, <1>7, <1>8 DEF Sound, t

\* The session without the first call.
Rest(s) == [s EXCEPT !.agenda = Tail(@)]

\* The agenda a is the item x before the agenda b.
Splits(a, x, b) ==
    /\ \A d : Pending(a, d) <=> (x.do = d \/ Pending(b, d))
    /\ Failing(a) <=> (Failure(x) \/ Failing(b))
    /\ OneFailing(a) => OneFailing(b) /\ ~(Failure(x) /\ Failing(b))

\* The first item of a sound session, and the session without it.
LEMMA RestIs ==
    ASSUME NEW h, NEW n \in Nat, NEW o \in BOOLEAN, NEW s, Sound(h, s, n, o), s.agenda # <<>>
    PROVE  LET x == Head(s.agenda)
               r == Rest(s) IN
           /\ s \in Session /\ x \in Item
           /\ Formed(r, n) /\ r.core = s.core /\ r.client = s.client /\ r.dial = s.dial
           /\ r.core \in CoreRec /\ r.client \in ClientRec /\ r.agenda \in Seq(Item)
           /\ x.do = "validate" => x.request <= n
           /\ Splits(s.agenda, x, r.agenda)
           /\ x.do # "disconnected" => Quiet(r.agenda)
           /\ x.do = "disconnected" =>
                 /\ Ordered(r.agenda)
                 /\ Pending(r.agenda, "failRequests") /\ ~Pending(r.agenda, "start")
           /\ Call(s) = Perform(r, x)
           /\ Linked(h, s) /\ (o \/ Timely(h, s))
<1> DEFINE r == Rest(s)
           x == Head(s.agenda)
<1>1. s \in Session /\ Ordered(s.agenda) /\ Formed(s, n) /\ Linked(h, s) /\ (o \/ Timely(h, s))
  BY DEF Sound, Formed
<1>2. /\ r \in Session /\ r.core = s.core /\ r.client = s.client /\ r.dial = s.dial
      /\ r.agenda \in Seq(Item) /\ x \in Item
      /\ \A d : Pending(s.agenda, d) <=> (x.do = d \/ Pending(r.agenda, d))
      /\ Failing(s.agenda) <=> (Failure(x) \/ Failing(r.agenda))
      /\ OneFailing(s.agenda) => OneFailing(r.agenda) /\ ~(Failure(x) /\ Failing(r.agenda))
      /\ \A m : Bounded(s.agenda, m) <=>
                 /\ x.do = "validate" => x.request <= m
                 /\ Bounded(r.agenda, m)
      /\ x.do # "disconnected" => Quiet(r.agenda)
      /\ x.do = "disconnected" =>
            /\ Ordered(r.agenda)
            /\ Pending(r.agenda, "failRequests") /\ ~Pending(r.agenda, "start")
      /\ Call(s) = Perform(r, x)
  BY <1>1, FirstIs DEF Rest
<1> HIDE DEF r, x
<1>3. r.core \in CoreRec /\ r.client \in ClientRec
  BY <1>2 DEF Session
<1>4. Formed(r, n) /\ (x.do = "validate" => x.request <= n)
  BY <1>1, <1>2 DEF Formed
<1> QED
  BY <1>1, <1>2, <1>3, <1>4 DEF r, x, Splits

\* Once an item that neither cuts the connection nor stops is taken off, what
\* was sound still is.
LEMMA RestSound ==
    ASSUME NEW h, NEW n \in Nat, NEW o \in BOOLEAN, NEW s, Sound(h, s, n, o), s.agenda # <<>>,
           Head(s.agenda).do \notin {"abort", "close", "failRequests", "stop", "drain"}
    PROVE  Linked(h, Rest(s)) /\ (o \/ Timely(h, Rest(s)))
<1> DEFINE r == Rest(s)
           x == Head(s.agenda)
<1>1. /\ r.core = s.core /\ r.client = s.client
      /\ Splits(s.agenda, x, r.agenda)
      /\ Linked(h, s) /\ (o \/ Timely(h, s))
  BY RestIs
<1>2. x.do \notin {"abort", "close", "failRequests", "stop", "drain"}
  OBVIOUS
<1> HIDE DEF r, x
<1>3. \A d \in {"abort", "close", "failRequests", "stop", "drain"} :
         Pending(s.agenda, d) <=> Pending(r.agenda, d)
  BY <1>1, <1>2 DEF Splits
<1>4. \A d : Pending(r.agenda, d) => Pending(s.agenda, d)
  BY <1>1 DEF Splits
<1>5. Aborting(r.agenda) <=> Aborting(s.agenda)
  BY <1>3 DEF Aborting
<1>6. Linked(h, r)
  BY <1>1, <1>3, <1>4, <1>5 DEF Linked
<1>7. ASSUME ~o PROVE Timely(h, r)
  <2>1. GoneIn(h, r) <=> GoneIn(h, s)
    BY <1>1, <1>5 DEF GoneIn
  <2>2. Launching(r.agenda) => Launching(s.agenda)
    BY <1>4 DEF Launching
  <2>3. (Failing(r.agenda) => Failing(s.agenda))
        /\ (OneFailing(s.agenda) => OneFailing(r.agenda))
    BY <1>1 DEF Splits
  <2>4. Timely(h, s)
    BY <1>1, <1>7
  <2> QED
    BY <1>1, <1>3, <1>4, <2>1, <2>2, <2>3, <2>4 DEF Timely
<1> QED
  BY <1>6, <1>7 DEF r

\* CoreProcess that has heard its core is gone counts none.
LEMMA EndedIs ==
    ASSUME NEW c \in CoreRec
    PROVE  LET e == Ended(c) IN
           /\ e \in CoreRec /\ ~e.serviceActive /\ ~e.serviceStopping
           /\ e.sig = c.sig /\ e.call = c.call /\ e.validation = c.validation
           /\ e.state = c.state /\ e.stopResult = c.stopResult
BY DEF Ended, CoreRec

\* The core's slot replaces the core whatever it was.
LEMMA CoreDidOver ==
    ASSUME NEW s \in Session, NEW c, NEW d
    PROVE  CoreDid([s EXCEPT !.core = c], d) = CoreDid(s, d)
<1>1. \A e : [[s EXCEPT !.core = c] EXCEPT !.core = e] = [s EXCEPT !.core = e]
  BY DEF Session
<1> QED
  BY <1>1 DEF CoreDid

\* A core that is no longer counted, when no start is under way.
LEMMA EndedSound ==
    ASSUME NEW h, NEW n \in Nat, NEW o \in BOOLEAN, NEW r, Formed(r, n), Linked(h, r),
           o \/ Timely(h, r), o \/ (GoneIn(h, r) /\ ~StartOut(r.client)), Quiet(r.agenda)
    PROVE  LET q == [r EXCEPT !.core = Ended(r.core)] IN
           /\ Formed(q, n) /\ Linked(h, q) /\ (o \/ Timely(h, q))
           /\ q.agenda = r.agenda /\ q.core = Ended(r.core) /\ q.client = r.client
<1> DEFINE e == Ended(r.core)
           q == [r EXCEPT !.core = e]
<1>1. r \in Session /\ r.core \in CoreRec /\ r.core.call = "none"
  BY DEF Formed, Session
<1>2. /\ e \in CoreRec /\ ~e.serviceActive /\ ~e.serviceStopping
      /\ e.sig = r.core.sig /\ e.call = "none" /\ e.validation = r.core.validation
  BY <1>1, EndedIs
<1> HIDE DEF e
<1>3. q \in Session /\ q.core = e /\ q.client = r.client /\ q.agenda = r.agenda
  BY <1>1, <1>2, WithCore
<1> HIDE DEF q
<1>4. Formed(q, n) /\ Linked(h, q)
  BY <1>2, <1>3 DEF Formed, Linked
<1>5. ASSUME ~o PROVE Timely(h, q)
  <2>1. GoneIn(h, q) /\ ~StartOut(r.client) /\ Timely(h, r) /\ ~StartIn(r.client.queue)
    BY <1>3, <1>5 DEF GoneIn, StartOut
  <2>2. ~Pending(q.agenda, "start")
    BY <1>3 DEF Quiet
  <2> QED
    BY <1>2, <1>3, <2>1, <2>2 DEF Timely
<1> QED
  BY <1>3, <1>4, <1>5 DEF q, e

\* The agenda's items, one lemma each: coreStarted() keeps a session sound,
LEMMA CoreStartedKeeps ==
    ASSUME NEW h, NEW n \in Nat, NEW o \in BOOLEAN, NEW s, Sound(h, s, n, o), s.agenda # <<>>,
           Head(s.agenda).do = "coreStarted"
    PROVE  Sound(h, Call(s), n, o)
<1> DEFINE r == Rest(s)
           x == Head(s.agenda)
           d == AwaitController(r.core, x.endpoint)
<1>1. /\ Formed(r, n) /\ r.core \in CoreRec /\ Quiet(r.agenda) /\ r.agenda \in Seq(Item)
      /\ Call(s) = Perform(r, x) /\ x \in Item
  BY RestIs
<1>2. Linked(h, r) /\ (o \/ Timely(h, r))
  BY RestSound
<1>3. x.endpoint \in Nat /\ x.do = "coreStarted"
  BY <1>1, ItemShapes
<1> HIDE DEF r, x
<1>4. Perform(r, x) = OnCoreStarted(r, x.endpoint)
  BY <1>3 DEF Perform
<1>5. Calling(r.core, d) /\ d.validation <= n /\ d.call # "start"
  <2>1. Quietly(r.core, d)
    BY <1>1, <1>3, AwaitQuiet
  <2> HIDE DEF d
  <2>2. 0 <= n
    OBVIOUS
  <2> QED
    BY <1>1, <2>1, <2>2 DEF Quietly, Calling, Formed, NoReq
<1> HIDE DEF d
<1>6. Sound(h, CoreDid(r, d), n, o)
  BY <1>1, <1>2, <1>5, CoreDidKeeps
<1>7. Sound(h, r, n, o)
  BY <1>1, <1>2, PushOrdered DEF Sound
<1> QED
  BY <1>1, <1>4, <1>6, <1>7 DEF OnCoreStarted, d

\* fail() of CoreProcess keeps what the agenda leaves of it sound,
LEMMA FailKeeps ==
    ASSUME NEW h, NEW n \in Nat, NEW o \in BOOLEAN, NEW r,
           Formed(r, n), Quiet(r.agenda), Linked(h, r), o \/ Timely(h, r)
    PROVE  Sound(h, CoreDid(r, Fail(r.core)), n, o)
<1> DEFINE d == Fail(r.core)
<1>1. r.core \in CoreRec /\ r.core.call = "none"
  BY DEF Formed, Session
<1>2. Halting(r.core, d)
  BY <1>1, FailHalts
<1> HIDE DEF d
<1>3. Calling(r.core, d) /\ d.call # "start" /\ d.validation <= n
  <2>1. 0 <= n
    OBVIOUS
  <2> QED
    BY <1>2, <2>1 DEF Halting, Calling, Formed, NoReq
<1> QED
  BY <1>3, CoreDidKeeps DEF d

\* a status and a failure keep it sound,
LEMMA StatusKeeps ==
    ASSUME NEW h, NEW n \in Nat, NEW o \in BOOLEAN, NEW s, Sound(h, s, n, o), s.agenda # <<>>,
           Head(s.agenda).do \in {"status", "fail"}
    PROVE  Sound(h, Call(s), n, o)
<1> DEFINE r == Rest(s)
           x == Head(s.agenda)
<1>1. /\ Formed(r, n) /\ Quiet(r.agenda) /\ r.agenda \in Seq(Item)
      /\ Call(s) = Perform(r, x)
  BY RestIs
<1>2. Linked(h, r) /\ (o \/ Timely(h, r))
  BY RestSound
<1>3. x.do \in {"status", "fail"}
  OBVIOUS
<1> HIDE DEF r, x
<1>4. Sound(h, CoreDid(r, Fail(r.core)), n, o)
  BY <1>1, <1>2, FailKeeps
<1>5. Sound(h, r, n, o)
  BY <1>1, <1>2, PushOrdered DEF Sound
<1>6. CASE x.do = "status"
  BY <1>1, <1>4, <1>5, <1>6 DEF Perform, OnStatus
<1>7. CASE x.do = "fail"
  BY <1>1, <1>4, <1>7 DEF Perform
<1> QED
  BY <1>3, <1>6, <1>7

\* and so does the validation a configuration begins.
LEMMA ValidateKeeps ==
    ASSUME NEW h, NEW n \in Nat, NEW o \in BOOLEAN, NEW s, Sound(h, s, n, o), s.agenda # <<>>,
           Head(s.agenda).do = "validate"
    PROVE  Sound(h, Call(s), n, o)
<1> DEFINE r == Rest(s)
           x == Head(s.agenda)
           d == StartValidates(r.core, x.request, x.found, x.begins)
           c == [r.core EXCEPT !.validation = d.validation]
           q == [r EXCEPT !.core = c]
<1>1. /\ Formed(r, n) /\ r.core \in CoreRec /\ Quiet(r.agenda) /\ r.agenda \in Seq(Item)
      /\ Call(s) = Perform(r, x) /\ x \in Item /\ x.request <= n
  BY RestIs
<1>2. Linked(h, r) /\ (o \/ Timely(h, r))
  BY RestSound
<1>3. x.request \in Nat /\ x.found \in BOOLEAN /\ x.begins \in BOOLEAN /\ x.do = "validate"
  BY <1>1, ItemShapes
<1> HIDE DEF r, x
<1>4. Perform(r, x) = CoreDid(r, d)
  BY <1>3 DEF Perform
<1>5. Halting(c, d) /\ d.validation \in {r.core.validation, x.request, NoReq}
  BY <1>1, <1>3, StartValidatesHalts DEF Formed
<1> HIDE DEF d
<1>6. d.validation <= n /\ d.validation \in Nat
  BY <1>1, <1>3, <1>5 DEF Formed, NoReq, CoreRec
<1>7. /\ c \in CoreRec /\ c.serviceActive = r.core.serviceActive /\ c.sig = r.core.sig
      /\ c.serviceStopping = r.core.serviceStopping /\ c.call = r.core.call
      /\ c.validation = d.validation
  BY <1>1, <1>6 DEF CoreRec
<1> HIDE DEF c
<1>8. r \in Session
  BY <1>1 DEF Formed
<1>9. q \in Session /\ q.core = c /\ q.client = r.client /\ q.agenda = r.agenda
  BY <1>7, <1>8, WithCore
<1>10. CoreDid(q, d) = CoreDid(r, d)
  BY <1>8, CoreDidOver
<1> HIDE DEF q
<1>11. Formed(q, n) /\ Linked(h, q)
  BY <1>1, <1>2, <1>6, <1>7, <1>9 DEF Formed, Linked
<1>12. o \/ Timely(h, q)
  <2>1. GoneIn(h, q) <=> GoneIn(h, r)
    BY <1>9 DEF GoneIn
  <2> QED
    BY <1>2, <1>7, <1>9, <2>1 DEF Timely
<1>13. Sound(h, CoreDid(q, d), n, o)
  BY <1>1, <1>5, <1>6, <1>9, <1>11, <1>12, CoreDidKeeps DEF Halting
<1> QED
  BY <1>1, <1>4, <1>10, <1>13

\* A stop confirmed by the helper may launch what waited for it.
LEMMA CoreStoppedKeeps ==
    ASSUME NEW h, NEW n \in Nat, NEW o \in BOOLEAN, NEW s, Sound(h, s, n, o), s.agenda # <<>>,
           Head(s.agenda).do = "coreStopped"
    PROVE  Sound(h, Call(s), n, o)
<1> DEFINE r == Rest(s)
           x == Head(s.agenda)
           q == [r EXCEPT !.core = Ended(r.core)]
           d == FinishStop(Ended(r.core), "awaits")
<1>1. /\ Formed(r, n) /\ r.core \in CoreRec /\ Quiet(r.agenda) /\ r.agenda \in Seq(Item)
      /\ Call(s) = Perform(r, x) /\ r.client = s.client
      /\ Splits(s.agenda, x, r.agenda) /\ (o \/ Timely(h, s))
  BY RestIs
<1>2. Linked(h, r) /\ (o \/ Timely(h, r))
  BY RestSound
<1>3. x.do = "coreStopped"
  OBVIOUS
<1> HIDE DEF r, x
<1>4. o \/ (GoneIn(h, r) /\ ~StartOut(r.client) /\ ~Failing(r.agenda))
  <2>1. SUFFICES ASSUME ~o
                 PROVE  GoneIn(h, r) /\ ~StartOut(r.client) /\ ~Failing(r.agenda)
    OBVIOUS
  <2>2. Launching(s.agenda) /\ Timely(h, s)
    BY <1>1, <1>3, <2>1 DEF Launching, Splits
  <2>3. GoneIn(h, s) /\ ~StartOut(s.client) /\ ~Failing(s.agenda)
    BY <2>2 DEF Timely
  <2>4. Aborting(s.agenda) <=> Aborting(r.agenda)
    BY <1>1, <1>3 DEF Aborting, Splits
  <2> QED
    BY <1>1, <2>3, <2>4 DEF GoneIn, Splits
<1>5. /\ Formed(q, n) /\ Linked(h, q) /\ (o \/ Timely(h, q))
      /\ q.agenda = r.agenda /\ q.core = Ended(r.core) /\ q.client = r.client
  BY <1>1, <1>2, <1>4, EndedSound
<1>6. CoreDid(q, d) = CoreDid(r, d)
  <2>1. r \in Session
    BY <1>1 DEF Formed
  <2> QED
    BY <2>1, CoreDidOver
<1> HIDE DEF q
<1>7. Calling(q.core, d)
  <2>1. Ended(r.core) \in CoreRec /\ ~Ended(r.core).serviceActive
        /\ Ended(r.core).call = "none"
    BY <1>1, EndedIs DEF Formed
  <2> QED
    BY <1>5, <2>1, FinishStopCalls DEF LaunchOutcome
<1> HIDE DEF d
<1>8. d.validation <= n
  <2>1. 0 <= n
    OBVIOUS
  <2> QED
    BY <1>5, <1>7, <2>1 DEF Calling, Formed, NoReq
<1>9. Sound(h, CoreDid(q, d), n, o)
  BY <1>1, <1>4, <1>5, <1>7, <1>8, CoreDidKeeps
<1>10. Sound(h, r, n, o)
  BY <1>1, <1>2, PushOrdered DEF Sound
<1>11. Perform(r, x) = IF ~r.core.serviceActive THEN r ELSE CoreDid(r, d)
  BY <1>3 DEF Perform, OnCoreStopped, d
<1> QED
  BY <1>1, <1>6, <1>9, <1>10, <1>11

\* The slot of a lost connection makes no call; the queue is failed next.
LEMMA DisconnectedKeeps ==
    ASSUME NEW h, NEW n \in Nat, NEW o \in BOOLEAN, NEW s, Sound(h, s, n, o), s.agenda # <<>>,
           Head(s.agenda).do = "disconnected"
    PROVE  Sound(h, Call(s), n, o)
<1> DEFINE r == Rest(s)
           x == Head(s.agenda)
           e == Ended(r.core)
           f == [e EXCEPT !.pendingLaunch = NoReq, !.stopResult = "Failed"]
           c == r.core
           t == Call(s)
<1>1. /\ Formed(r, n) /\ c \in CoreRec /\ r.agenda \in Seq(Item)
      /\ Call(s) = Perform(r, x) /\ Linked(h, s) /\ (o \/ Timely(h, s))
      /\ r.client = s.client /\ r.core = s.core /\ s \in Session
      /\ Splits(s.agenda, x, r.agenda)
      /\ Ordered(r.agenda) /\ Pending(r.agenda, "failRequests")
      /\ ~Pending(r.agenda, "start")
  BY RestIs
<1>2. Linked(h, r) /\ (o \/ Timely(h, r))
  BY RestSound
<1>3. x.do = "disconnected"
  OBVIOUS
<1> HIDE DEF r, x, t
<1>4. Sound(h, r, n, o)
  BY <1>1, <1>2 DEF Sound
<1>5. e \in CoreRec /\ ~e.serviceActive /\ ~e.serviceStopping
      /\ e.sig = c.sig /\ e.call = "none" /\ e.validation = c.validation
  BY <1>1, EndedIs DEF Formed
<1> HIDE DEF e
<1>6. f \in CoreRec /\ ~f.serviceActive /\ ~f.serviceStopping /\ f.pendingLaunch = NoReq
      /\ f.sig = c.sig /\ f.call = "none" /\ f.validation = c.validation
  BY <1>5 DEF CoreRec, NoReq
<1> HIDE DEF f
<1>7. Halting(e, Fail(e)) /\ Halting(f, Settle(f))
  BY <1>5, <1>6, FailHalts, SettleHalts
<1>8. FinishStop(f, "awaits") = Settle(f)
  BY <1>6 DEF FinishStop
<1> DEFINE Quenched(d) ==
        /\ d \in CoreRec /\ d.call = "none" /\ ~d.serviceActive /\ ~d.serviceStopping
        /\ d.validation \in {c.validation, NoReq}
<1>9. Quenched(Fail(e)) /\ Quenched(Settle(f))
  BY <1>5, <1>6, <1>7 DEF Halting, Calling
<1>10. ASSUME NEW d, Quenched(d)
       PROVE  Sound(h, CoreDid(r, d), n, o)
  <2> DEFINE u == CoreDid(r, d)
  <2>1. r \in Session /\ d \in CoreRec /\ d.call = "none"
    BY <1>1, <1>10 DEF Formed
  <2>2. /\ u \in Session /\ u.client = r.client /\ u.agenda = r.agenda
        /\ u.core.call = "none" /\ u.core.validation = d.validation
        /\ ~u.core.serviceActive /\ ~u.core.serviceStopping
    BY <1>10, <2>1, CoreDidIs
  <2> HIDE DEF u
  <2>3. d.validation <= n
    <3>1. 0 <= n
      OBVIOUS
    <3> QED
      BY <1>1, <1>10, <3>1 DEF Formed, NoReq
  <2>4. Formed(u, n) /\ Linked(h, u) /\ Ordered(u.agenda)
    BY <1>1, <1>2, <2>2, <2>3 DEF Formed, Linked
  <2>5. ASSUME ~o PROVE Timely(h, u)
    <3>1. Timely(h, r) /\ Timely(h, s)
      BY <1>1, <1>2, <2>5
    <3>2. GoneIn(h, u)
      BY <1>1, <1>2, <2>2 DEF Linked, GoneIn
    <3> QED
      BY <1>1, <1>10, <2>2, <3>1, <3>2 DEF Timely
  <2> QED
    BY <2>4, <2>5 DEF Sound, u
<1>11. CASE ~c.serviceActive
  BY <1>1, <1>3, <1>4, <1>11 DEF Perform, OnDisconnected
<1>12. CASE c.serviceActive
  <2>1. Call(s) = CoreDid(r, FinishStop(f, "awaits")) \/ Call(s) = CoreDid(r, Fail(e))
    BY <1>1, <1>3, <1>12 DEF Perform, OnDisconnected, e, f
  <2> HIDE DEF Quenched
  <2> QED
    BY <1>8, <1>9, <1>10, <1>12, <2>1
<1> QED
  BY <1>1, <1>11, <1>12

\* A request that failed: a start ends the core it was for, a stop the
\* connection.
LEMMA FinishedKeeps ==
    ASSUME NEW h, NEW n \in Nat, NEW o \in BOOLEAN, NEW s, Sound(h, s, n, o), s.agenda # <<>>,
           Head(s.agenda).do = "finished"
    PROVE  Sound(h, Call(s), n, o)
<1> DEFINE r == Rest(s)
           x == Head(s.agenda)
           e == Ended(r.core)
           q == [r EXCEPT !.core = e]
           c == r.core
<1>1. /\ Formed(r, n) /\ c \in CoreRec /\ Quiet(r.agenda) /\ r.agenda \in Seq(Item)
      /\ Call(s) = Perform(r, x) /\ x \in Item /\ r.client = s.client
      /\ Splits(s.agenda, x, r.agenda) /\ (o \/ Timely(h, s))
  BY RestIs
<1>2. Linked(h, r) /\ (o \/ Timely(h, r))
  BY RestSound
<1>3. x.do = "finished" /\ x.op \in Op /\ x.ok \in BOOLEAN
  BY <1>1, ItemShapes
<1> HIDE DEF r, x
<1>4. Sound(h, r, n, o)
  BY <1>1, <1>2, PushOrdered DEF Sound
<1>5. r \in Session
  BY <1>1 DEF Formed
<1>6. /\ e \in CoreRec /\ ~e.serviceActive /\ ~e.serviceStopping
      /\ e.sig = c.sig /\ e.call = "none" /\ e.validation = c.validation
  BY <1>1, EndedIs DEF Formed
<1>7. CASE x.ok \/ ~c.serviceActive \/ x.op = "status"
  BY <1>1, <1>3, <1>4, <1>7 DEF Perform, OnRequestFinished
<1>8. CASE ~x.ok /\ c.serviceActive /\ x.op = "stop"
  <2> DEFINE y == Do("close")
             z == Do("fail")
             t == Push(q, <<y, z>>)
  <2>1. Call(s) = t
    BY <1>1, <1>3, <1>8 DEF Perform, OnRequestFinished
  <2> HIDE DEF e
  <2>2. q \in Session /\ q.core = e /\ q.client = r.client /\ q.agenda = r.agenda
    BY <1>5, <1>6, WithCore
  <2> HIDE DEF q
  <2>3. y \in Item /\ y.do = "close" /\ z \in Item /\ z.do = "fail"
    BY Items
  <2> HIDE DEF y, z
  <2>4. <<y, z>> \in Seq(Item) /\ <<z>> \in Seq(Item)
    BY <2>3
  <2>5. t \in Session /\ t.core = e /\ t.client = r.client /\ t.agenda = <<y, z>> \o r.agenda
    BY <2>2, <2>4, PushIs
  <2> HIDE DEF t
  <2>6. ~Failure(y) /\ ~Failure(z) /\ Quiet(<<z>>)
    BY <2>3, OneItem DEF Failure, Quiet
  <2>7. /\ \A f : Pending(t.agenda, f) <=> (f = "close" \/ f = "fail" \/ Pending(r.agenda, f))
        /\ Failing(t.agenda) <=> Failing(r.agenda)
        /\ OneFailing(r.agenda) => OneFailing(t.agenda)
        /\ Bounded(r.agenda, n) => Bounded(t.agenda, n)
        /\ Ordered(t.agenda)
    BY <1>1, <2>3, <2>5, <2>6, PushTwo
  <2>8. Formed(t, n)
    BY <1>1, <1>6, <2>5, <2>7 DEF Formed
  <2>9. Pending(t.agenda, "close") /\ Aborting(t.agenda) /\ ~Pending(t.agenda, "readAnswer")
        /\ ~Launching(t.agenda) /\ ~Pending(t.agenda, "start")
        /\ ~Pending(t.agenda, "connected")
    BY <1>1, <2>7 DEF Aborting, Quiet, Launching
  <2>10. Linked(h, t)
    BY <1>2, <2>5, <2>9 DEF Linked
  <2>11. ASSUME ~o PROVE Timely(h, t)
    <3>1. Timely(h, r) /\ GoneIn(h, t)
      BY <1>2, <2>9, <2>11 DEF GoneIn
    <3> QED
      BY <1>6, <2>5, <2>7, <2>9, <3>1 DEF Timely
  <2> QED
    BY <2>1, <2>7, <2>8, <2>10, <2>11 DEF Sound
<1>9. CASE ~x.ok /\ c.serviceActive /\ x.op = "start"
  <2>1. o \/ (GoneIn(h, r) /\ ~StartOut(r.client) /\ ~Failing(r.agenda))
    <3>1. SUFFICES ASSUME ~o
                   PROVE  GoneIn(h, r) /\ ~StartOut(r.client) /\ ~Failing(r.agenda)
      OBVIOUS
    <3>2. Failing(s.agenda) /\ Timely(h, s) /\ Failure(x)
      BY <1>1, <1>3, <1>9, <3>1 DEF Splits, Failure
    <3>3. GoneIn(h, s) /\ ~StartOut(s.client)
      BY <3>2 DEF Timely
    <3>4. ~Failing(r.agenda)
      BY <1>1, <3>2 DEF Splits, Timely
    <3>5. Aborting(s.agenda) <=> Aborting(r.agenda)
      BY <1>1, <1>3 DEF Aborting, Splits
    <3> QED
      BY <1>1, <3>3, <3>4, <3>5 DEF GoneIn
  <2>2. /\ Formed(q, n) /\ Linked(h, q) /\ (o \/ Timely(h, q))
        /\ q.agenda = r.agenda /\ q.core = e /\ q.client = r.client
    BY <1>1, <1>2, <2>1, EndedSound
  <2>3. \A d : CoreDid(q, d) = CoreDid(r, d)
    BY <1>5, CoreDidOver
  <2>4. Call(s) = CoreDid(r, FinishStop(e, "awaits")) \/ Call(s) = CoreDid(r, Fail(e))
    BY <1>1, <1>3, <1>9 DEF Perform, OnRequestFinished
  <2> HIDE DEF q, e
  <2>5. Calling(e, FinishStop(e, "awaits")) /\ Calling(e, Fail(e))
    BY <1>6, FinishStopCalls, FailHalts DEF LaunchOutcome, Halting
  <2>6. ASSUME NEW d, Calling(e, d)
        PROVE  Sound(h, CoreDid(q, d), n, o)
    <3>1. d.validation <= n
      <4>1. 0 <= n
        OBVIOUS
      <4> QED
        BY <2>2, <2>6, <4>1 DEF Calling, Formed, NoReq
    <3> QED
      BY <1>1, <2>1, <2>2, <2>6, <3>1, CoreDidKeeps
  <2> QED
    BY <2>3, <2>4, <2>5, <2>6
<1> QED
  BY <1>3, <1>7, <1>8, <1>9 DEF Op

\* No request waits in an empty queue.
LEMMA NoRequest ==
    ~StartIn(<<>>) /\ OneStart(<<>>)
BY DEF StartIn, OneStart

\* Starts of a queue with a request appended,
LEMMA AppendRequest ==
    ASSUME NEW q \in Seq(Request), NEW x \in Request
    PROVE  /\ Append(q, x) \in Seq(Request)
           /\ StartIn(Append(q, x)) <=> (StartIn(q) \/ x.op = "start")
           /\ OneStart(q) /\ ~(StartIn(q) /\ x.op = "start") => OneStart(Append(q, x))
<1> DEFINE p == Append(q, x)
<1>1. /\ p \in Seq(Request) /\ Len(q) \in Nat /\ Len(p) = Len(q) + 1
      /\ \A i \in 1..Len(q) : p[i] = q[i]
      /\ p[Len(q) + 1] = x
  OBVIOUS
<1> HIDE DEF p
<1>2. /\ \A i \in 1..Len(q) : i \in 1..Len(p)
      /\ Len(q) + 1 \in 1..Len(p)
      /\ \A i \in 1..Len(p) : i \in 1..Len(q) \/ i = Len(q) + 1
  BY <1>1
<1>3. StartIn(p) <=> (StartIn(q) \/ x.op = "start")
  BY <1>1, <1>2 DEF StartIn
<1>4. OneStart(q) /\ ~(StartIn(q) /\ x.op = "start") => OneStart(p)
  BY <1>1, <1>2 DEF StartIn, OneStart
<1> QED
  BY <1>1, <1>3, <1>4 DEF p

\* of its first request and the rest,
LEMMA FirstRequest ==
    ASSUME NEW q \in Seq(Request), q # <<>>
    PROVE  /\ Head(q) \in Request /\ Tail(q) \in Seq(Request)
           /\ StartIn(q) <=> (Head(q).op = "start" \/ StartIn(Tail(q)))
           /\ OneStart(q) => OneStart(Tail(q)) /\ ~(Head(q).op = "start" /\ StartIn(Tail(q)))
<1> DEFINE b == Tail(q)
           x == Head(q)
<1>1. /\ Len(q) \in Nat /\ Len(q) > 0 /\ b \in Seq(Request) /\ Len(b) = Len(q) - 1
      /\ x = q[1] /\ x \in Request
  OBVIOUS
<1>2. \A i \in 1..Len(b) : b[i] = q[i + 1]
  OBVIOUS
<1> HIDE DEF b, x
<1>3. \A i \in 1..Len(b) : i + 1 \in 1..Len(q) /\ i + 1 # 1 /\ b[i] = q[i + 1]
  BY <1>1, <1>2
<1>4. \A i \in 1..Len(q) : \/ i = 1 /\ q[i] = x
                           \/ i - 1 \in 1..Len(b) /\ q[i] = b[i - 1]
  <2> TAKE i \in 1..Len(q)
  <2>1. i # 1 => i - 1 \in 1..Len(b) /\ (i - 1) + 1 = i
    BY <1>1
  <2> QED
    BY <1>1, <1>2, <2>1
<1>5. 1 \in 1..Len(q)
  BY <1>1
<1>6. StartIn(q) <=> (x.op = "start" \/ StartIn(b))
  BY <1>1, <1>3, <1>4, <1>5 DEF StartIn
<1>7. ASSUME OneStart(q)
      PROVE  OneStart(b) /\ ~(x.op = "start" /\ StartIn(b))
  <2>1. ASSUME NEW i \in 1..Len(b), NEW j \in 1..Len(b),
               b[i].op = "start", b[j].op = "start"
        PROVE  i = j
    <3>1. i + 1 = j + 1
      BY <1>3, <1>7, <2>1 DEF OneStart
    <3> QED
      BY <3>1
  <2>2. ~(x.op = "start" /\ StartIn(b))
    BY <1>1, <1>3, <1>5, <1>7 DEF OneStart, StartIn
  <2> QED
    BY <2>1, <2>2 DEF OneStart
<1> QED
  BY <1>1, <1>6, <1>7 DEF b, x

\* and of a queue of stops, which holds none.
LEMMA StopRequests ==
    ASSUME NEW p \in Seq([op : {"stop"}, cfg : Nat])
    PROVE  /\ p \in Seq(Request) /\ ~StartIn(p) /\ OneStart(p)
           /\ \A x \in Request : x.op = "stop" =>
                 Append(p, x) \in Seq([op : {"stop"}, cfg : Nat])
<1>1. \A i \in 1..Len(p) : p[i] \in [op : {"stop"}, cfg : Nat]
  <2> DEFINE S == [op : {"stop"}, cfg : Nat]
  <2>1. p \in Seq(S)
    OBVIOUS
  <2> HIDE DEF S
  <2>2. \A i \in 1..Len(p) : p[i] \in S
    BY <2>1
  <2> QED
    BY <2>2 DEF S
<1>2. \A i \in 1..Len(p) : p[i] \in Request /\ p[i].op = "stop"
  BY <1>1 DEF Request, Op
<1>3. p \in Seq(Request)
  <2>1. p = [i \in 1..Len(p) |-> p[i]] /\ Len(p) \in Nat
    OBVIOUS
  <2> QED
    BY <1>2, <2>1
<1>4. \A x \in Request : x.op = "stop" => x \in [op : {"stop"}, cfg : Nat]
  BY DEF Request
<1> QED
  BY <1>2, <1>3, <1>4 DEF StartIn, OneStart

\* A request is outstanding when it is the active one or is queued.
LEMMA OutstandingIs ==
    ASSUME NEW k \in ClientRec
    PROVE  \A op : op \in Outstanding(k) <=>
               (k.active.op = op \/ \E i \in 1..Len(k.queue) : k.queue[i].op = op)
<1>1. DOMAIN k.queue = 1..Len(k.queue)
  BY DEF ClientRec
<1> QED
  BY <1>1 DEF Outstanding

\* A start is outstanding exactly when StartOut says so.
LEMMA StartIsOut ==
    ASSUME NEW k \in ClientRec
    PROVE  "start" \in Outstanding(k) <=> StartOut(k)
BY OutstandingIs DEF StartOut, StartIn

\* One call pushed, with a client that may have changed: what the steps of the
\* client have in common.
LEMMA PushedOne ==
    ASSUME NEW n \in Nat, NEW r, Formed(r, n), Quiet(r.agenda),
           NEW k \in ClientRec, NEW y \in Item, y.do # "validate", y.do # "disconnected"
    PROVE  LET t == Push([r EXCEPT !.client = k], <<y>>) IN
           /\ Formed(t, n) /\ Ordered(t.agenda) /\ t.client = k /\ t.core = r.core
           /\ \A f : Pending(t.agenda, f) <=> (y.do = f \/ Pending(r.agenda, f))
           /\ Failing(t.agenda) <=> (Failure(y) \/ Failing(r.agenda))
           /\ OneFailing(r.agenda) /\ ~(Failure(y) /\ Failing(r.agenda)) => OneFailing(t.agenda)
<1> DEFINE q == [r EXCEPT !.client = k]
           t == Push(q, <<y>>)
<1>1. r \in Session /\ r.agenda \in Seq(Item)
  BY DEF Formed, Session
<1>2. q \in Session /\ q.core = r.core /\ q.client = k /\ q.agenda = r.agenda
  BY <1>1, WithClient
<1> HIDE DEF q
<1>3. <<y>> \in Seq(Item)
  OBVIOUS
<1>4. t \in Session /\ t.core = r.core /\ t.client = k /\ t.agenda = <<y>> \o r.agenda
  BY <1>2, <1>3, PushIs
<1> HIDE DEF t
<1>5. /\ \A f : Pending(t.agenda, f) <=> (y.do = f \/ Pending(r.agenda, f))
      /\ Failing(t.agenda) <=> (Failure(y) \/ Failing(r.agenda))
      /\ OneFailing(r.agenda) /\ ~(Failure(y) /\ Failing(r.agenda)) => OneFailing(t.agenda)
      /\ Bounded(r.agenda, n) => Bounded(t.agenda, n)
      /\ Ordered(t.agenda)
  BY <1>1, <1>4, PushOne
<1>6. Formed(t, n)
  BY <1>4, <1>5 DEF Formed
<1> QED
  BY <1>4, <1>5, <1>6 DEF t, q

\* A session whose client changed and left two calls.
LEMMA PushedTwo ==
    ASSUME NEW n \in Nat, NEW r, Formed(r, n), Quiet(r.agenda),
           NEW k \in ClientRec, NEW y \in Item, NEW z \in Item,
           y.do # "validate", y.do # "disconnected", z.do # "validate", Quiet(<<z>>)
    PROVE  LET t == Push([r EXCEPT !.client = k], <<y, z>>) IN
           /\ Formed(t, n) /\ Ordered(t.agenda) /\ t.client = k /\ t.core = r.core
           /\ \A f : Pending(t.agenda, f) <=> (y.do = f \/ z.do = f \/ Pending(r.agenda, f))
           /\ Failing(t.agenda) <=> (Failure(y) \/ Failure(z) \/ Failing(r.agenda))
           /\ OneFailing(r.agenda) /\ ~(Failure(y) /\ Failure(z))
                 /\ ((Failure(y) \/ Failure(z)) => ~Failing(r.agenda)) => OneFailing(t.agenda)
<1> DEFINE q == [r EXCEPT !.client = k]
           t == Push(q, <<y, z>>)
<1>1. r \in Session /\ r.agenda \in Seq(Item)
  BY DEF Formed, Session
<1>2. q \in Session /\ q.core = r.core /\ q.client = k /\ q.agenda = r.agenda
  BY <1>1, WithClient
<1> HIDE DEF q
<1>3. <<y, z>> \in Seq(Item)
  OBVIOUS
<1>4. t \in Session /\ t.core = r.core /\ t.client = k /\ t.agenda = <<y, z>> \o r.agenda
  BY <1>2, <1>3, PushIs
<1> HIDE DEF t
<1>5. /\ \A f : Pending(t.agenda, f) <=> (y.do = f \/ z.do = f \/ Pending(r.agenda, f))
      /\ Failing(t.agenda) <=> (Failure(y) \/ Failure(z) \/ Failing(r.agenda))
      /\ OneFailing(r.agenda) /\ ~(Failure(y) /\ Failure(z))
            /\ ((Failure(y) \/ Failure(z)) => ~Failing(r.agenda)) => OneFailing(t.agenda)
      /\ Bounded(r.agenda, n) => Bounded(t.agenda, n)
      /\ Ordered(t.agenda)
  BY <1>1, <1>4, PushTwo
<1>6. Formed(t, n)
  BY <1>4, <1>5 DEF Formed
<1> QED
  BY <1>4, <1>5, <1>6 DEF t, q

\* Writing back the client changes nothing.
LEMMA SameClient ==
    ASSUME NEW s \in Session
    PROVE  [s EXCEPT !.client = s.client] = s
BY DEF Session

\* Enqueue() of a start, or of another request while no start is concerned.
LEMMA EnqueueKeeps ==
    ASSUME NEW h, NEW n \in Nat, NEW o \in BOOLEAN, NEW r, NEW op \in Op,
           Formed(r, n), Quiet(r.agenda), Linked(h, r), o \/ Timely(h, r),
           o \/ (op = "start" =>
                    /\ GoneIn(h, r) /\ ~StartOut(r.client) /\ ~Failing(r.agenda)
                    /\ r.core.serviceActive /\ ~r.core.serviceStopping)
    PROVE  Sound(h, Enqueue(r, op), n, o)
<1> DEFINE k == r.client
           y == Finished(op, FALSE)
           z == Do(IF IsConnected(k) THEN "sendNext" ELSE "connectToService")
           m == [op |-> op, cfg |-> r.core.configPath]
           j == [k EXCEPT !.queue = Append(@, m)]
<1>1. r \in Session /\ k \in ClientRec /\ r.core \in CoreRec /\ r.agenda \in Seq(Item)
  BY DEF Formed, Session
<1>2. y \in Item /\ y.do = "finished" /\ (Failure(y) <=> op = "start")
      /\ z \in Item /\ z.do \in {"sendNext", "connectToService"} /\ ~Failure(z)
  BY Items DEF Failure
<1>3. m \in Request /\ m.op = op
  BY <1>1 DEF CoreRec, Request
<1>4. k.queue \in Seq(Request) /\ OneStart(<<>>)
  BY <1>1, NoRequest DEF ClientRec
<1> HIDE DEF y, z, m
<1>5. /\ j \in ClientRec /\ j.queue = Append(k.queue, m) /\ j.link = k.link
      /\ j.hungup = k.hungup /\ j.active = k.active /\ j.inbox = k.inbox
      /\ j.answer = k.answer
  <2>1. Append(k.queue, m) \in Seq(Request)
    BY <1>3, <1>4, AppendRequest
  <2> QED
    BY <1>1, <2>1 DEF ClientRec
<1> HIDE DEF j
<1>6. /\ StartIn(j.queue) <=> (StartIn(k.queue) \/ op = "start")
      /\ OneStart(k.queue) /\ ~(StartIn(k.queue) /\ op = "start") => OneStart(j.queue)
  BY <1>3, <1>4, <1>5, AppendRequest
<1>7. Sound(h, r, n, o)
  BY <1>1, PushOrdered DEF Sound
<1>8. Sound(h, Push(r, <<y>>), n, o)
  <2> DEFINE t == Push(r, <<y>>)
  <2>1. /\ Formed(t, n) /\ Ordered(t.agenda) /\ t.client = k /\ t.core = r.core
        /\ \A f : Pending(t.agenda, f) <=> (y.do = f \/ Pending(r.agenda, f))
        /\ Failing(t.agenda) <=> (Failure(y) \/ Failing(r.agenda))
        /\ OneFailing(r.agenda) /\ ~(Failure(y) /\ Failing(r.agenda)) => OneFailing(t.agenda)
    BY <1>1, <1>2, PushedOne, SameClient
  <2> HIDE DEF t
  <2>2. \A f : f # "finished" => (Pending(t.agenda, f) <=> Pending(r.agenda, f))
    BY <1>2, <2>1
  <2>3. Linked(h, t)
    BY <2>1, <2>2 DEF Linked, Aborting
  <2>4. ASSUME ~o PROVE Timely(h, t)
    <3>1. (GoneIn(h, t) <=> GoneIn(h, r)) /\ (Launching(t.agenda) <=> Launching(r.agenda))
      BY <2>1, <2>2 DEF GoneIn, Aborting, Launching
    <3>2. ~Launching(r.agenda) /\ Timely(h, r) /\ ~Pending(r.agenda, "readAnswer")
      BY <2>4 DEF Launching, Quiet
    <3> QED
      BY <1>2, <2>1, <2>2, <2>4, <3>1, <3>2 DEF Timely
  <2> QED
    BY <2>1, <2>3, <2>4 DEF Sound, t
<1>9. Sound(h, Push([r EXCEPT !.client = j], <<z>>), n, o)
  <2> DEFINE t == Push([r EXCEPT !.client = j], <<z>>)
  <2>1. /\ Formed(t, n) /\ Ordered(t.agenda) /\ t.client = j /\ t.core = r.core
        /\ \A f : Pending(t.agenda, f) <=> (z.do = f \/ Pending(r.agenda, f))
        /\ Failing(t.agenda) <=> (Failure(z) \/ Failing(r.agenda))
        /\ OneFailing(r.agenda) /\ ~(Failure(z) /\ Failing(r.agenda)) => OneFailing(t.agenda)
    BY <1>1, <1>2, <1>5, PushedOne
  <2> HIDE DEF t
  <2>2. \A f : f \notin {"sendNext", "connectToService"}
               => (Pending(t.agenda, f) <=> Pending(r.agenda, f))
    BY <1>2, <2>1
  <2>3. Linked(h, t)
    BY <1>5, <2>1, <2>2 DEF Linked, Aborting
  <2>4. ASSUME ~o PROVE Timely(h, t)
    <3>1. (GoneIn(h, t) <=> GoneIn(h, r)) /\ (Launching(t.agenda) <=> Launching(r.agenda))
      BY <1>5, <2>1, <2>2 DEF GoneIn, Aborting, Launching
    <3>2. ~Launching(r.agenda) /\ Timely(h, r) /\ ~Pending(r.agenda, "readAnswer")
      BY <2>4 DEF Launching, Quiet
    <3>3. CASE op # "start"
      <4>1. (StartIn(j.queue) <=> StartIn(k.queue)) /\ (StartOut(j) <=> StartOut(k))
            /\ (OneStart(k.queue) => OneStart(j.queue))
        BY <1>5, <1>6, <3>3 DEF StartOut
      <4> QED
        BY <1>2, <1>5, <2>1, <2>2, <2>4, <3>1, <3>2, <4>1 DEF Timely
    <3>4. CASE op = "start"
      <4>1. /\ GoneIn(h, r) /\ ~StartOut(k) /\ ~Failing(r.agenda)
            /\ r.core.serviceActive /\ ~r.core.serviceStopping
        BY <2>4, <3>4
      <4>2. OneStart(j.queue) /\ j.active.op # "start" /\ ~Failing(t.agenda)
        BY <1>2, <1>5, <1>6, <2>1, <3>2, <4>1 DEF Timely, StartOut
      <4> QED
        BY <1>2, <1>5, <2>1, <2>2, <2>4, <3>1, <3>2, <4>1, <4>2 DEF Timely
    <3> QED
      BY <3>3, <3>4
  <2> QED
    BY <2>1, <2>3, <2>4 DEF Sound, t
<1>10. [r EXCEPT !.client.queue = Append(@, m)] = [r EXCEPT !.client = j]
  BY <1>1 DEF j, Session
<1> QED
  BY <1>7, <1>8, <1>9, <1>10 DEF Enqueue, y, z, m

\* start() and the queueing of a request keep a session sound.
LEMMA StartKeeps ==
    ASSUME NEW h, NEW n \in Nat, NEW o \in BOOLEAN, NEW s, Sound(h, s, n, o), s.agenda # <<>>,
           Head(s.agenda).do \in {"start", "enqueue"}
    PROVE  Sound(h, Call(s), n, o)
<1> DEFINE r == Rest(s)
           x == Head(s.agenda)
<1>1. /\ Formed(r, n) /\ Quiet(r.agenda) /\ x \in Item
      /\ Call(s) = Perform(r, x) /\ r.client = s.client /\ r.core = s.core
      /\ Splits(s.agenda, x, r.agenda) /\ (o \/ Timely(h, s))
  BY RestIs
<1>2. Linked(h, r) /\ (o \/ Timely(h, r))
  BY RestSound
<1>3. x.do \in {"start", "enqueue"}
  OBVIOUS
<1> HIDE DEF r, x
<1>4. CASE x.do = "start"
  <2>1. Call(s) = Enqueue(r, "start")
    BY <1>1, <1>4 DEF Perform
  <2>2. o \/ /\ GoneIn(h, r) /\ ~StartOut(r.client) /\ ~Failing(r.agenda)
             /\ r.core.serviceActive /\ ~r.core.serviceStopping
    <3>1. SUFFICES ASSUME ~o
                   PROVE  /\ GoneIn(h, r) /\ ~StartOut(r.client) /\ ~Failing(r.agenda)
                          /\ r.core.serviceActive /\ ~r.core.serviceStopping
      OBVIOUS
    <3>2. Pending(s.agenda, "start") /\ Timely(h, s)
      BY <1>1, <1>4, <3>1 DEF Splits
    <3>3. /\ GoneIn(h, s) /\ ~StartOut(s.client) /\ ~Failing(s.agenda)
          /\ s.core.serviceActive /\ ~s.core.serviceStopping
      BY <3>2 DEF Timely, Launching
    <3>4. Aborting(s.agenda) <=> Aborting(r.agenda)
      BY <1>1, <1>4 DEF Aborting, Splits
    <3> QED
      BY <1>1, <3>3, <3>4 DEF GoneIn, Splits
  <2>3. "start" \in Op
    BY DEF Op
  <2> QED
    BY <1>1, <1>2, <2>1, <2>2, <2>3, EnqueueKeeps
<1>5. CASE x.do = "enqueue"
  <2>1. Call(s) = Enqueue(r, x.op) /\ x.op \in Op /\ x.op # "start"
    BY <1>1, <1>5, ItemShapes DEF Perform
  <2> QED
    BY <1>1, <1>2, <2>1, EnqueueKeeps
<1> QED
  BY <1>3, <1>4, <1>5

\* Members that are neither requests nor answers change before there is a
\* connection.
Like(l, k) ==
    /\ l.hungup = k.hungup /\ l.active = k.active /\ l.queue = k.queue
    /\ l.inbox = k.inbox /\ l.answer = k.answer

\* A client whose link only moved on, with at most one call left, is sound.
LEMMA DialSound ==
    ASSUME NEW h, NEW n \in Nat, NEW o \in BOOLEAN, NEW r,
           Formed(r, n), Quiet(r.agenda), Linked(h, r), o \/ Timely(h, r),
           NEW l \in ClientRec, Like(l, r.client), r.client.link \in {"none", "dialing"},
           l.link \in {"none", "dialing", "queued"}
    PROVE  /\ Sound(h, [r EXCEPT !.client = l], n, o)
           /\ \A y \in Item :
                 \/ y.do \in {"failConnection", "sendNext"}
                 \/ y.do = "connected" /\ l.link \in {"none", "dialing"}
                 => Sound(h, Push([r EXCEPT !.client = l], <<y>>), n, o)
<1> DEFINE k == r.client
           q == [r EXCEPT !.client = l]
<1>1. r \in Session /\ k \in ClientRec /\ r.agenda \in Seq(Item)
  BY DEF Formed, Session
<1>2. q \in Session /\ q.core = r.core /\ q.client = l /\ q.agenda = r.agenda
  BY <1>1, WithClient
<1>3. /\ ~Launching(r.agenda) /\ ~Pending(r.agenda, "start")
      /\ ~Pending(r.agenda, "failRequests") /\ ~Pending(r.agenda, "readAnswer")
      /\ ~Pending(r.agenda, "connected")
  BY DEF Quiet, Launching
<1>4. l.inbox = NoCall /\ l.answer = NoCall /\ (h.core # NoReq => h.owned /\ l.hungup)
  BY DEF Linked, Like
<1>5. ASSUME NEW t, t.core = r.core, t.client = l,
             \A f : f \notin {"failConnection", "sendNext", "connected"} =>
                       (Pending(t.agenda, f) <=> Pending(r.agenda, f)),
             Failing(t.agenda) <=> Failing(r.agenda),
             OneFailing(r.agenda) => OneFailing(t.agenda),
             Pending(t.agenda, "connected") => l.link \in {"none", "dialing"}
      PROVE  Linked(h, t) /\ (o \/ Timely(h, t))
  <2>1. Linked(h, t)
    BY <1>3, <1>4, <1>5 DEF Linked
  <2>2. ASSUME ~o PROVE Timely(h, t)
    <3>1. (GoneIn(h, t) <=> GoneIn(h, r)) /\ (Launching(t.agenda) <=> Launching(r.agenda))
      BY <1>5 DEF GoneIn, Aborting, Launching, Like
    <3>2. StartOut(l) <=> StartOut(k)
      BY DEF StartOut, Like
    <3> QED
      BY <1>3, <1>5, <2>2, <3>1, <3>2 DEF Timely, Like
  <2> QED
    BY <2>1, <2>2
<1> HIDE DEF q
<1>6. Sound(h, q, n, o)
  <2>1. Formed(q, n) /\ Ordered(q.agenda)
    BY <1>1, <1>2, PushOrdered DEF Formed
  <2>2. Linked(h, q) /\ (o \/ Timely(h, q))
    BY <1>2, <1>3, <1>5
  <2> QED
    BY <2>1, <2>2 DEF Sound
<1>7. ASSUME NEW y \in Item,
             \/ y.do \in {"failConnection", "sendNext"}
             \/ y.do = "connected" /\ l.link \in {"none", "dialing"}
      PROVE  Sound(h, Push(q, <<y>>), n, o)
  <2> DEFINE t == Push(q, <<y>>)
  <2>1. /\ Formed(t, n) /\ Ordered(t.agenda) /\ t.client = l /\ t.core = r.core
        /\ \A f : Pending(t.agenda, f) <=> (y.do = f \/ Pending(r.agenda, f))
        /\ Failing(t.agenda) <=> (Failure(y) \/ Failing(r.agenda))
        /\ OneFailing(r.agenda) /\ ~(Failure(y) /\ Failing(r.agenda)) => OneFailing(t.agenda)
    BY <1>7, PushedOne DEF q
  <2> HIDE DEF t
  <2>2. ~Failure(y)
    BY <1>7 DEF Failure
  <2>3. Linked(h, t) /\ (o \/ Timely(h, t))
    BY <1>3, <1>5, <1>7, <2>1, <2>2
  <2> QED
    BY <2>1, <2>3 DEF Sound, t
<1> QED
  BY <1>6, <1>7 DEF q

\* connectToService() and connected() keep a session sound.
LEMMA ConnectKeeps ==
    ASSUME NEW h, NEW n \in Nat, NEW o \in BOOLEAN, NEW s, Sound(h, s, n, o), s.agenda # <<>>,
           Head(s.agenda).do \in {"connectToService", "connected"}
    PROVE  Sound(h, Call(s), n, o)
<1> DEFINE r == Rest(s)
           x == Head(s.agenda)
           k == r.client
           j == [k EXCEPT !.closing = FALSE]
           dialing == [j EXCEPT !.link = "dialing"]
           queued == [k EXCEPT !.link = "queued", !.reported = TRUE]
<1>1. /\ Formed(r, n) /\ Quiet(r.agenda) /\ r.agenda \in Seq(Item) /\ s \in Session
      /\ Call(s) = Perform(r, x) /\ k \in ClientRec /\ r.dial = s.dial
      /\ Linked(h, s) /\ Splits(s.agenda, x, r.agenda) /\ k = s.client
  BY RestIs
<1>2. Linked(h, r) /\ (o \/ Timely(h, r))
  BY RestSound
<1>3. x.do \in {"connectToService", "connected"}
  OBVIOUS
<1> HIDE DEF r, x
<1>4. r \in Session /\ r.dial \in DialOutcome
  BY <1>1 DEF Formed, Session
<1>5. Sound(h, r, n, o)
  BY <1>1, <1>2, PushOrdered DEF Sound
<1>6. /\ j \in ClientRec /\ Like(j, k) /\ j.link = k.link
      /\ dialing \in ClientRec /\ Like(dialing, k) /\ dialing.link = "dialing"
      /\ queued \in ClientRec /\ Like(queued, k) /\ queued.link = "queued"
  BY <1>1 DEF ClientRec, Like
<1>7. /\ Do("connected") \in Item /\ Do("connected").do = "connected"
      /\ Do("failConnection") \in Item /\ Do("failConnection").do = "failConnection"
      /\ Do("sendNext") \in Item /\ Do("sendNext").do = "sendNext"
  BY Items
<1> HIDE DEF j, dialing, queued
<1>8. CASE x.do = "connectToService"
  <2>1. Call(s) = ConnectToService(r)
    BY <1>1, <1>8 DEF Perform
  <2>2. CASE k.link # "none"
    BY <1>5, <2>1, <2>2 DEF ConnectToService
  <2>3. CASE k.link = "none"
    <3>1. /\ Sound(h, [r EXCEPT !.client = dialing], n, o)
          /\ Sound(h, Push([r EXCEPT !.client = j], <<Do("connected")>>), n, o)
          /\ Sound(h, Push([r EXCEPT !.client = j], <<Do("failConnection")>>), n, o)
      BY <1>1, <1>2, <1>6, <1>7, <2>3, DialSound
    <3>2. \/ Call(s) = [r EXCEPT !.client = dialing]
          \/ Call(s) = Push([r EXCEPT !.client = j], <<Do("connected")>>)
          \/ Call(s) = Push([r EXCEPT !.client = j], <<Do("failConnection")>>)
      BY <1>4, <2>1, <2>3 DEF ConnectToService, DialOutcome, j, dialing
    <3> QED
      BY <3>1, <3>2
  <2> QED
    BY <2>2, <2>3
<1>9. CASE x.do = "connected"
  <2>1. k.link \in {"none", "dialing"}
    BY <1>1, <1>9 DEF Splits, Linked
  <2>2. [r EXCEPT !.client.link = "queued", !.client.reported = TRUE]
          = [r EXCEPT !.client = queued]
    BY <1>4 DEF queued, Session
  <2>3. Call(s) = Push([r EXCEPT !.client = queued], <<Do("sendNext")>>)
    BY <1>1, <1>9, <2>2 DEF Perform, Connected
  <2>4. \A y \in Item : y.do = "sendNext"
           => Sound(h, Push([r EXCEPT !.client = queued], <<y>>), n, o)
    BY <1>1, <1>2, <1>6, <2>1, DialSound
  <2> QED
    BY <1>7, <2>3, <2>4
<1> QED
  BY <1>3, <1>8, <1>9

\* Agendas of one item, concatenated.
LEMMA OneAndOne ==
    ASSUME NEW x \in Item, NEW y \in Item
    PROVE  <<x>> \o <<y>> = <<x, y>> /\ <<>> \o <<y>> = <<y>>
<1>1. /\ <<x>> \in Seq(Item) /\ <<y>> \in Seq(Item) /\ <<x, y>> \in Seq(Item)
      /\ <<>> \in Seq(Item)
  OBVIOUS
<1>2. <<>> \o <<y>> = <<y>>
  BY <1>1, ConcatEmptySeq
<1>3. <<x, y>> \o <<>> = <<x>> \o (<<y>> \o <<>>)
  BY <1>1, PairOnto
<1>4. <<x, y>> \o <<>> = <<x, y>> /\ <<y>> \o <<>> = <<y>>
  BY <1>1, ConcatEmptySeq
<1> QED
  BY <1>2, <1>3, <1>4

\* The connection is to be cut: every request is failed first.
LEMMA CutKeeps ==
    ASSUME NEW h, NEW n \in Nat, NEW o \in BOOLEAN, NEW s, Sound(h, s, n, o), s.agenda # <<>>,
           Head(s.agenda).do \in {"close", "failConnection"}
    PROVE  Sound(h, Call(s), n, o)
<1> DEFINE r == Rest(s)
           x == Head(s.agenda)
           k == r.client
           l == [k EXCEPT !.closing = TRUE]
           y == Do("failRequests")
           z == Do("abort")
           t == Push([r EXCEPT !.client = l], <<y, z>>)
<1>1. /\ Formed(r, n) /\ Quiet(r.agenda) /\ r.agenda \in Seq(Item)
      /\ Call(s) = Perform(r, x) /\ k \in ClientRec /\ k = s.client /\ r.core = s.core
      /\ Splits(s.agenda, x, r.agenda) /\ Linked(h, s) /\ (o \/ Timely(h, s))
  BY RestIs
<1>2. x.do = "failConnection" => Linked(h, r) /\ (o \/ Timely(h, r))
  BY RestSound
<1>3. x.do \in {"close", "failConnection"}
  OBVIOUS
<1> HIDE DEF r, x
<1>4. /\ l \in ClientRec /\ Like(l, k) /\ l.link = k.link
  BY <1>1 DEF ClientRec, Like
<1>5. /\ y \in Item /\ y.do = "failRequests" /\ ~Failure(y)
      /\ z \in Item /\ z.do = "abort" /\ ~Failure(z)
  BY Items DEF Failure
<1>6. Quiet(<<z>>)
  BY <1>5, OneItem DEF Quiet
<1>7. [r EXCEPT !.client.closing = TRUE] = [r EXCEPT !.client = l]
  BY <1>1 DEF Formed, Session
<1>8. Call(s) = t \/ (x.do = "failConnection" /\ Call(s) = r)
  BY <1>1, <1>3, <1>7 DEF Perform, Close, FailConnection
<1>9. ASSUME x.do = "failConnection" PROVE Sound(h, r, n, o)
  BY <1>1, <1>2, <1>9, PushOrdered DEF Sound
<1> HIDE DEF y, z, l
<1>10. Sound(h, t, n, o)
  <2>1. /\ Formed(t, n) /\ Ordered(t.agenda) /\ t.client = l /\ t.core = r.core
        /\ \A f : Pending(t.agenda, f) <=> (y.do = f \/ z.do = f \/ Pending(r.agenda, f))
        /\ Failing(t.agenda) <=> (Failure(y) \/ Failure(z) \/ Failing(r.agenda))
        /\ OneFailing(r.agenda) /\ ~(Failure(y) /\ Failure(z))
              /\ ((Failure(y) \/ Failure(z)) => ~Failing(r.agenda)) => OneFailing(t.agenda)
    BY <1>1, <1>4, <1>5, <1>6, PushedTwo
  <2> HIDE DEF t
  <2>2. /\ Aborting(t.agenda) /\ Pending(t.agenda, "failRequests") /\ ~Launching(t.agenda)
        /\ ~Pending(t.agenda, "start") /\ ~Pending(t.agenda, "readAnswer")
        /\ ~Pending(t.agenda, "connected")
    BY <1>1, <1>5, <2>1 DEF Aborting, Quiet, Launching
  <2>3. Linked(h, t)
    BY <1>1, <1>4, <2>1, <2>2 DEF Linked, Like
  <2>4. ASSUME ~o PROVE Timely(h, t)
    <3>1. Timely(h, s) /\ GoneIn(h, t) /\ (StartOut(l) <=> StartOut(k))
      BY <1>1, <1>4, <2>2, <2>4 DEF GoneIn, StartOut, Like
    <3>2. /\ Failing(t.agenda) => Failing(s.agenda)
          /\ OneFailing(s.agenda) => OneFailing(t.agenda)
          /\ Pending(s.agenda, "stop") => Pending(t.agenda, "stop")
          /\ Pending(s.agenda, "drain") => Pending(t.agenda, "drain")
      BY <1>1, <1>3, <1>5, <2>1 DEF Splits
    <3> QED
      BY <1>1, <1>4, <2>1, <2>2, <3>1, <3>2 DEF Timely, Like
  <2> QED
    BY <2>1, <2>3, <2>4 DEF Sound
<1> QED
  BY <1>8, <1>9, <1>10

\* The oldest queued request becomes the active one.
LEMMA SendNextKeeps ==
    ASSUME NEW h, NEW n \in Nat, NEW o \in BOOLEAN, NEW s, Sound(h, s, n, o), s.agenda # <<>>,
           Head(s.agenda).do = "sendNext"
    PROVE  Sound(h, Call(s), n, o)
<1> DEFINE r == Rest(s)
           x == Head(s.agenda)
           k == r.client
           l == [k EXCEPT !.active = Head(k.queue), !.queue = Tail(k.queue),
                          !.inbox = Head(k.queue)]
           t == [r EXCEPT !.client = l]
<1>1. /\ Formed(r, n) /\ Quiet(r.agenda) /\ r.agenda \in Seq(Item) /\ r.core = s.core
      /\ Call(s) = Perform(r, x) /\ k \in ClientRec
  BY RestIs
<1>2. Linked(h, r) /\ (o \/ Timely(h, r))
  BY RestSound
<1>3. x.do = "sendNext"
  OBVIOUS
<1> HIDE DEF r, x
<1>4. Sound(h, r, n, o)
  BY <1>1, <1>2, PushOrdered DEF Sound
<1>5. Call(s) = IF ~IsConnected(k) \/ k.active # NoCall \/ k.queue = <<>> THEN r ELSE t
  BY <1>1, <1>3 DEF Perform, SendNext
<1>6. ASSUME IsConnected(k), k.active = NoCall, k.queue # <<>>
      PROVE  Sound(h, t, n, o)
  <2>1. k.queue \in Seq(Request)
    BY <1>1 DEF ClientRec
  <2>2. /\ Head(k.queue) \in Request /\ Tail(k.queue) \in Seq(Request)
        /\ StartIn(k.queue) <=> (Head(k.queue).op = "start" \/ StartIn(Tail(k.queue)))
        /\ OneStart(k.queue) => OneStart(Tail(k.queue))
                                /\ ~(Head(k.queue).op = "start" /\ StartIn(Tail(k.queue)))
    BY <1>6, <2>1, FirstRequest
  <2>3. /\ l \in ClientRec /\ l.link = k.link /\ l.hungup = k.hungup
        /\ l.answer = k.answer /\ l.active = Head(k.queue) /\ l.inbox = l.active
        /\ l.queue = Tail(k.queue)
    BY <1>1, <2>2 DEF ClientRec
  <2> HIDE DEF l
  <2>4. t \in Session /\ t.core = r.core /\ t.client = l /\ t.agenda = r.agenda
    BY <1>1, <2>3, WithClient DEF Formed
  <2> HIDE DEF t
  <2>5. Formed(t, n) /\ Ordered(t.agenda)
    BY <1>1, <2>4, PushOrdered DEF Formed
  <2>6. Linked(h, t)
    BY <1>2, <1>6, <2>3, <2>4 DEF Linked, IsConnected
  <2>7. ASSUME ~o PROVE Timely(h, t)
    <3>1. Timely(h, r) /\ (GoneIn(h, t) <=> GoneIn(h, r)) /\ ~Pending(r.agenda, "readAnswer")
      BY <1>1, <1>2, <2>3, <2>4, <2>7 DEF GoneIn, Quiet
    <3>2. StartOut(l) => StartOut(k)
      BY <2>2, <2>3 DEF StartOut
    <3>3. l.answer # NoCall => GoneIn(h, r)
      BY <1>2, <1>6, <2>3 DEF Linked, GoneIn
    <3> QED
      BY <2>2, <2>3, <2>4, <3>1, <3>2, <3>3 DEF Timely
  <2> QED
    BY <2>5, <2>6, <2>7 DEF Sound
<1> QED
  BY <1>4, <1>5, <1>6

\* The socket is closed, and the helper will notice.
LEMMA AbortKeeps ==
    ASSUME NEW h, NEW n \in Nat, NEW o \in BOOLEAN, NEW s, Sound(h, s, n, o), s.agenda # <<>>,
           Head(s.agenda).do = "abort"
    PROVE  Sound(h, Call(s), n, o)
<1> DEFINE r == Rest(s)
           x == Head(s.agenda)
           k == r.client
           idle == [k EXCEPT !.link = "none"]
           l == [k EXCEPT !.link = "none", !.inbox = NoCall, !.answer = NoCall,
                          !.hungup = @ \/ k.link = "open", !.reported = FALSE]
           q == [r EXCEPT !.client = l]
           y == Do("disconnected")
           z == Do("failRequests")
<1>1. /\ Formed(r, n) /\ Quiet(r.agenda) /\ r.agenda \in Seq(Item)
      /\ Call(s) = Perform(r, x) /\ k \in ClientRec /\ k = s.client /\ r.core = s.core
      /\ Splits(s.agenda, x, r.agenda) /\ Linked(h, s) /\ (o \/ Timely(h, s))
  BY RestIs
<1>2. x.do = "abort"
  OBVIOUS
<1> HIDE DEF r, x
<1>3. r \in Session
  BY <1>1 DEF Formed
<1>4. /\ idle \in ClientRec /\ Like(idle, k) /\ idle.link = "none"
      /\ l \in ClientRec /\ l.link = "none" /\ l.inbox = NoCall /\ l.answer = NoCall
      /\ l.hungup = (k.hungup \/ k.link = "open")
      /\ l.active = k.active /\ l.queue = k.queue
  BY <1>1 DEF ClientRec, Like
<1>5. /\ y \in Item /\ y.do = "disconnected" /\ ~Failure(y)
      /\ z \in Item /\ z.do = "failRequests" /\ ~Failure(z)
  BY Items DEF Failure
<1> DEFINE d == IF k.reported THEN <<Do("disconnected")>> ELSE <<>>
           v == <<Do("failRequests")>>
<1>6. d \o v = IF k.reported THEN <<y, z>> ELSE <<z>>
  <2>1. <<y>> \o <<z>> = <<y, z>> /\ <<>> \o <<z>> = <<z>>
    BY <1>5, OneAndOne
  <2>2. d \o v = IF k.reported THEN <<y>> \o <<z>> ELSE <<>> \o <<z>>
    OBVIOUS
  <2> HIDE DEF y, z, d, v
  <2> QED
    BY <2>1, <2>2
<1>7. Call(s) = IF ~IsConnected(k) THEN [r EXCEPT !.client = idle] ELSE Push(q, d \o v)
  <2>1. [r EXCEPT !.client.link = "none"] = [r EXCEPT !.client = idle]
    BY <1>3 DEF Session
  <2> HIDE DEF q, idle
  <2> QED
    BY <1>1, <1>2, <2>1 DEF Perform, Abort, q, l
<1>8. \A f : f # "abort" => (Pending(s.agenda, f) <=> Pending(r.agenda, f))
  BY <1>1, <1>2 DEF Splits
<1>9. /\ Failing(r.agenda) => Failing(s.agenda)
      /\ OneFailing(s.agenda) => OneFailing(r.agenda)
  BY <1>1 DEF Splits
<1> HIDE DEF idle, l, y, z, d, v
<1>10. ASSUME NEW t, t.core = r.core, t.client.link = "none",
              t.client.inbox = NoCall, t.client.answer = NoCall,
              k.hungup \/ k.link = "open" => t.client.hungup,
              t.client.active = k.active, t.client.queue = k.queue,
              \A f : f \notin {"disconnected", "failRequests"} =>
                        (Pending(t.agenda, f) <=> Pending(r.agenda, f)),
              Failing(t.agenda) <=> Failing(r.agenda),
              OneFailing(r.agenda) => OneFailing(t.agenda)
       PROVE  Linked(h, t) /\ (o \/ Timely(h, t))
  <2>1. /\ ~Launching(t.agenda) /\ ~Pending(t.agenda, "start")
        /\ ~Pending(t.agenda, "readAnswer") /\ ~Pending(t.agenda, "connected")
    BY <1>1, <1>10 DEF Quiet, Launching
  <2>2. Linked(h, t)
    BY <1>1, <1>10, <2>1 DEF Linked
  <2>3. ASSUME ~o PROVE Timely(h, t)
    <3>1. Timely(h, s) /\ GoneIn(h, t)
      BY <1>1, <1>10, <2>3 DEF GoneIn, Linked
    <3>2. StartOut(t.client) <=> StartOut(k)
      BY <1>10 DEF StartOut
    <3>3. ~Pending(s.agenda, "failRequests")
      BY <1>1, <1>8 DEF Quiet
    <3> QED
      BY <1>1, <1>8, <1>9, <1>10, <2>1, <3>1, <3>2, <3>3 DEF Timely
  <2> QED
    BY <2>2, <2>3
<1>11. CASE ~IsConnected(k)
  <2> DEFINE t == [r EXCEPT !.client = idle]
  <2>1. t \in Session /\ t.core = r.core /\ t.client = idle /\ t.agenda = r.agenda
    BY <1>3, <1>4, WithClient
  <2>2. Call(s) = t
    BY <1>7, <1>11
  <2> HIDE DEF t
  <2>3. Formed(t, n) /\ Ordered(t.agenda)
    BY <1>1, <2>1, PushOrdered DEF Formed
  <2>4. k.link \in {"none", "dialing"}
    BY <1>1, <1>11 DEF IsConnected, ClientRec
  <2>5. k.inbox = NoCall /\ k.answer = NoCall
    BY <1>1, <2>4 DEF Linked
  <2>6. Linked(h, t) /\ (o \/ Timely(h, t))
    BY <1>4, <1>10, <2>1, <2>4, <2>5 DEF Like
  <2> QED
    BY <2>2, <2>3, <2>6 DEF Sound
<1>12. CASE IsConnected(k) /\ ~k.reported
  <2> DEFINE t == Push(q, <<z>>)
  <2>1. Call(s) = t
    BY <1>6, <1>7, <1>12
  <2>2. /\ Formed(t, n) /\ Ordered(t.agenda) /\ t.client = l /\ t.core = r.core
        /\ \A f : Pending(t.agenda, f) <=> (z.do = f \/ Pending(r.agenda, f))
        /\ Failing(t.agenda) <=> (Failure(z) \/ Failing(r.agenda))
        /\ OneFailing(r.agenda) /\ ~(Failure(z) /\ Failing(r.agenda)) => OneFailing(t.agenda)
    BY <1>1, <1>4, <1>5, PushedOne
  <2> HIDE DEF t
  <2>3. Linked(h, t) /\ (o \/ Timely(h, t))
    BY <1>4, <1>5, <1>10, <2>2
  <2> QED
    BY <2>1, <2>2, <2>3 DEF Sound
<1>13. CASE IsConnected(k) /\ k.reported
  <2> DEFINE t == Push(q, <<y, z>>)
  <2>1. Call(s) = t
    BY <1>6, <1>7, <1>13
  <2>2. q \in Session /\ q.core = r.core /\ q.client = l /\ q.agenda = r.agenda
    BY <1>3, <1>4, WithClient
  <2> HIDE DEF q
  <2>3. <<y, z>> \in Seq(Item)
    BY <1>5
  <2>4. /\ t \in Session /\ t.core = r.core /\ t.client = l
        /\ t.agenda = <<y, z>> \o r.agenda
    BY <2>2, <2>3, PushIs
  <2> HIDE DEF t
  <2>5. /\ \A f : Pending(t.agenda, f) <=> (y.do = f \/ z.do = f \/ Pending(r.agenda, f))
        /\ Failing(t.agenda) <=> (Failure(y) \/ Failure(z) \/ Failing(r.agenda))
        /\ OneFailing(r.agenda) => OneFailing(t.agenda)
        /\ Bounded(r.agenda, n) => Bounded(t.agenda, n)
    <3>1. y.do # "validate" /\ z.do # "validate" /\ y \in Item /\ z \in Item
          /\ ~Failure(y) /\ ~Failure(z)
      BY <1>5
    <3>2. r.agenda \in Seq(Item)
      BY <1>1
    <3>3. LET a == <<y, z>> \o r.agenda IN
          /\ \A f : Pending(a, f) <=> (y.do = f \/ z.do = f \/ Pending(r.agenda, f))
          /\ Failing(a) <=> (Failure(y) \/ Failure(z) \/ Failing(r.agenda))
          /\ OneFailing(r.agenda) => OneFailing(a)
          /\ \A m : Bounded(r.agenda, m) => Bounded(a, m)
      BY <3>1, <3>2, PushTwo
    <3> QED
      BY <2>4, <3>3
  <2>6. Ordered(t.agenda)
    BY <1>1, <1>5, <2>4, PushOrdered
  <2>7. Formed(t, n)
    BY <1>1, <2>4, <2>5 DEF Formed
  <2>8. Linked(h, t) /\ (o \/ Timely(h, t))
    BY <1>4, <1>5, <1>10, <2>4, <2>5
  <2> QED
    BY <2>1, <2>6, <2>7, <2>8 DEF Sound
<1> QED
  BY <1>11, <1>12, <1>13

\* One step of stopCore(): a queued start fails, before the stop is queued.
LEMMA StopKeeps ==
    ASSUME NEW h, NEW n \in Nat, NEW o \in BOOLEAN, NEW s, Sound(h, s, n, o), s.agenda # <<>>,
           Head(s.agenda).do \in {"stop", "drain"}
    PROVE  Sound(h, Call(s), n, o)
<1> DEFINE r == Rest(s)
           x == Head(s.agenda)
           k == r.client
           p == IF x.do = "stop" THEN <<>> ELSE x.preserved
           request == Head(k.queue)
           Queue(u) == [k EXCEPT !.queue = u]
<1>1. /\ Formed(r, n) /\ Quiet(r.agenda) /\ r.agenda \in Seq(Item) /\ x \in Item
      /\ Call(s) = Perform(r, x) /\ k \in ClientRec /\ k = s.client /\ r.core = s.core
      /\ Splits(s.agenda, x, r.agenda) /\ Linked(h, s) /\ (o \/ Timely(h, s))
  BY RestIs
<1>2. x.do \in {"stop", "drain"}
  OBVIOUS
<1> HIDE DEF r, x
<1>3. p \in Seq([op : {"stop"}, cfg : Nat])
  BY <1>1, <1>2, ItemShapes
<1>4. r \in Session /\ k.queue \in Seq(Request)
  BY <1>1 DEF Formed, Session, ClientRec
<1>5. \A u \in Seq(Request) :
         /\ Queue(u) \in ClientRec /\ Queue(u).queue = u /\ Queue(u).link = k.link
         /\ Queue(u).hungup = k.hungup /\ Queue(u).active = k.active
         /\ Queue(u).inbox = k.inbox /\ Queue(u).answer = k.answer
  BY <1>1 DEF ClientRec
<1>6. \A u : [r EXCEPT !.client.queue = u] = [r EXCEPT !.client = Queue(u)]
  BY <1>4 DEF Session
<1>7. /\ p \in Seq(Request) /\ ~StartIn(p) /\ OneStart(p)
      /\ \A m \in Request : m.op = "stop" => Append(p, m) \in Seq([op : {"stop"}, cfg : Nat])
  BY <1>3, StopRequests
<1>8. Call(s) = StopCore(r, p)
  BY <1>1, <1>2 DEF Perform
<1>9. \A f : f \notin {"stop", "drain"} => (Pending(s.agenda, f) <=> Pending(r.agenda, f))
  BY <1>1, <1>2 DEF Splits
<1>10. (Failing(s.agenda) <=> Failing(r.agenda)) /\ (OneFailing(s.agenda) => OneFailing(r.agenda))
  BY <1>1, <1>2 DEF Splits, Failure
<1>11. ~Launching(r.agenda) /\ ~Pending(r.agenda, "start") /\ ~Pending(r.agenda, "readAnswer")
       /\ ~Pending(r.agenda, "failRequests") /\ ~Pending(r.agenda, "connected")
  BY <1>1 DEF Quiet, Launching
<1> HIDE DEF p, Queue
<1>12. ASSUME NEW u \in Seq(Request), StartIn(u) => StartIn(k.queue),
              OneStart(k.queue) => OneStart(u), NEW t,
              t.core = r.core, t.client = Queue(u),
              \A f : f \notin {"stop", "drain", "enqueue", "finished"} =>
                        (Pending(t.agenda, f) <=> Pending(r.agenda, f)),
              StartIn(u) => Pending(t.agenda, "drain"),
              Failing(t.agenda) => Failing(r.agenda) \/ (StartIn(k.queue) /\ ~StartIn(u)),
              StartIn(k.queue) \/ (OneFailing(r.agenda) => OneFailing(t.agenda)),
              ~Failing(r.agenda) => OneFailing(t.agenda)
       PROVE  Linked(h, t) /\ (o \/ Timely(h, t))
  <2>1. \A f : f \notin {"stop", "drain", "enqueue", "finished"} =>
                        (Pending(t.agenda, f) <=> Pending(s.agenda, f))
    BY <1>9, <1>12
  <2>2. ~Launching(t.agenda) /\ ~Pending(t.agenda, "start") /\ ~Pending(t.agenda, "readAnswer")
        /\ ~Pending(t.agenda, "failRequests") /\ ~Pending(t.agenda, "connected")
        /\ (Aborting(t.agenda) <=> Aborting(s.agenda))
    BY <1>11, <1>12, <2>1 DEF Launching, Aborting
  <2>3. Linked(h, t)
    BY <1>1, <1>5, <1>12, <2>2 DEF Linked
  <2>4. ASSUME ~o PROVE Timely(h, t)
    <3>1. Timely(h, s) /\ (GoneIn(h, t) <=> GoneIn(h, s))
      BY <1>1, <1>5, <1>12, <2>2, <2>4 DEF GoneIn
    <3>2. /\ StartOut(t.client) => StartOut(s.client)
          /\ t.client.active = s.client.active /\ t.client.queue = u
          /\ t.client.inbox = s.client.inbox /\ t.client.answer = s.client.answer
      BY <1>1, <1>5, <1>12 DEF StartOut
    <3>3. StartIn(k.queue) => ~Failing(s.agenda) /\ StartOut(s.client) /\ k.active.op # "start"
      BY <1>1, <3>1 DEF Timely, StartOut
    <3>4. StartOut(t.client) => ~Failing(t.agenda)
      BY <1>1, <1>10, <1>12, <3>1, <3>2, <3>3 DEF Timely, StartOut
    <3>5. OneFailing(t.agenda)
      BY <1>10, <1>12, <3>1, <3>3 DEF Timely
    <3>6. StartIn(u) \/ t.client.inbox.op = "start" \/ Failing(t.agenda) => GoneIn(h, t)
      BY <1>1, <1>10, <1>12, <3>1, <3>2 DEF Timely
    <3>7. StartOut(t.client) => /\ \/ t.core.serviceActive \/ Pending(t.agenda, "close")
                                   \/ Pending(t.agenda, "failRequests")
      BY <1>1, <1>12, <2>1, <3>1, <3>2 DEF Timely
    <3> QED
      BY <1>1, <1>12, <2>2, <3>1, <3>2, <3>4, <3>5, <3>6, <3>7 DEF Timely
  <2> QED
    BY <2>3, <2>4
<1>13. CASE k.queue = <<>>
  <2> DEFINE y == EnqueueItem("stop")
             t == Push([r EXCEPT !.client = Queue(p)], <<y>>)
  <2>1. Call(s) = t
    BY <1>6, <1>8, <1>13 DEF StopCore
  <2>2. y \in Item /\ y.do = "enqueue" /\ ~Failure(y)
    BY Items DEF Failure
  <2> HIDE DEF y
  <2>3. /\ Formed(t, n) /\ Ordered(t.agenda) /\ t.client = Queue(p) /\ t.core = r.core
        /\ \A f : Pending(t.agenda, f) <=> (y.do = f \/ Pending(r.agenda, f))
        /\ Failing(t.agenda) <=> (Failure(y) \/ Failing(r.agenda))
        /\ OneFailing(r.agenda) /\ ~(Failure(y) /\ Failing(r.agenda)) => OneFailing(t.agenda)
    BY <1>1, <1>5, <1>7, <2>2, PushedOne
  <2> HIDE DEF t
  <2>4. ~Failing(r.agenda) => OneFailing(r.agenda)
    BY DEF Failing, OneFailing
  <2>5. Linked(h, t) /\ (o \/ Timely(h, t))
    BY <1>7, <1>12, <2>2, <2>3, <2>4
  <2> QED
    BY <2>1, <2>3, <2>5 DEF Sound
<1>14. CASE k.queue # <<>>
  <2> DEFINE b == Tail(k.queue)
  <2>1. /\ request \in Request /\ b \in Seq(Request)
        /\ StartIn(k.queue) <=> (request.op = "start" \/ StartIn(b))
        /\ OneStart(k.queue) => OneStart(b) /\ ~(request.op = "start" /\ StartIn(b))
    BY <1>4, <1>14, FirstRequest
  <2>2. ~Failing(r.agenda) => OneFailing(r.agenda)
    BY DEF Failing, OneFailing
  <2>3. Call(s) = CASE request.op = "start" ->
                         Push([r EXCEPT !.client.queue = Tail(@)],
                              <<Finished("start", FALSE), Drain(p)>>)
                    [] request.op = "status" ->
                         Push([r EXCEPT !.client.queue = Tail(@)], <<Drain(p)>>)
                    [] request.op = "stop" ->
                         Push([r EXCEPT !.client.queue = Tail(@)],
                              <<Drain(Append(p, request))>>)
    BY <1>8, <1>14 DEF StopCore
  <2>4. [r EXCEPT !.client.queue = Tail(@)] = [r EXCEPT !.client = Queue(b)]
    BY <1>6
  <2> HIDE DEF b, request
  <2>5. request.op \in {"start", "stop", "status"}
    BY <2>1 DEF Request, Op
  <2>6. CASE request.op = "start"
    <3> DEFINE y == Finished("start", FALSE)
               z == Drain(p)
               t == Push([r EXCEPT !.client = Queue(b)], <<y, z>>)
    <3>1. Call(s) = t
      BY <2>3, <2>4, <2>6
    <3>2. /\ y \in Item /\ y.do = "finished" /\ Failure(y)
          /\ z \in Item /\ z.do = "drain" /\ ~Failure(z)
      BY <1>3, Items DEF Failure, Op
    <3> HIDE DEF y, z
    <3>3. Quiet(<<z>>)
      BY <3>2, OneItem DEF Quiet
    <3>4. /\ Formed(t, n) /\ Ordered(t.agenda) /\ t.client = Queue(b) /\ t.core = r.core
          /\ \A f : Pending(t.agenda, f) <=> (y.do = f \/ z.do = f \/ Pending(r.agenda, f))
          /\ Failing(t.agenda) <=> (Failure(y) \/ Failure(z) \/ Failing(r.agenda))
          /\ OneFailing(r.agenda) /\ ~(Failure(y) /\ Failure(z))
                /\ ((Failure(y) \/ Failure(z)) => ~Failing(r.agenda)) => OneFailing(t.agenda)
      BY <1>1, <1>5, <2>1, <3>2, <3>3, PushedTwo
    <3> HIDE DEF t
    <3>5. Formed(t, n) /\ Ordered(t.agenda)
      BY <3>4
    <3>6. CASE ~o
      <4>1. ~StartIn(b)
        BY <1>1, <2>1, <2>6, <3>6 DEF Timely
      <4>2. Linked(h, t) /\ (o \/ Timely(h, t))
        BY <1>12, <2>1, <2>2, <2>6, <3>2, <3>4, <4>1
      <4> QED
        BY <3>1, <3>5, <4>2 DEF Sound
    <3>7. CASE o
      <4>1. Linked(h, t)
        <5>1. \A f : f \notin {"stop", "drain", "enqueue", "finished"} =>
                        (Pending(t.agenda, f) <=> Pending(s.agenda, f))
          BY <1>9, <3>2, <3>4
        <5>2. ~Pending(t.agenda, "readAnswer")
              /\ ~Pending(t.agenda, "failRequests") /\ ~Pending(t.agenda, "connected")
              /\ (Aborting(t.agenda) <=> Aborting(s.agenda))
          BY <1>11, <1>9, <5>1 DEF Aborting
        <5> QED
          BY <1>1, <1>5, <2>1, <3>4, <5>2 DEF Linked
      <4> QED
        BY <3>1, <3>5, <3>7, <4>1 DEF Sound
    <3> QED
      BY <3>6, <3>7
  <2>7. CASE request.op # "start"
    <3> DEFINE z == Drain(IF request.op = "stop" THEN Append(p, request) ELSE p)
               t == Push([r EXCEPT !.client = Queue(b)], <<z>>)
    <3>1. Call(s) = t
      BY <2>3, <2>4, <2>5, <2>7
    <3>2. z \in Item /\ z.do = "drain" /\ ~Failure(z)
      BY <1>3, <1>7, <2>1, Items DEF Failure
    <3> HIDE DEF z
    <3>3. /\ Formed(t, n) /\ Ordered(t.agenda) /\ t.client = Queue(b) /\ t.core = r.core
          /\ \A f : Pending(t.agenda, f) <=> (z.do = f \/ Pending(r.agenda, f))
          /\ Failing(t.agenda) <=> (Failure(z) \/ Failing(r.agenda))
          /\ OneFailing(r.agenda) /\ ~(Failure(z) /\ Failing(r.agenda)) => OneFailing(t.agenda)
      BY <1>1, <1>5, <2>1, <3>2, PushedOne
    <3> HIDE DEF t
    <3>4. Linked(h, t) /\ (o \/ Timely(h, t))
      BY <1>12, <2>1, <2>2, <2>7, <3>2, <3>3
    <3> QED
      BY <3>1, <3>3, <3>4 DEF Sound
  <2> QED
    BY <2>6, <2>7
<1> QED
  BY <1>13, <1>14

\* The requests that have neither been answered nor failed.
Unanswered(k) == (IF k.active = NoCall THEN <<>> ELSE <<k.active>>) \o k.queue
\* Their failures, as failRequests() reports them.
Failures(k) ==
    [i \in DOMAIN Unanswered(k) |-> Finished(Unanswered(k)[i].op, FALSE)]

\* Failing every request answers each one, a start at most once.
LEMMA FailuresAre ==
    ASSUME NEW k \in ClientRec
    PROVE  LET u == Failures(k) IN
           /\ u \in Seq(Item) /\ Quiet(u)
           /\ \A d : Pending(u, d) => d = "finished"
           /\ \A n : Bounded(u, n)
           /\ Failing(u) <=> StartOut(k)
           /\ OneStart(k.queue) /\ (k.active.op = "start" => ~StartIn(k.queue))
                 => OneFailing(u)
<1> DEFINE f == Unanswered(k)
           u == Failures(k)
           q == k.queue
           z == IF k.active = NoCall THEN 0 ELSE 1
<1>1. q \in Seq(Request) /\ Len(q) \in Nat /\ k.active \in Request \cup {NoCall}
  BY DEF ClientRec
<1>2. /\ f \in Seq(Request) /\ Len(f) = z + Len(q)
      /\ \A i \in 1..Len(f) : f[i] = IF i <= z THEN k.active ELSE q[i - z]
  <2>1. CASE k.active = NoCall
    <3>1. f = <<>> \o q
      BY <2>1 DEF Unanswered
    <3>2. <<>> \o q = q
      BY <1>1, ConcatEmptySeq
    <3>3. \A i \in 1..Len(q) : ~(i <= 0) /\ i - 0 = i
      BY <1>1
    <3> HIDE DEF f
    <3> QED
      BY <1>1, <2>1, <3>1, <3>2, <3>3
  <2>2. CASE k.active # NoCall
    <3>1. f = <<k.active>> \o q /\ k.active \in Request
      BY <1>1, <2>2 DEF Unanswered
    <3>2. <<k.active>> \in Seq(Request) /\ Len(<<k.active>>) = 1
          /\ \A i \in 1..1 : <<k.active>>[i] = k.active
      BY <3>1
    <3> HIDE DEF f
    <3>3. /\ f \in Seq(Request) /\ Len(f) = 1 + Len(q)
          /\ \A i \in 1..(1 + Len(q)) :
                f[i] = IF i <= 1 THEN <<k.active>>[i] ELSE q[i - 1]
      BY <1>1, <3>1, <3>2, ConcatProperties
    <3> QED
      BY <1>1, <2>2, <3>2, <3>3
  <2> QED
    BY <2>1, <2>2
<1> HIDE DEF f, u
<1>15. Len(f) \in Nat /\ DOMAIN f = 1..Len(f) /\ \A i \in 1..Len(f) : f[i] \in Request
  <2>1. f \in Seq(Request)
    BY <1>2
  <2> QED
    BY <2>1
<1>3. \A i \in 1..Len(f) : f[i] \in Request /\ f[i].op \in Op
  BY <1>15 DEF Request
<1>16. z \in {0, 1} /\ (k.active.op = "start" => z = 1)
  BY DEF NoCall
<1> HIDE DEF z
<1>4. u = [i \in 1..Len(f) |-> Finished(f[i].op, FALSE)]
  BY <1>15 DEF Failures, f, u
<1>5. \A i \in 1..Len(f) : /\ Finished(f[i].op, FALSE) \in Item
                           /\ Finished(f[i].op, FALSE).do = "finished"
                           /\ Finished(f[i].op, FALSE).op = f[i].op
                           /\ Finished(f[i].op, FALSE).ok = FALSE
  BY <1>3, Items
<1>6. u \in Seq(Item) /\ Len(u) = Len(f)
  <2>1. \A i \in 1..Len(f) : u[i] \in Item
    BY <1>4, <1>5
  <2>2. u = [i \in 1..Len(f) |-> u[i]]
    BY <1>4
  <2> QED
    BY <1>15, <2>1, <2>2
<1>7. \A i \in 1..Len(u) : u[i].do = "finished" /\ u[i].op = f[i].op /\ u[i].ok = FALSE
  BY <1>4, <1>5, <1>6
<1>8. \A i \in 1..Len(u) : Failure(u[i]) <=> f[i].op = "start"
  BY <1>7 DEF Failure
<1>9. (\A d : Pending(u, d) => d = "finished") /\ (\A n : Bounded(u, n)) /\ Quiet(u)
  BY <1>7 DEF Pending, Bounded, Quiet
<1>10. \A i \in 1..Len(u) : \/ i <= z /\ i = 1 /\ z = 1 /\ f[i] = k.active
                            \/ i - z \in 1..Len(q) /\ f[i] = q[i - z] /\ i > z
  BY <1>1, <1>2, <1>6, <1>15, <1>16
<1>11. \A i \in 1..Len(q) : i + z \in 1..Len(u) /\ f[i + z] = q[i]
  <2> TAKE i \in 1..Len(q)
  <2>1. i + z \in 1..Len(u) /\ ~(i + z <= z) /\ (i + z) - z = i
    BY <1>1, <1>2, <1>6, <1>16
  <2> QED
    BY <1>2, <1>6, <2>1
<1>12. k.active.op = "start" => z = 1 /\ 1 \in 1..Len(u) /\ f[1] = k.active
  BY <1>1, <1>2, <1>6, <1>16
<1>13. Failing(u) <=> StartOut(k)
  <2>1. Failing(u) => StartOut(k)
    BY <1>8, <1>10 DEF Failing, StartOut, StartIn
  <2>2. k.active.op = "start" => Failing(u)
    BY <1>8, <1>12 DEF Failing
  <2>3. StartIn(q) => Failing(u)
    BY <1>8, <1>11 DEF Failing, StartIn
  <2> QED
    BY <2>1, <2>2, <2>3 DEF StartOut
<1>14. ASSUME OneStart(q), k.active.op = "start" => ~StartIn(q)
       PROVE  OneFailing(u)
  <2>1. ASSUME NEW i \in 1..Len(u), NEW j \in 1..Len(u),
               f[i].op = "start", f[j].op = "start"
        PROVE  i = j
    <3>1. CASE i <= z /\ j <= z
      BY <1>10, <1>16, <3>1
    <3>2. CASE i > z /\ j > z
      <4>1. i - z \in 1..Len(q) /\ j - z \in 1..Len(q) /\ f[i] = q[i - z] /\ f[j] = q[j - z]
        BY <1>10, <1>16, <3>2
      <4>2. i - z = j - z
        BY <1>14, <2>1, <4>1 DEF OneStart
      <4> QED
        BY <1>16, <4>2
    <3>3. CASE i <= z /\ j > z
      <4>1. f[i] = k.active /\ j - z \in 1..Len(q) /\ f[j] = q[j - z]
        BY <1>10, <1>16, <3>3
      <4> QED
        BY <1>14, <2>1, <4>1 DEF StartIn
    <3>4. CASE i > z /\ j <= z
      <4>1. f[j] = k.active /\ i - z \in 1..Len(q) /\ f[i] = q[i - z]
        BY <1>10, <1>16, <3>4
      <4> QED
        BY <1>14, <2>1, <4>1 DEF StartIn
    <3> QED
      BY <1>6, <1>15, <1>16, <3>1, <3>2, <3>3, <3>4
  <2> QED
    BY <1>8, <2>1 DEF OneFailing
<1> QED
  BY <1>6, <1>9, <1>13, <1>14 DEF u

\* Every request fails, and each says so.
LEMMA FailRequestsKeeps ==
    ASSUME NEW h, NEW n \in Nat, NEW o \in BOOLEAN, NEW s, Sound(h, s, n, o), s.agenda # <<>>,
           Head(s.agenda).do = "failRequests"
    PROVE  Sound(h, Call(s), n, o)
<1> DEFINE r == Rest(s)
           x == Head(s.agenda)
           k == r.client
           l == [k EXCEPT !.active = NoCall, !.queue = <<>>]
           u == Failures(k)
           q == [r EXCEPT !.client = l]
           t == Push(q, u)
<1>1. /\ Formed(r, n) /\ Quiet(r.agenda) /\ r.agenda \in Seq(Item)
      /\ Call(s) = Perform(r, x) /\ k \in ClientRec /\ k = s.client /\ r.core = s.core
      /\ Splits(s.agenda, x, r.agenda) /\ Linked(h, s) /\ (o \/ Timely(h, s))
  BY RestIs
<1>2. x.do = "failRequests"
  OBVIOUS
<1> HIDE DEF r, x
<1>3. r \in Session
  BY <1>1 DEF Formed
<1>4. Call(s) = t
  BY <1>1, <1>2 DEF Perform, FailRequests, Failures, Unanswered
<1>5. /\ l \in ClientRec /\ l.link = k.link /\ l.hungup = k.hungup /\ l.inbox = k.inbox
      /\ l.answer = k.answer /\ l.active = NoCall /\ l.queue = <<>>
  <2>1. <<>> \in Seq(Request)
    OBVIOUS
  <2> QED
    BY <1>1, <2>1 DEF ClientRec
<1> HIDE DEF l
<1>6. /\ u \in Seq(Item) /\ Quiet(u)
      /\ \A d : Pending(u, d) => d = "finished"
      /\ \A m : Bounded(u, m)
      /\ Failing(u) <=> StartOut(k)
      /\ OneStart(k.queue) /\ (k.active.op = "start" => ~StartIn(k.queue)) => OneFailing(u)
  BY <1>1, FailuresAre
<1> HIDE DEF u
<1>7. q \in Session /\ q.core = r.core /\ q.client = l /\ q.agenda = r.agenda
  BY <1>3, <1>5, WithClient
<1> HIDE DEF q
<1>8. t \in Session /\ t.core = r.core /\ t.client = l /\ t.agenda = u \o r.agenda
  BY <1>6, <1>7, PushIs
<1> HIDE DEF t
<1>9. /\ \A f : Pending(t.agenda, f) <=> (Pending(u, f) \/ Pending(r.agenda, f))
      /\ Failing(t.agenda) <=> (Failing(u) \/ Failing(r.agenda))
      /\ OneFailing(u) /\ OneFailing(r.agenda) /\ ~(Failing(u) /\ Failing(r.agenda))
             => OneFailing(t.agenda)
      /\ Bounded(r.agenda, n) => Bounded(t.agenda, n)
      /\ Ordered(t.agenda)
  BY <1>1, <1>6, <1>8, ConcatPending, PushOrdered
<1>10. Formed(t, n)
  BY <1>1, <1>8, <1>9 DEF Formed
<1>11. \A f : f \notin {"finished", "failRequests"} =>
                 (Pending(t.agenda, f) <=> Pending(s.agenda, f))
  BY <1>1, <1>2, <1>6, <1>9 DEF Splits
<1>12. /\ ~Launching(t.agenda) /\ ~Pending(t.agenda, "start")
       /\ ~Pending(t.agenda, "readAnswer") /\ ~Pending(t.agenda, "connected")
       /\ ~Pending(t.agenda, "failRequests") /\ Pending(s.agenda, "failRequests")
       /\ (Aborting(t.agenda) <=> Aborting(s.agenda))
  BY <1>1, <1>2, <1>6, <1>9, <1>11 DEF Launching, Aborting, Quiet, Splits
<1>13. Linked(h, t)
  BY <1>1, <1>5, <1>8, <1>12 DEF Linked
<1>14. ASSUME ~o PROVE Timely(h, t)
  <2>1. Timely(h, s) /\ GoneIn(h, s) /\ GoneIn(h, t)
    BY <1>1, <1>5, <1>8, <1>12, <1>14 DEF GoneIn, Linked
  <2>2. ~StartOut(l) /\ OneStart(l.queue) /\ ~StartIn(l.queue)
    BY <1>5, NoRequest DEF StartOut, NoCall
  <2>3. OneFailing(t.agenda)
    BY <1>1, <1>6, <1>9, <2>1 DEF Timely, Splits
  <2> QED
    BY <1>1, <1>8, <1>12, <2>1, <2>2, <2>3, <1>5 DEF Timely, NoCall, StartOut
<1> QED
  BY <1>4, <1>9, <1>10, <1>13, <1>14 DEF Sound

\* Agendas of three items are one item and two,
LEMMA TripleIs ==
    ASSUME NEW w \in Item, NEW y \in Item, NEW z \in Item
    PROVE  <<w, y, z>> = <<w>> \o <<y, z>>
<1> DEFINE e == <<w, y, z>>
           f == <<w>> \o <<y, z>>
<1>1. /\ <<w>> \in Seq(Item) /\ <<y, z>> \in Seq(Item) /\ e \in Seq(Item)
      /\ Len(e) = 3 /\ Len(<<w>>) = 1 /\ Len(<<y, z>>) = 2
      /\ <<w>>[1] = w /\ <<y, z>>[1] = y /\ <<y, z>>[2] = z
      /\ e[1] = w /\ e[2] = y /\ e[3] = z
  OBVIOUS
<1>2. /\ f \in Seq(Item) /\ Len(f) = 3
      /\ \A i \in 1..3 : f[i] = IF i <= 1 THEN <<w>>[i] ELSE <<y, z>>[i - 1]
  BY <1>1, ConcatProperties
<1>3. f[1] = w /\ f[2] = y /\ f[3] = z
  BY <1>1, <1>2
<1> HIDE DEF e, f
<1>4. \A i \in 1..3 : e[i] = f[i]
  BY <1>1, <1>3
<1>5. e = [i \in 1..Len(e) |-> e[i]] /\ f = [i \in 1..Len(f) |-> f[i]]
  BY <1>1, <1>2
<1>6. e = f
  BY <1>1, <1>2, <1>4, <1>5
<1> QED
  BY <1>6 DEF e, f

\* and may start from none or one.
LEMMA PairIs ==
    ASSUME NEW y \in Item, NEW z \in Item
    PROVE  /\ <<>> \o <<y, z>> = <<y, z>>
           /\ \A w \in Item : <<w>> \o <<y, z>> = <<w, y, z>>
<1>1. <<y, z>> \in Seq(Item)
  OBVIOUS
<1> QED
  BY <1>1, TripleIs, ConcatEmptySeq

\* Three calls of readAnswer() before a quiet agenda.
LEMMA ThreeOnto ==
    ASSUME NEW b \in Seq(Item), Quiet(b), NEW w \in Item, NEW y \in Item, NEW z \in Item,
           w.do # "disconnected", y.do = "finished", z.do = "sendNext"
    PROVE  LET a == <<w, y, z>> \o b IN
           /\ a \in Seq(Item) /\ Ordered(a)
           /\ w.do # "validate" => \A n : Bounded(b, n) => Bounded(a, n)
           /\ \A d : Pending(a, d) <=> (w.do = d \/ y.do = d \/ z.do = d \/ Pending(b, d))
           /\ Failing(a) <=> (Failure(w) \/ Failure(y) \/ Failing(b))
           /\ OneFailing(b) /\ ~Failure(w) /\ (Failure(y) => ~Failing(b)) => OneFailing(a)
<1> DEFINE v == <<y, z>> \o b
           a == <<w>> \o v
<1>1. ~Failure(z)
  BY DEF Failure
<1>2. <<w>> \in Seq(Item) /\ <<y, z>> \in Seq(Item) /\ <<z>> \in Seq(Item)
  OBVIOUS
<1>3. /\ v \in Seq(Item)
      /\ \A d : Pending(v, d) <=> (y.do = d \/ z.do = d \/ Pending(b, d))
      /\ Failing(v) <=> (Failure(y) \/ Failing(b))
      /\ OneFailing(b) /\ (Failure(y) => ~Failing(b)) => OneFailing(v)
      /\ \A n : Bounded(b, n) => Bounded(v, n)
  <2>1. \A d : Pending(<<y, z>>, d) <=> (y.do = d \/ z.do = d)
    BY TwoItems
  <2>2. /\ Failing(<<y, z>>) <=> Failure(y)
        /\ OneFailing(<<y, z>>) /\ \A n : Bounded(<<y, z>>, n)
    BY <1>1, TwoItems
  <2> QED
    BY <1>2, <2>1, <2>2, ConcatPending, ConcatAt
<1>4. Quiet(v)
  BY <1>3 DEF Quiet
<1>5. <<w, y, z>> \o b = a
  <2>1. <<w, y, z>> = <<w>> \o <<y, z>>
    BY TripleIs
  <2>2. (<<w>> \o <<y, z>>) \o b = <<w>> \o (<<y, z>> \o b)
    BY <1>2, ConcatAssociative
  <2> QED
    BY <2>1, <2>2
<1> HIDE DEF v
<1>6. /\ \A d : Pending(a, d) <=> (w.do = d \/ Pending(v, d))
      /\ Failing(a) <=> (Failure(w) \/ Failing(v))
      /\ OneFailing(v) /\ ~(Failure(w) /\ Failing(v)) => OneFailing(a)
      /\ \A n : (w.do = "validate" => w.request <= n) /\ Bounded(v, n) => Bounded(a, n)
      /\ Ordered(a) /\ a \in Seq(Item)
  BY <1>3, <1>4, PushOne
<1> HIDE DEF a
<1> QED
  BY <1>3, <1>5, <1>6

\* The answer is announced before the request is finished.
LEMMA ReadAnswerKeeps ==
    ASSUME NEW h, NEW n \in Nat, NEW o \in BOOLEAN, NEW s, Sound(h, s, n, o), s.agenda # <<>>,
           Head(s.agenda).do = "readAnswer"
    PROVE  Sound(h, Call(s), n, o)
<1> DEFINE r == Rest(s)
           x == Head(s.agenda)
           k == r.client
           op == k.active.op
           answer == k.answer
           l == [k EXCEPT !.active = NoCall, !.answer = NoCall]
           q == [r EXCEPT !.client = l]
           y == Finished(op, answer.ok)
           z == Do("sendNext")
           w == IF op = "start" THEN CoreStarted(answer.endpoint)
                ELSE IF op = "stop" THEN Do("coreStopped")
                ELSE Status(answer.state)
           u == IF answer.ok THEN <<w, y, z>> ELSE <<y, z>>
           t == Push(q, u)
<1>1. /\ Formed(r, n) /\ Quiet(r.agenda) /\ r.agenda \in Seq(Item)
      /\ Call(s) = Perform(r, x) /\ k \in ClientRec /\ k = s.client /\ r.core = s.core
      /\ Splits(s.agenda, x, r.agenda) /\ Linked(h, s) /\ (o \/ Timely(h, s))
  BY RestIs
<1>2. Linked(h, r) /\ (o \/ Timely(h, r))
  BY RestSound
<1>3. x.do = "readAnswer"
  OBVIOUS
<1> HIDE DEF r, x
<1>4. r \in Session
  BY <1>1 DEF Formed
<1>5. Pending(s.agenda, "readAnswer")
  BY <1>1, <1>3 DEF Splits
<1>6. /\ answer # NoCall /\ ~Aborting(s.agenda) /\ ~Aborting(r.agenda)
      /\ k.active # NoCall /\ k.inbox = NoCall
  BY <1>1, <1>3, <1>5 DEF Linked, Aborting, Splits
<1>7. /\ op \in Op /\ answer.ok \in BOOLEAN /\ answer.endpoint \in Nat
      /\ answer.state \in {"running", "stopped"} /\ k.active \in Request
  BY <1>1, <1>6 DEF ClientRec, Request
<1>8. /\ l \in ClientRec /\ l.link = k.link /\ l.hungup = k.hungup /\ l.inbox = NoCall
      /\ l.answer = NoCall /\ l.active = NoCall /\ l.queue = k.queue
  BY <1>1, <1>6 DEF ClientRec
<1>9. q \in Session /\ q.core = r.core /\ q.client = l /\ q.agenda = r.agenda
  BY <1>4, <1>8, WithClient
<1>20. y \in Item /\ z \in Item /\ w \in Item
  BY <1>7, Items
<1>10. Call(s) = t
  <2>1. [r EXCEPT !.client.active = NoCall, !.client.answer = NoCall] = q
    BY <1>4 DEF Session
  <2>2. Call(s) = ReadAnswer(r)
    BY <1>1, <1>3 DEF Perform
  <2>3. CASE ~answer.ok
    <3>1. <<>> \o <<y, z>> = <<y, z>>
      BY <1>20, PairIs
    <3>2. ReadAnswer(r) = Push([r EXCEPT !.client.active = NoCall, !.client.answer = NoCall],
                               <<>> \o <<y, z>>)
      BY <2>3 DEF ReadAnswer
    <3> QED
      BY <2>1, <2>2, <2>3, <3>1, <3>2
  <2>4. CASE answer.ok
    <3>1. <<w>> \o <<y, z>> = <<w, y, z>>
      BY <1>20, PairIs
    <3>2. ReadAnswer(r) = Push([r EXCEPT !.client.active = NoCall, !.client.answer = NoCall],
                               <<w>> \o <<y, z>>)
      BY <1>7, <2>4 DEF ReadAnswer, Op
    <3> QED
      BY <2>1, <2>2, <2>4, <3>1, <3>2
  <2> QED
    BY <2>3, <2>4
<1>11. /\ y \in Item /\ y.do = "finished" /\ (Failure(y) <=> op = "start" /\ ~answer.ok)
       /\ z \in Item /\ z.do = "sendNext" /\ ~Failure(z)
       /\ w \in Item /\ w.do \in {"coreStarted", "coreStopped", "status"} /\ ~Failure(w)
       /\ (w.do = "coreStopped" <=> op = "stop")
  <2>1. y \in Item /\ y.do = "finished" /\ y.op = op /\ y.ok = answer.ok
    BY <1>7, Items
  <2>2. z \in Item /\ z.do = "sendNext"
    BY Items
  <2>3. /\ w \in Item
        /\ w.do = IF op = "start" THEN "coreStarted"
                  ELSE IF op = "stop" THEN "coreStopped" ELSE "status"
    BY <1>7, Items
  <2> HIDE DEF w, y, z
  <2> QED
    BY <2>1, <2>2, <2>3 DEF Failure
<1> HIDE DEF l, q, w, y, z
<1>12. u \in Seq(Item)
  BY <1>11
<1>13. t \in Session /\ t.core = r.core /\ t.client = l /\ t.agenda = u \o r.agenda
  <2> HIDE DEF u
  <2> QED
    BY <1>9, <1>12, PushIs
<1> HIDE DEF t
<1>14. /\ Ordered(t.agenda) /\ (Bounded(r.agenda, n) => Bounded(t.agenda, n))
       /\ \A d : Pending(t.agenda, d) <=>
             ((answer.ok /\ w.do = d) \/ y.do = d \/ z.do = d \/ Pending(r.agenda, d))
       /\ Failing(t.agenda) <=> (Failure(y) \/ Failing(r.agenda))
       /\ OneFailing(r.agenda) /\ (Failure(y) => ~Failing(r.agenda)) => OneFailing(t.agenda)
  <2>1. CASE answer.ok
    <3>1. t.agenda = <<w, y, z>> \o r.agenda
      BY <1>13, <2>1
    <3>2. LET a == <<w, y, z>> \o r.agenda IN
          /\ Ordered(a)
          /\ \A m : Bounded(r.agenda, m) => Bounded(a, m)
          /\ \A d : Pending(a, d) <=> (w.do = d \/ y.do = d \/ z.do = d \/ Pending(r.agenda, d))
          /\ Failing(a) <=> (Failure(w) \/ Failure(y) \/ Failing(r.agenda))
          /\ OneFailing(r.agenda) /\ ~Failure(w) /\ (Failure(y) => ~Failing(r.agenda))
                => OneFailing(a)
      <4>1. r.agenda \in Seq(Item) /\ Quiet(r.agenda)
        BY <1>1
      <4>2. w.do # "disconnected" /\ w.do # "validate"
        BY <1>11
      <4> QED
        BY <1>11, <4>1, <4>2, ThreeOnto
    <3> QED
      BY <1>11, <2>1, <3>1, <3>2
  <2>2. CASE ~answer.ok
    <3>1. t.agenda = <<y, z>> \o r.agenda
      BY <1>13, <2>2
    <3>2. LET a == <<y, z>> \o r.agenda IN
          /\ Ordered(a)
          /\ \A d : Pending(a, d) <=> (y.do = d \/ z.do = d \/ Pending(r.agenda, d))
          /\ Failing(a) <=> (Failure(y) \/ Failure(z) \/ Failing(r.agenda))
          /\ OneFailing(r.agenda) /\ ~(Failure(y) /\ Failure(z))
                 /\ ((Failure(y) \/ Failure(z)) => ~Failing(r.agenda)) => OneFailing(a)
          /\ \A m : Bounded(r.agenda, m) => Bounded(a, m)
      <4>1. r.agenda \in Seq(Item) /\ Quiet(r.agenda)
        BY <1>1
      <4>2. /\ y.do # "disconnected" /\ y.do # "validate" /\ z.do # "validate"
            /\ Quiet(<<z>>)
        BY <1>11, OneItem DEF Quiet
      <4> QED
        BY <1>11, <4>1, <4>2, PushTwo
    <3> QED
      BY <1>11, <2>2, <3>1, <3>2
  <2> QED
    BY <2>1, <2>2
<1>15. Formed(t, n)
  BY <1>1, <1>13, <1>14 DEF Formed
<1>16. \A f : f \notin {"coreStarted", "coreStopped", "status", "finished", "sendNext"} =>
                 (Pending(t.agenda, f) <=> Pending(r.agenda, f))
  BY <1>11, <1>14
<1>17. /\ ~Pending(t.agenda, "start") /\ ~Pending(t.agenda, "readAnswer")
       /\ ~Pending(t.agenda, "connected") /\ ~Pending(t.agenda, "failRequests")
       /\ (Aborting(t.agenda) <=> Aborting(r.agenda))
       /\ (Launching(t.agenda) <=> answer.ok /\ op = "stop")
  BY <1>1, <1>11, <1>14, <1>16 DEF Quiet, Aborting, Launching
<1>18. Linked(h, t)
  BY <1>2, <1>8, <1>13, <1>17 DEF Linked
<1>19. ASSUME ~o PROVE Timely(h, t)
  <2>1. Timely(h, s) /\ Timely(h, r) /\ (GoneIn(h, t) <=> GoneIn(h, r))
    BY <1>1, <1>2, <1>8, <1>13, <1>17, <1>19 DEF GoneIn
  <2>2. ~Failing(r.agenda) /\ (op = "stop" => ~StartIn(k.queue)) /\ OneFailing(r.agenda)
    BY <1>1, <1>5, <2>1 DEF Timely, Splits
  <2>3. StartOut(l) <=> StartIn(k.queue)
    BY <1>8 DEF StartOut, NoCall
  <2>4. Failing(t.agenda) \/ Launching(t.agenda) => GoneIn(h, r)
    BY <1>6, <1>11, <1>14, <1>17, <2>1, <2>2 DEF Timely
  <2>5. StartIn(k.queue) => ~Failing(t.agenda) /\ ~Launching(t.agenda)
    BY <1>11, <1>14, <1>17, <2>1, <2>2 DEF Timely, StartOut
  <2>6. OneFailing(t.agenda) /\ ~(Failing(t.agenda) /\ Launching(t.agenda))
    BY <1>11, <1>14, <1>17, <2>2
  <2>7. StartIn(k.queue) => r.core.serviceActive \/ Pending(t.agenda, "close")
                               \/ Pending(t.agenda, "failRequests")
    BY <1>16, <2>1 DEF Timely, StartOut
  <2>8. StartIn(k.queue) => ~r.core.serviceStopping \/ Pending(t.agenda, "stop")
                               \/ Pending(t.agenda, "drain")
    BY <1>16, <2>1 DEF Timely
  <2>9. l.inbox.op # "start" /\ l.active.op # "start"
    BY <1>8 DEF NoCall
  <2> QED
    BY <1>8, <1>13, <1>17, <2>1, <2>3, <2>4, <2>5, <2>6, <2>7, <2>8, <2>9 DEF Timely
<1> QED
  BY <1>10, <1>14, <1>15, <1>18, <1>19 DEF Sound

\* The order of the natural numbers is well-founded,
LEMMA NatLess == IsWellFoundedOn({p \in Nat \X Nat : p[1] < p[2]}, Nat)
BY NatLessThanWellFounded DEF OpToRel

\* so a set that holds 0 and each successor of its numbers holds them all:
\* induction with the set in place of the predicate.
LEMMA SetInduction ==
    ASSUME NEW T, 0 \in T, \A n \in Nat : n \in T => n + 1 \in T
    PROVE  Nat \subseteq T
<1> DEFINE B == {n \in Nat : n \notin T}
           R == {p \in Nat \X Nat : p[1] < p[2]}
<1>1. SUFFICES ASSUME B # {} PROVE FALSE
  OBVIOUS
<1>2. PICK m \in B : \A y \in B : ~(<<y, m>> \in R)
  <2>1. IsWellFoundedOn(R, Nat) /\ B \subseteq Nat
    BY NatLess
  <2> HIDE DEF R, B
  <2> QED
    BY <1>1, <2>1, WFMin
<1>3. m # 0 /\ m \in Nat
  OBVIOUS
<1>4. m - 1 \in Nat /\ (m - 1) + 1 = m
  BY <1>3
<1>5. m - 1 \in T
  <2>1. SUFFICES ASSUME m - 1 \in B PROVE FALSE
    BY <1>4
  <2>2. <<m - 1, m>> \in R
    BY <1>3, <1>4
  <2> QED
    BY <1>2, <2>1, <2>2
<1> QED
  BY <1>3, <1>4, <1>5

\* What every call of an event keeps.
LEMMA CallKeeps ==
    ASSUME NEW h, NEW n \in Nat, NEW o \in BOOLEAN, NEW s, Sound(h, s, n, o)
    PROVE  Sound(h, Call(s), n, o)
<1>1. CASE s.agenda = <<>>
  BY <1>1 DEF Call
<1>2. CASE s.agenda # <<>>
  <2> DEFINE d == Head(s.agenda).do
  <2>1. d \in {"start", "stop", "connectToService", "connected", "sendNext",
               "failRequests", "failConnection", "abort", "close", "readAnswer",
               "coreStopped", "disconnected", "fail", "finished", "enqueue", "drain",
               "coreStarted", "status", "validate"}
    <3>1. Head(s.agenda) \in Item
      BY <1>2, RestIs
    <3> QED
      BY <3>1, ItemShapes
  <2>2. CASE d \in {"start", "enqueue"}
    BY <1>2, <2>2, StartKeeps
  <2>3. CASE d \in {"connectToService", "connected"}
    BY <1>2, <2>3, ConnectKeeps
  <2>4. CASE d \in {"close", "failConnection"}
    BY <1>2, <2>4, CutKeeps
  <2>5. CASE d \in {"stop", "drain"}
    BY <1>2, <2>5, StopKeeps
  <2>6. CASE d \in {"status", "fail"}
    BY <1>2, <2>6, StatusKeeps
  <2>7. CASE d = "sendNext"
    BY <1>2, <2>7, SendNextKeeps
  <2>8. CASE d = "failRequests"
    BY <1>2, <2>8, FailRequestsKeeps
  <2>9. CASE d = "abort"
    BY <1>2, <2>9, AbortKeeps
  <2>10. CASE d = "readAnswer"
    BY <1>2, <2>10, ReadAnswerKeeps
  <2>11. CASE d = "coreStopped"
    BY <1>2, <2>11, CoreStoppedKeeps
  <2>12. CASE d = "disconnected"
    BY <1>2, <2>12, DisconnectedKeeps
  <2>13. CASE d = "finished"
    BY <1>2, <2>13, FinishedKeeps
  <2>14. CASE d = "coreStarted"
    BY <1>2, <2>14, CoreStartedKeeps
  <2>15. CASE d = "validate"
    BY <1>2, <2>15, ValidateKeeps
  <2> HIDE DEF d
  <2> QED
    BY <2>1, <2>2, <2>3, <2>4, <2>5, <2>6, <2>7, <2>8, <2>9, <2>10, <2>11, <2>12,
       <2>13, <2>14, <2>15
<1> QED
  BY <1>1, <1>2

\* The calls of an event, one after the other.
IsTrace(f, s, m) ==
    f = [n \in 0 .. m |-> IF n = 0 THEN {s} ELSE {Call(t) : t \in f[n - 1]}]

\* The states of a run of the agenda exist as a function, for every MaxCalls.
LEMMA TraceExists ==
    ASSUME NEW s
    PROVE  \E f : IsTrace(f, s, MaxCalls)
<1> DEFINE T == {m \in Nat : \E f : IsTrace(f, s, m)}
<1>1. 0 \in T
  <2>1. IsTrace([n \in 0 .. 0 |-> {s}], s, 0)
    BY DEF IsTrace
  <2> QED
    BY <2>1
<1>2. ASSUME NEW m \in Nat, m \in T PROVE m + 1 \in T
  <2>1. PICK f : IsTrace(f, s, m)
    BY <1>2
  <2> DEFINE g == [n \in 0 .. m + 1 |-> IF n = m + 1 THEN {Call(t) : t \in f[m]} ELSE f[n]]
  <2>2. IsTrace(g, s, m + 1)
    <3>1. ASSUME NEW n \in 0 .. m + 1
          PROVE  g[n] = IF n = 0 THEN {s} ELSE {Call(t) : t \in g[n - 1]}
      <4>1. CASE n = m + 1
        <5>1. n - 1 = m /\ n - 1 \in 0 .. m + 1 /\ n - 1 # m + 1 /\ n # 0
          BY <4>1
        <5>2. g[n] = {Call(t) : t \in f[m]} /\ g[n - 1] = f[m]
          BY <4>1, <5>1
        <5> HIDE DEF g
        <5> QED
          BY <5>1, <5>2
      <4>2. CASE n # m + 1
        <5>1. n \in 0 .. m /\ (n # 0 => n - 1 \in 0 .. m + 1 /\ n - 1 # m + 1)
          BY <4>2
        <5>2. f[n] = IF n = 0 THEN {s} ELSE {Call(t) : t \in f[n - 1]}
          BY <2>1, <5>1 DEF IsTrace
        <5>3. g[n] = f[n] /\ (n # 0 => g[n - 1] = f[n - 1])
          BY <4>2, <5>1
        <5> HIDE DEF g
        <5> QED
          BY <5>2, <5>3
      <4> QED
        BY <4>1, <4>2
    <3>2. g = [n \in 0 .. m + 1 |-> g[n]]
      OBVIOUS
    <3> HIDE DEF g
    <3> QED
      BY <3>1, <3>2 DEF IsTrace
  <2> HIDE DEF g
  <2> QED
    BY <2>2
<1>3. MaxCalls \in T
  <2> HIDE DEF T
  <2> QED
    BY <1>1, <1>2, SetInduction, QueueAssumption
<1> QED
  BY <1>3

\* What every call keeps, the whole event keeps.
LEMMA RunKeeps ==
    ASSUME NEW h, NEW n \in Nat, NEW o \in BOOLEAN, NEW s, Sound(h, s, n, o), NEW t \in Run(s)
    PROVE  Sound(h, t, n, o) /\ t.agenda = <<>>
<1> DEFINE f == CHOOSE g : IsTrace(g, s, MaxCalls)
           T == {m \in Nat : m \in 0 .. MaxCalls => \A u \in f[m] : Sound(h, u, n, o)}
<1>1. Run(s) = {u \in f[MaxCalls] : u.agenda = <<>>}
  BY DEF Run, IsTrace
<1>2. IsTrace(f, s, MaxCalls)
  <2> HIDE DEF IsTrace
  <2> QED
    BY TraceExists
<1> HIDE DEF f
<1>3. 0 \in T
  <2>1. 0 \in 0 .. MaxCalls
    BY QueueAssumption
  <2>2. f[0] = {s}
    BY <1>2, <2>1 DEF IsTrace
  <2> QED
    BY <2>2
<1>4. ASSUME NEW m \in Nat, m \in T PROVE m + 1 \in T
  <2>1. SUFFICES ASSUME m + 1 \in 0 .. MaxCalls, NEW u \in f[m + 1]
                 PROVE  Sound(h, u, n, o)
    BY <1>4
  <2>2. m \in 0 .. MaxCalls /\ m + 1 # 0 /\ (m + 1) - 1 = m
    BY <1>4, <2>1, QueueAssumption
  <2>3. f[m + 1] = {Call(v) : v \in f[m]}
    BY <1>2, <2>1, <2>2 DEF IsTrace
  <2>4. PICK v \in f[m] : u = Call(v)
    BY <2>1, <2>3
  <2>5. Sound(h, v, n, o)
    BY <1>4, <2>2, <2>4
  <2> QED
    BY <2>4, <2>5, CallKeeps
<1>5. MaxCalls \in T
  <2> HIDE DEF T
  <2> QED
    BY <1>3, <1>4, SetInduction, QueueAssumption
<1>6. MaxCalls \in 0 .. MaxCalls
  BY QueueAssumption
<1> QED
  BY <1>1, <1>5, <1>6

\* An event as it begins, in a state of the invariant.
Begun(c, agenda, dial) == [core |-> c, client |-> client, agenda |-> agenda, dial |-> dial]

\* An event begins with no signals and no call of CoreProcess.
LEMMA HandlingIs ==
    ASSUME NEW c \in CoreRec
    PROVE  LET b == Handling(c) IN
           /\ b \in CoreRec /\ b.sig = {} /\ b.call = "none" /\ b.validation = c.validation
           /\ b.serviceActive = c.serviceActive /\ b.serviceStopping = c.serviceStopping
           /\ b.state = c.state /\ b.stopResult = c.stopResult
           /\ b.pendingLaunch = c.pendingLaunch
BY DEF Handling, CoreRec

\* Whatever the first call is, both objects are as the invariant says.
LEMMA BegunSound ==
    ASSUME IInv, NEW n \in Nat, core.validation <= n, NEW dial \in DialOutcome,
           NEW a \in Seq(Item), Bounded(a, n), Ordered(a),
           ~Aborting(a), ~Failing(a), ~Launching(a), ~Pending(a, "start"),
           ~Pending(a, "failRequests"),
           Pending(a, "connected") => client.link = "dialing",
           Pending(a, "readAnswer") => client.answer # NoCall
    PROVE  Sound(helper, Begun(Handling(core), a, dial), n, overlapped)
<1> DEFINE b == Handling(core)
           q == Begun(b, a, dial)
<1>1. /\ core \in CoreRec /\ client \in ClientRec /\ overlapped \in BOOLEAN
      /\ NoOrphan /\ CoreDiesWithConnection /\ SocketMatches
      /\ overlapped \/ (StartsMatch /\ AnswersMatch)
  BY DEF IInv, Safety, TypeOK
<1>2. /\ b \in CoreRec /\ b.sig = {} /\ b.call = "none" /\ b.validation = core.validation
      /\ b.serviceActive = core.serviceActive /\ b.serviceStopping = core.serviceStopping
  BY <1>1, HandlingIs
<1> HIDE DEF b
<1>3. q \in Session /\ q.core = b /\ q.client = client /\ q.agenda = a
  BY <1>1, <1>2 DEF Begun, Session
<1> HIDE DEF q
<1>4. Formed(q, n)
  BY <1>2, <1>3 DEF Formed
<1>5. Linked(helper, q)
  BY <1>1, <1>3 DEF Linked, CoreDiesWithConnection, SocketMatches, NoCall
<1>6. ASSUME ~overlapped PROVE Timely(helper, q)
  <2>1. StartsMatch /\ AnswersMatch /\ (GoneIn(helper, q) <=> CoreGone)
    BY <1>1, <1>3, <1>6 DEF GoneIn, CoreGone
  <2>2. core.serviceActive \/ CoreGone
    BY <1>1, <1>6 DEF NoOrphan, CoreGone
  <2>3. StartOut(client) <=> "start" \in Outstanding(client)
    BY <1>1, StartIsOut
  <2>4. client.active.op = "stop" => "stop" \in Outstanding(client)
    BY <1>1, OutstandingIs
  <2>5. OneFailing(a)
    BY DEF Failing, OneFailing
  <2>6. StartIn(client.queue) => core.serviceActive /\ client.active.op # "stop"
    BY <2>1, <2>3, <2>4 DEF StartsMatch, StartOut
  <2> QED
    BY <1>2, <1>3, <2>1, <2>2, <2>3, <2>5, <2>6 DEF Timely, StartsMatch, AnswersMatch
<1> QED
  BY <1>3, <1>4, <1>5, <1>6 DEF Sound, q, b

\* The whole event, from the core's part c on.
LEMMA EventKeeps ==
    ASSUME IInv, NEW n \in Nat, core.validation <= n, NEW dial \in DialOutcome,
           NEW c, Calling(Handling(core), c),
           NEW a, \/ a = <<>>
                  \/ \E x \in Item : /\ a = <<x>>
                                     /\ x.do \in {"validate", "enqueue", "failConnection"}
                                     /\ x.do = "validate" => x.request <= n,
           NEW s \in Run(CoreDid(Begun(c, a, dial), c))
    PROVE  Sound(helper, s, n, overlapped) /\ s.agenda = <<>>
<1> DEFINE q == Begun(Handling(core), a, dial)
<1>1. core \in CoreRec /\ overlapped \in BOOLEAN /\ client \in ClientRec
      /\ (overlapped \/ StartsMatch)
  BY DEF IInv, Safety, TypeOK
<1>2. /\ a \in Seq(Item) /\ Bounded(a, n) /\ Quiet(a) /\ ~Failing(a) /\ ~Aborting(a)
  <2>1. CASE a = <<>>
    BY <2>1, NoItem DEF Quiet, Aborting
  <2>2. CASE a # <<>>
    <3>1. PICK x \in Item : /\ a = <<x>>
                            /\ x.do \in {"validate", "enqueue", "failConnection"}
                            /\ x.do = "validate" => x.request <= n
      BY <2>2
    <3>2. a \in Seq(Item)
      BY <3>1
    <3>3. ~Failure(x)
      BY <3>1 DEF Failure
    <3> QED
      BY <3>1, <3>2, <3>3, OneItem DEF Quiet, Aborting
  <2> QED
    BY <2>1, <2>2
<1>3. Ordered(a)
  BY <1>2, PushOrdered
<1>4. Sound(helper, q, n, overlapped)
  <2>1. ~Launching(a) /\ ~Pending(a, "start") /\ ~Pending(a, "failRequests")
        /\ ~Pending(a, "connected") /\ ~Pending(a, "readAnswer")
    BY <1>2 DEF Quiet, Launching
  <2> QED
    BY <1>2, <1>3, <2>1, BegunSound
<1>5. q.core = Handling(core) /\ q.client = client /\ q.agenda = a /\ q \in Session
  BY <1>4 DEF Begun, Sound, Formed
<1>6. Begun(c, a, dial) = [q EXCEPT !.core = c]
  BY DEF Begun
<1> HIDE DEF q
<1>7. CoreDid(Begun(c, a, dial), c) = CoreDid(q, c)
  <2>1. CoreDid([q EXCEPT !.core = c], c) = CoreDid(q, c)
    BY <1>5, CoreDidOver
  <2> QED
    BY <1>6, <2>1, Zenon
<1>8. Handling(core).serviceActive = core.serviceActive
      /\ Handling(core).validation = core.validation
  BY <1>1, HandlingIs
<1>9. c.validation <= n
  <2>1. 0 <= n
    OBVIOUS
  <2> QED
    BY <1>8, <2>1 DEF Calling, NoReq
<1>10. overlapped \/ (c.call = "start" => ~StartOut(q.client) /\ ~Failing(q.agenda))
  <2>1. c.call = "start" => ~core.serviceActive
    BY <1>8 DEF Calling
  <2>2. StartsMatch /\ StartOut(client) => core.serviceActive
    BY <1>1, StartIsOut DEF StartsMatch
  <2> QED
    BY <1>1, <1>2, <1>5, <2>1, <2>2
<1>11. Sound(helper, CoreDid(q, c), n, overlapped)
  BY <1>1, <1>2, <1>4, <1>5, <1>9, <1>10, CoreDidKeeps DEF Sound
<1> QED
  BY <1>1, <1>7, <1>11, RunKeeps

\* An event that begins in the client.
LEMMA ClientEventKeeps ==
    ASSUME IInv, NEW n \in Nat, core.validation <= n, NEW dial \in DialOutcome,
           NEW x \in Item,
           \/ x.do = "connected" /\ client.link = "dialing"
           \/ x.do = "readAnswer" /\ client.answer # NoCall,
           NEW s \in Run(CoreDid(Begun(Handling(core), <<x>>, dial), Handling(core)))
    PROVE  Sound(helper, s, n, overlapped) /\ s.agenda = <<>>
<1> DEFINE a == <<x>>
           c == Handling(core)
           q == Begun(c, a, dial)
<1>1. core \in CoreRec /\ overlapped \in BOOLEAN
  BY DEF IInv, Safety, TypeOK
<1>2. a \in Seq(Item) /\ a # <<>> /\ Head(a) = x /\ Tail(a) = <<>>
  OBVIOUS
<1>3. x.do \in {"connected", "readAnswer"} /\ ~Failure(x) /\ x.do # "validate"
  BY DEF Failure
<1>4. /\ \A d : Pending(a, d) <=> x.do = d
      /\ ~Failing(a) /\ Bounded(a, n)
  BY <1>3, OneItem
<1>5. Ordered(a)
  BY <1>2, <1>3, NoItem DEF Ordered, Quiet
<1> HIDE DEF a
<1>6. Sound(helper, q, n, overlapped)
  <2>1. /\ ~Launching(a) /\ ~Pending(a, "start") /\ ~Pending(a, "failRequests")
        /\ ~Aborting(a)
        /\ Pending(a, "connected") => client.link = "dialing"
        /\ Pending(a, "readAnswer") => client.answer # NoCall
    BY <1>3, <1>4 DEF Launching, Aborting
  <2> QED
    BY <1>2, <1>4, <1>5, <2>1, BegunSound
<1>7. q \in Session /\ q.core = c /\ q.agenda \in Seq(Item)
  BY <1>6 DEF Begun, Sound, Formed, Session
<1>8. c \in CoreRec /\ c.call = "none"
  BY <1>1, HandlingIs
<1>9. CoreDid(q, c) = q
  <2>1. [q EXCEPT !.core = [c EXCEPT !.call = "none"]] = q
    <3>1. [c EXCEPT !.call = "none"] = c
      BY <1>8 DEF CoreRec
    <3> HIDE DEF q, c
    <3> QED
      BY <1>7, <3>1 DEF Session
  <2> HIDE DEF q, c
  <2>2. CoreDid(q, c) = Push(q, <<>>)
    BY <1>8, <2>1 DEF CoreDid
  <2>3. <<>> \o q.agenda = q.agenda
    BY <1>7, ConcatEmptySeq
  <2> QED
    BY <1>7, <2>2, <2>3 DEF Push, Session
<1>10. s \in Run(q)
  BY <1>9 DEF a
<1> HIDE DEF q
<1> QED
  BY <1>1, <1>6, <1>10, RunKeeps

\* What an event does to the invariant.  n is the newest request after it.
EventEnds(n) ==
    /\ core' \in CoreRec /\ client' \in ClientRec /\ helper' = helper
    /\ overlapped' \in BOOLEAN /\ reply' \in {NoReq, core'.probeReply}
    /\ core'.validation <= n
    /\ NoOrphan' /\ CoreDiesWithConnection' /\ SocketMatches'
    /\ overlapped' \/ (StartsMatch' /\ AnswersMatch')
    /\ "stopConfirmed" \in core'.sig => helper.core = NoReq \/ client'.hungup \/ overlapped

\* A sound session with nothing left to call ends the event as IInv needs it.
LEMMA SoundEnds ==
    ASSUME IInv, NEW n \in Nat, NEW s, Sound(helper, s, n, overlapped), s.agenda = <<>>,
           core' = s.core, client' = s.client, helper' = helper,
           reply' = IF s.core.probeReply = core.probeReply THEN reply ELSE NoReq,
           overlapped' = \/ overlapped
                         \/ /\ s.core.serviceActive /\ ~s.core.serviceStopping
                            /\ "stop" \in Outstanding(s.client)
    PROVE  EventEnds(n)
<1>1. /\ s \in Session /\ core' \in CoreRec /\ client' \in ClientRec
      /\ core'.validation <= n
  BY DEF Sound, Formed, Session
<1>2. overlapped \in BOOLEAN /\ reply \in {NoReq, core.probeReply}
  BY DEF IInv, Safety, TypeOK
<1>3. \A d : ~Pending(s.agenda, d)
  BY NoItem
<1>4. ~Aborting(s.agenda) /\ ~Failing(s.agenda) /\ ~Launching(s.agenda)
  BY <1>3, NoItem DEF Aborting, Launching
<1>5. Linked(helper, s)
  BY DEF Sound
<1>6. CoreDiesWithConnection' /\ SocketMatches'
  BY <1>4, <1>5 DEF Linked, CoreDiesWithConnection, SocketMatches
<1>7. GoneIn(helper, s) <=> helper.core = NoReq \/ client'.hungup
  BY <1>4 DEF GoneIn
<1>8. overlapped \/ Timely(helper, s)
  BY DEF Sound
<1>9. NoOrphan'
  BY <1>7, <1>8 DEF NoOrphan, Timely
<1>10. ASSUME ~overlapped' PROVE StartsMatch' /\ AnswersMatch'
  <2>1. Timely(helper, s) /\ (GoneIn(helper, s) <=> CoreGone')
    BY <1>7, <1>8, <1>10 DEF CoreGone
  <2>2. StartOut(s.client) <=> "start" \in Outstanding(s.client)
    BY <1>1, StartIsOut
  <2>3. core'.serviceActive /\ ~core'.serviceStopping => "stop" \notin Outstanding(client')
    BY <1>10
  <2>4. StartsMatch'
    BY <1>3, <1>4, <2>1, <2>2, <2>3 DEF Timely, StartsMatch, StartOut
  <2>5. AnswersMatch'
    BY <2>1 DEF Timely, AnswersMatch
  <2> QED
    BY <2>4, <2>5
<1>11. "stopConfirmed" \in core'.sig => helper.core = NoReq \/ client'.hungup \/ overlapped
  BY <1>7, <1>8 DEF Timely
<1> QED
  BY <1>1, <1>2, <1>6, <1>9, <1>10, <1>11 DEF EventEnds

\* An event that CoreProcess begins ends so,
LEMMA DispatchKeeps ==
    ASSUME IInv, NEW n \in Nat, core.validation <= n,
           NEW c, Calling(Handling(core), c),
           NEW a, \/ a = <<>>
                  \/ \E x \in Item : /\ a = <<x>>
                                     /\ x.do \in {"validate", "enqueue", "failConnection"}
                                     /\ x.do = "validate" => x.request <= n,
           Dispatch(c, a)
    PROVE  EventEnds(n)
<1>1. PICK dial \in DialOutcome :
        \E s \in Run(CoreDid(Begun(c, a, dial), c)) :
           /\ core' = s.core
           /\ client' = s.client
           /\ reply' = IF s.core.probeReply = core.probeReply THEN reply ELSE NoReq
           /\ overlapped' = \/ overlapped
                            \/ /\ s.core.serviceActive /\ ~s.core.serviceStopping
                               /\ "stop" \in Outstanding(s.client)
           /\ helper' = helper
  BY DEF Dispatch, Begun
<1>2. PICK s \in Run(CoreDid(Begun(c, a, dial), c)) :
           /\ core' = s.core
           /\ client' = s.client
           /\ reply' = IF s.core.probeReply = core.probeReply THEN reply ELSE NoReq
           /\ overlapped' = \/ overlapped
                            \/ /\ s.core.serviceActive /\ ~s.core.serviceStopping
                               /\ "stop" \in Outstanding(s.client)
           /\ helper' = helper
  BY <1>1
<1>3. Sound(helper, s, n, overlapped) /\ s.agenda = <<>>
  BY EventKeeps
<1> QED
  BY <1>2, <1>3, SoundEnds

\* and so does one that the client begins.
LEMMA ClientDispatchKeeps ==
    ASSUME IInv, NEW n \in Nat, core.validation <= n, NEW x \in Item,
           \/ x.do = "connected" /\ client.link = "dialing"
           \/ x.do = "readAnswer" /\ client.answer # NoCall,
           Dispatch(Handling(core), <<x>>)
    PROVE  EventEnds(n)
<1> DEFINE c == Handling(core)
           a == <<x>>
<1>1. PICK dial \in DialOutcome :
        \E s \in Run(CoreDid(Begun(c, a, dial), c)) :
           /\ core' = s.core
           /\ client' = s.client
           /\ reply' = IF s.core.probeReply = core.probeReply THEN reply ELSE NoReq
           /\ overlapped' = \/ overlapped
                            \/ /\ s.core.serviceActive /\ ~s.core.serviceStopping
                               /\ "stop" \in Outstanding(s.client)
           /\ helper' = helper
  BY DEF Dispatch, Begun
<1>2. PICK s \in Run(CoreDid(Begun(c, a, dial), c)) :
           /\ core' = s.core
           /\ client' = s.client
           /\ reply' = IF s.core.probeReply = core.probeReply THEN reply ELSE NoReq
           /\ overlapped' = \/ overlapped
                            \/ /\ s.core.serviceActive /\ ~s.core.serviceStopping
                               /\ "stop" \in Outstanding(s.client)
           /\ helper' = helper
  BY <1>1
<1>3. Sound(helper, s, n, overlapped) /\ s.agenda = <<>>
  BY ClientEventKeeps
<1> QED
  BY <1>2, <1>3, SoundEnds

\* The invariant holds when the application starts.
LEMMA InitHolds == Init => IInv
<1> SUFFICES ASSUME Init PROVE IInv
  OBVIOUS
<1>1. /\ NewCore(TRUE) \in CoreRec /\ NewCore(TRUE).serviceActive = FALSE
      /\ NewCore(TRUE).validation = 0 /\ NewCore(TRUE).probeReply = 0
  BY DEF NewCore, CoreRec, CoreState, Signal, NoReq
<1>2. /\ NewClient \in ClientRec /\ NewClient.active.op = "none" /\ NewClient.queue = <<>>
      /\ NewClient.inbox = NoCall /\ NewClient.answer = NoCall
  <2>1. <<>> \in Seq(Request)
    OBVIOUS
  <2> QED
    BY <2>1 DEF NewClient, ClientRec, NoCall
<1>3. /\ core = NewCore(TRUE) /\ client = NewClient
      /\ helper \in [core : Nat, owned : BOOLEAN] /\ helper.core = NoReq
      /\ parsing = 0 /\ reply = NoReq /\ starts = 0 /\ stops = 0 /\ wanted = NoReq
      /\ overlapped = FALSE
  BY DEF Init, NoReq
<1>4. /\ core \in CoreRec /\ core.serviceActive = FALSE /\ core.validation = 0
      /\ client \in ClientRec /\ client.active.op = "none" /\ client.queue = <<>>
      /\ client.inbox = NoCall /\ client.answer = NoCall
  BY <1>1, <1>2, <1>3
<1>5. TypeOK
  <2>1. starts \in 0..MaxStarts /\ stops \in 0..MaxStops /\ parsing \in 0..starts
    BY <1>3, BoundsAssumption
  <2> QED
    BY <1>3, <1>4, <2>1 DEF TypeOK
<1>6. Safety /\ core.validation <= starts /\ SocketMatches
  <2>1. core.validation <= starts
    <3>1. core.validation = 0
      BY <1>4
    <3>2. starts = 0
      BY <1>3
    <3> QED
      BY <3>1, <3>2
  <2>2. NoOrphan /\ CoreDiesWithConnection
    BY <1>3 DEF NoOrphan, CoreDiesWithConnection
  <2>3. SocketMatches
    BY <1>4 DEF SocketMatches
  <2> QED
    BY <1>5, <2>1, <2>2, <2>3 DEF Safety
<1>7. StartsMatch /\ AnswersMatch
  <2>1. ~StartIn(client.queue) /\ OneStart(client.queue)
    BY <1>4, NoRequest
  <2>2. "start" \notin Outstanding(client)
    BY <1>4, <2>1, StartIsOut DEF StartOut
  <2>3. client.inbox.op = "none"
    BY <1>4 DEF NoCall
  <2> QED
    BY <1>4, <2>1, <2>2, <2>3 DEF StartsMatch, AnswersMatch
<1> QED
  BY <1>6, <1>7 DEF IInv

\* The invariant after an event, from what the event did to both objects.
LEMMA EndedKeeps ==
    ASSUME IInv, EventEnds(starts'), starts' \in 0..MaxStarts, stops' \in 0..MaxStops,
           parsing' \in 0..starts', wanted' \in {NoReq, starts'}
    PROVE  IInv'
<1>1. helper' \in [core : Nat, owned : BOOLEAN]
  BY DEF IInv, Safety, TypeOK, EventEnds
<1>2. TypeOK'
  BY <1>1 DEF EventEnds, TypeOK
<1> QED
  BY <1>2 DEF EventEnds, IInv, Safety

\* A confirmed stop, in a step of the application.
Confirms == "stopConfirmed" \in core'.sig => helper.core = NoReq \/ client'.hungup \/ overlapped

\* The steps, one lemma for each group of them: start(),
LEMMA CallStartKeeps ==
    ASSUME IInv, NEW found \in BOOLEAN, NEW begins \in BOOLEAN, CallStart(found, begins)
    PROVE  IInv' /\ Confirms
<1> DEFINE n == starts + 1
           c == StartPreempts(Handling(core))
           x == Validate(n, found, begins)
<1>1. /\ core \in CoreRec /\ starts \in 0..MaxStarts /\ core.validation <= starts
      /\ stops \in 0..MaxStops /\ parsing \in 0..starts
  BY DEF IInv, Safety, TypeOK
<1>2. /\ n \in Nat /\ n \in 0..MaxStarts /\ core.validation <= n
  BY <1>1, BoundsAssumption DEF CallStart, CoreRec
<1>3. Calling(Handling(core), c)
  BY <1>1, HandlingIs, StartPreemptsHalts DEF Halting
<1>4. x \in Item /\ x.do = "validate" /\ x.request <= n
  BY <1>2, Items
<1>5. Dispatch(c, <<x>>) /\ starts' = n /\ wanted' = n /\ stops' = stops /\ parsing' = parsing
  BY DEF CallStart
<1> HIDE DEF n, c, x
<1>6. EventEnds(n)
  BY <1>2, <1>3, <1>4, <1>5, DispatchKeeps
<1>7. parsing' \in 0..starts'
  BY <1>1, <1>2, <1>5 DEF n
<1> QED
  BY <1>1, <1>2, <1>5, <1>6, <1>7, EndedKeeps DEF Confirms, EventEnds

\* Every other event leaves the commands alone.
LEMMA OtherKeeps ==
    ASSUME IInv, EventEnds(starts), UNCHANGED Commands, parsing' \in 0..starts
    PROVE  IInv' /\ Confirms
<1>1. starts' = starts /\ stops' = stops /\ wanted' = wanted
  BY DEF Commands
<1>2. starts \in 0..MaxStarts /\ stops \in 0..MaxStops /\ wanted \in {NoReq, starts}
  BY DEF IInv, Safety, TypeOK
<1> QED
  BY <1>1, <1>2, EndedKeeps DEF Confirms, EventEnds

\* stop(),
LEMMA CallStopKeeps ==
    ASSUME IInv, CallStop
    PROVE  IInv' /\ Confirms
<1> DEFINE c == Stop(Handling(core))
<1>1. /\ core \in CoreRec /\ starts \in 0..MaxStarts /\ core.validation <= starts
      /\ stops \in 0..MaxStops /\ parsing \in 0..starts /\ starts \in Nat
  BY BoundsAssumption DEF IInv, Safety, TypeOK
<1>2. Calling(Handling(core), c)
  BY <1>1, HandlingIs, StopHalts DEF Halting
<1>3. /\ Dispatch(c, <<>>) /\ starts' = starts /\ wanted' = NoReq /\ parsing' = parsing
      /\ stops' \in 0..MaxStops
  BY <1>1, BoundsAssumption DEF CallStop
<1> HIDE DEF c
<1>4. EventEnds(starts)
  BY <1>1, <1>2, <1>3, DispatchKeeps
<1> QED
  BY <1>1, <1>3, <1>4, EndedKeeps DEF Confirms, EventEnds

\* What the core's own events make of a core record.
LEMMA CoreEvents ==
    ASSUME IInv
    PROVE  LET b == Handling(core) IN
           /\ Calling(b, b)
           /\ \A valid \in BOOLEAN :
                Calling(b, FinishValidation([b EXCEPT !.checking = @ \ {core.validation}],
                                            valid, "awaits"))
           /\ Calling(b, FinishValidation(b, FALSE, "awaits"))
           /\ \A v : Calling(b, RetireValidation(b, v, "awaits"))
           /\ LET c == [b EXCEPT !.serviceParsing = FALSE] IN
              \A ok \in BOOLEAN :
                 Calling(b, IF ok THEN LaunchValidated(c, parsing, "awaits") ELSE Reject(c))
           /\ Calling(b, [b EXCEPT !.probeReply = core.pendingEndpoint])
           /\ Calling(b, Fail(b))
           /\ LET c == [b EXCEPT !.probeReply = NoReq] IN
              /\ Calling(b, c)
              /\ Calling(b, IF core.state = "Starting"
                            THEN Emit([c EXCEPT !.readyTimer = FALSE,
                                                !.endpoint = c.pendingEndpoint,
                                                !.state = "Running"], {"ready"})
                            ELSE c)
<1> DEFINE b == Handling(core)
           d == [b EXCEPT !.checking = @ \ {core.validation}]
           e == [b EXCEPT !.serviceParsing = FALSE]
           f == [b EXCEPT !.probeReply = NoReq]
           p == [b EXCEPT !.probeReply = core.pendingEndpoint]
           g == [f EXCEPT !.readyTimer = FALSE, !.endpoint = f.pendingEndpoint,
                          !.state = "Running"]
<1>1. core \in CoreRec /\ parsing \in Nat /\ core.pendingEndpoint \in Nat
  BY BoundsAssumption DEF IInv, Safety, TypeOK, CoreRec
<1>2. b \in CoreRec /\ b.call = "none" /\ b.sig = {}
  BY <1>1, HandlingIs
<1> HIDE DEF b
<1>3. Quietly(b, b) /\ Quietly(b, d) /\ Quietly(b, e) /\ Quietly(b, f) /\ Quietly(b, p)
  BY <1>1, <1>2 DEF Quietly, CoreRec, NoReq
<1>4. f \in CoreRec
  BY <1>3 DEF Quietly
<1> HIDE DEF d, e, f, p
<1>5. Quietly(f, g)
  BY <1>4 DEF Quietly, CoreRec, CoreState
<1>6. Quietly(b, g)
  BY <1>2, <1>3, <1>5, QuietTwice
<1> HIDE DEF g
<1>7. ASSUME NEW x, Quietly(b, x)
      PROVE  /\ x \in CoreRec /\ x.call = "none" /\ Calling(b, x)
             /\ \A y : Calling(x, y) => Calling(b, y)
  BY <1>2, <1>7, QuietCalls DEF Quietly, Calling
<1>8. Calling(b, Emit(g, {"ready"}))
  <2>1. {"ready"} \in SUBSET Signal
    BY DEF Signal
  <2>2. g \in CoreRec
    BY <1>6 DEF Quietly
  <2>3. /\ Emit(g, {"ready"}) \in CoreRec /\ Emit(g, {"ready"}).sig = g.sig \cup {"ready"}
        /\ Emit(g, {"ready"}).serviceActive = g.serviceActive
        /\ Emit(g, {"ready"}).serviceStopping = g.serviceStopping
        /\ Emit(g, {"ready"}).call = g.call /\ Emit(g, {"ready"}).validation = g.validation
    BY <2>1, <2>2, EmitTypes
  <2> QED
    BY <1>2, <1>6, <2>3 DEF Quietly, Calling
<1>9. /\ \A valid \in BOOLEAN : Calling(b, FinishValidation(d, valid, "awaits"))
      /\ Calling(b, FinishValidation(b, FALSE, "awaits"))
      /\ \A v : Calling(b, RetireValidation(b, v, "awaits"))
  BY <1>3, <1>7, FinishValidationCalls, RetireValidationCalls DEF LaunchOutcome
<1>10. Calling(b, LaunchValidated(e, parsing, "awaits")) /\ Calling(b, Reject(e))
       /\ Calling(b, Fail(b))
  BY <1>1, <1>3, <1>7, LaunchValidatedCalls, RejectHalts, FailHalts DEF LaunchOutcome, Halting
<1>11. Calling(b, b) /\ Calling(b, p) /\ Calling(b, f)
  BY <1>3, <1>7
<1> QED
  BY <1>8, <1>9, <1>10, <1>11 DEF b, d, e, f, g, p

\* The events of the core and of the client.
ApplicationEvent ==
    \/ \E valid \in BOOLEAN : ValidatorExits(valid)
    \/ ValidatorTimesOut
    \/ \E v \in core.cancelingValidations : CanceledValidatorExits(v)
    \/ \E ok \in BOOLEAN : ParseFinishes(ok)
    \/ SendProbe
    \/ ProbeDeadline
    \/ ProbeSucceeds
    \/ ProbeFails
    \/ Poll
    \/ \E connected \in BOOLEAN : DialEnds(connected)
    \/ DeadlineExpires
    \/ AnswerArrives
    \/ PeerCloses

\* the events of the application, and
LEMMA ApplicationKeeps ==
    ASSUME IInv, ApplicationEvent
    PROVE  IInv' /\ Confirms
<1>1. /\ core \in CoreRec /\ core.validation \in Nat /\ core.validation <= starts
      /\ starts \in Nat /\ parsing \in 0..starts /\ core.validation \in 0..starts
  BY BoundsAssumption DEF IInv, Safety, TypeOK, CoreRec
<1>2. ASSUME NEW c, Calling(Handling(core), c), Dispatch(c, <<>>), UNCHANGED Commands,
             parsing' \in {parsing, core.validation}
      PROVE  IInv' /\ Confirms
  <2>1. EventEnds(starts)
    BY <1>1, <1>2, DispatchKeeps
  <2> QED
    BY <1>1, <1>2, <2>1, OtherKeeps
<1>3. ASSUME NEW x \in Item, x.do \in {"enqueue", "failConnection"},
             Dispatch(Handling(core), <<x>>), UNCHANGED <<parsing, Commands>>
      PROVE  IInv' /\ Confirms
  <2>1. Calling(Handling(core), Handling(core))
    BY CoreEvents
  <2>2. EventEnds(starts)
    BY <1>1, <1>3, <2>1, DispatchKeeps
  <2> QED
    BY <1>1, <1>3, <2>2, OtherKeeps
<1>4. ASSUME NEW x \in Item,
             \/ x.do = "connected" /\ client.link = "dialing"
             \/ x.do = "readAnswer" /\ client.answer # NoCall,
             Dispatch(Handling(core), <<x>>), UNCHANGED <<parsing, Commands>>
      PROVE  IInv' /\ Confirms
  <2>1. EventEnds(starts)
    BY <1>1, <1>4, ClientDispatchKeeps
  <2> QED
    BY <1>1, <1>4, <2>1, OtherKeeps
<1>5. CASE \E valid \in BOOLEAN : ValidatorExits(valid)
  BY <1>2, <1>5, CoreEvents DEF ValidatorExits
<1>6. CASE ValidatorTimesOut
  BY <1>2, <1>6, CoreEvents DEF ValidatorTimesOut
<1>7. CASE \E v \in core.cancelingValidations : CanceledValidatorExits(v)
  BY <1>2, <1>7, CoreEvents DEF CanceledValidatorExits
<1>8. CASE \E ok \in BOOLEAN : ParseFinishes(ok)
  BY <1>2, <1>8, CoreEvents DEF ParseFinishes
<1>9. CASE SendProbe
  BY <1>2, <1>9, CoreEvents DEF SendProbe
<1>10. CASE ProbeDeadline
  BY <1>2, <1>10, CoreEvents DEF ProbeDeadline
<1>11. CASE ProbeSucceeds
  BY <1>2, <1>11, CoreEvents DEF ProbeSucceeds
<1>12. CASE ProbeFails
  BY <1>2, <1>12, CoreEvents DEF ProbeFails
<1>13. CASE Poll
  BY <1>3, <1>13, Items DEF Poll
<1>14. CASE \E connected \in BOOLEAN : DialEnds(connected)
  BY <1>3, <1>4, <1>14, Items DEF DialEnds
<1>15. CASE DeadlineExpires
  BY <1>3, <1>15, Items DEF DeadlineExpires
<1>16. CASE AnswerArrives
  BY <1>4, <1>16, Items DEF AnswerArrives
<1>17. CASE PeerCloses
  BY <1>3, <1>17, Items DEF PeerCloses
<1> QED
  BY <1>5, <1>6, <1>7, <1>8, <1>9, <1>10, <1>11, <1>12, <1>13, <1>14, <1>15, <1>16, <1>17
     DEF ApplicationEvent

\* The helper's steps, and the core's answer to a probe.
HelperEvent == HelperNext \/ CoreAnswers

\* those of the helper, which change nothing of CoreProcess.
LEMMA HelperKeeps ==
    ASSUME IInv, HelperEvent
    PROVE  IInv' /\ core' = core
<1>1. /\ core \in CoreRec /\ client \in ClientRec /\ helper \in [core : Nat, owned : BOOLEAN]
      /\ overlapped \in BOOLEAN /\ core.validation <= starts
      /\ NoOrphan /\ CoreDiesWithConnection /\ SocketMatches
      /\ overlapped \/ (StartsMatch /\ AnswersMatch)
  BY DEF IInv, Safety, TypeOK
<1>2. "start" \in Outstanding(client) <=> StartOut(client)
  BY <1>1, StartIsOut
<1>3. CASE CoreAnswers
  <2>1. UNCHANGED <<core, client, helper, parsing, starts, stops, wanted, overlapped>>
        /\ reply' = core.probeReply
    BY <1>3 DEF CoreAnswers
  <2> QED
    BY <1>1, <2>1 DEF IInv, Safety, TypeOK, NoOrphan, CoreDiesWithConnection, SocketMatches,
       StartsMatch, AnswersMatch, CoreGone
\* A step that leaves the application alone and neither queue changes.
<1>4. ASSUME UNCHANGED Application, client' \in ClientRec,
             helper' \in [core : Nat, owned : BOOLEAN],
             client'.active = client.active, client'.queue = client.queue,
             NoOrphan', CoreDiesWithConnection', SocketMatches',
             overlapped \/ /\ StartIn(client.queue) => CoreGone'
                           /\ client'.inbox.op = "start" => CoreGone'
                           /\ AnswersMatch'
      PROVE  IInv' /\ core' = core
  <2>1. core' = core /\ starts' = starts /\ overlapped' = overlapped
    BY <1>4 DEF Application
  <2>2. TypeOK'
    BY <1>4 DEF IInv, Safety, TypeOK, Application
  <2>3. Outstanding(client') = Outstanding(client)
    BY <1>4 DEF Outstanding
  <2>4. overlapped' \/ StartsMatch'
    BY <1>1, <1>4, <2>1, <2>3 DEF StartsMatch
  <2> QED
    BY <1>1, <1>4, <2>1, <2>2, <2>4 DEF IInv, Safety
<1>5. CASE Accept
  <2> DEFINE k == [client EXCEPT !.link = "open"]
  <2>1. client' = k /\ UNCHANGED <<Application, helper>> /\ client.link = "queued"
        /\ ~client.hungup /\ overlapped' = overlapped
    BY <1>5 DEF Accept, Application
  <2>2. /\ k \in ClientRec /\ k.link = "open" /\ k.hungup = client.hungup
        /\ k.active = client.active /\ k.queue = client.queue /\ k.inbox = client.inbox
        /\ k.answer = client.answer
    BY <1>1 DEF ClientRec
  <2> HIDE DEF k
  <2>3. helper.core = NoReq
    BY <1>1, <2>1 DEF CoreDiesWithConnection
  <2>4. NoOrphan' /\ CoreDiesWithConnection' /\ SocketMatches' /\ CoreGone'
    BY <1>1, <2>1, <2>2, <2>3 DEF NoOrphan, CoreDiesWithConnection, SocketMatches, CoreGone
  <2> QED
    BY <1>1, <1>4, <2>1, <2>2, <2>4 DEF AnswersMatch
<1>6. ASSUME NEW ok \in BOOLEAN, NEW state \in Nat, Answer(ok, state), client.link = "open",
             client.inbox.op \in Op
      PROVE  /\ client' \in ClientRec /\ client'.link = "open"
             /\ client'.hungup = client.hungup /\ client'.active = client.active
             /\ client'.queue = client.queue /\ client'.inbox = NoCall
             /\ client'.answer # NoCall /\ client'.answer.ok = ok
             /\ client.active = client.inbox /\ client.inbox \in Request
             /\ SocketMatches' /\ client'.inbox.op # "start"
  <2> DEFINE m == [ok |-> ok, state |-> IF state = NoReq THEN "stopped" ELSE "running",
                   endpoint |-> state]
             k == [client EXCEPT !.inbox = NoCall, !.answer = m]
  <2>1. client' = k
    BY <1>6 DEF Answer
  <2>2. m \in [ok : BOOLEAN, state : {"running", "stopped"}, endpoint : Nat] /\ m.ok = ok
    OBVIOUS
  <2>3. m # NoCall
    BY DEF NoCall
  <2> HIDE DEF m
  <2>4. /\ k \in ClientRec /\ k.link = client.link /\ k.hungup = client.hungup
        /\ k.active = client.active /\ k.queue = client.queue /\ k.inbox = NoCall
        /\ k.answer = m
    BY <1>1, <2>2 DEF ClientRec
  <2> HIDE DEF k
  <2>5. client.inbox # NoCall
    BY <1>6 DEF NoCall, Op
  <2>6. client.active = client.inbox /\ client.inbox \in Request
    BY <1>1, <2>5 DEF SocketMatches, ClientRec
  <2>7. NoCall.op # "start"
    BY DEF NoCall
  <2> QED
    BY <1>6, <2>1, <2>2, <2>3, <2>4, <2>5, <2>6, <2>7 DEF SocketMatches
<1>7. ASSUME NEW outcome \in {"started", "rejected", "noProcess"}, HandleStart(outcome)
      PROVE  IInv' /\ core' = core
  <2>1. /\ client.link = "open" /\ client.inbox.op = "start" /\ client.inbox.op \in Op
        /\ UNCHANGED Application /\ overlapped' = overlapped /\ core' = core
    BY <1>7 DEF HandleStart, Application, Op
  <2>2. client.inbox \in Request
    BY <1>1, <2>1 DEF ClientRec, NoCall
  <2>3. \/ outcome = "started" /\ helper' = [core |-> client.inbox.cfg, owned |-> TRUE]
        \/ outcome = "rejected" /\ helper' = helper
        \/ outcome = "noProcess" /\ helper' = [helper EXCEPT !.core = NoReq]
    BY <1>7 DEF HandleStart
  <2>4. /\ helper' \in [core : Nat, owned : BOOLEAN]
        /\ \/ outcome = "started" /\ helper'.owned
           \/ outcome = "rejected" /\ helper' = helper
           \/ outcome = "noProcess" /\ helper'.core = NoReq
    <3>1. client.inbox.cfg \in Nat /\ NoReq \in Nat
      BY <2>2 DEF Request, NoReq
    <3>2. helper \in [core : Nat, owned : BOOLEAN]
      BY <1>1
    <3> DEFINE g == [core |-> client.inbox.cfg, owned |-> TRUE]
               h == [helper EXCEPT !.core = NoReq]
    <3>3. g \in [core : Nat, owned : BOOLEAN] /\ g.owned
      BY <3>1
    <3>4. h \in [core : Nat, owned : BOOLEAN] /\ h.core = NoReq
      BY <3>1, <3>2
    <3>5. \/ outcome = "started" /\ helper' = g
          \/ outcome = "rejected" /\ helper' = helper
          \/ outcome = "noProcess" /\ helper' = h
      BY <2>3
    <3> HIDE DEF g, h
    <3> QED
      BY <3>2, <3>3, <3>4, <3>5
  <2>5. Answer(outcome = "started", helper'.core)
    BY <1>7 DEF HandleStart
  <2>6. helper'.core \in Nat
    BY <2>4
  <2>7. /\ client' \in ClientRec /\ client'.link = "open"
        /\ client'.hungup = client.hungup /\ client'.active = client.active
        /\ client'.queue = client.queue /\ client'.inbox = NoCall
        /\ client'.answer # NoCall /\ client'.answer.ok = (outcome = "started")
        /\ client.active = client.inbox /\ client.inbox \in Request
        /\ SocketMatches' /\ client'.inbox.op # "start"
    BY <1>6, <2>1, <2>5, <2>6
  <2>8. overlapped \/ (core.serviceActive /\ CoreGone /\ ~StartIn(client.queue))
    BY <1>1, <1>2, <2>1, <2>7 DEF StartsMatch, StartOut
  <2>9. NoOrphan' /\ CoreDiesWithConnection'
    BY <1>1, <2>1, <2>4, <2>7, <2>8 DEF NoOrphan, CoreDiesWithConnection
  <2>10. overlapped \/ AnswersMatch'
    BY <2>1, <2>4, <2>7, <2>8 DEF AnswersMatch, CoreGone
  <2> QED
    BY <1>4, <2>1, <2>4, <2>7, <2>8, <2>9, <2>10
<1>8. CASE HandleStop
  <2>1. /\ client.link = "open" /\ client.inbox.op \in Op /\ Answer(TRUE, NoReq)
        /\ UNCHANGED Application /\ helper' \in [core : Nat, owned : BOOLEAN]
        /\ helper'.core = NoReq /\ NoReq \in Nat
    BY <1>8 DEF HandleStop, Op, NoReq
  <2>2. NoOrphan' /\ CoreDiesWithConnection' /\ CoreGone' /\ AnswersMatch'
    BY <2>1 DEF NoOrphan, CoreDiesWithConnection, CoreGone, AnswersMatch
  <2> QED
    BY <1>4, <1>6, <2>1, <2>2
<1>9. CASE HandleStatus
  <2>1. /\ client.link = "open" /\ client.inbox.op = "status" /\ Answer(TRUE, helper.core)
        /\ client.inbox.op \in Op
        /\ UNCHANGED Application /\ helper' = helper /\ helper.core \in Nat
        /\ overlapped' = overlapped /\ core' = core
    BY <1>1, <1>9 DEF HandleStatus, Op, Application
  <2>2. /\ client' \in ClientRec /\ client'.link = "open"
        /\ client'.hungup = client.hungup /\ client'.active = client.active
        /\ client'.queue = client.queue
        /\ client.active = client.inbox /\ SocketMatches' /\ client'.inbox.op # "start"
    BY <1>6, <2>1
  <2>3. NoOrphan' /\ CoreDiesWithConnection' /\ (CoreGone' <=> CoreGone) /\ AnswersMatch'
    BY <1>1, <2>1, <2>2 DEF NoOrphan, CoreDiesWithConnection, CoreGone, AnswersMatch
  <2> QED
    BY <1>1, <1>4, <2>1, <2>2, <2>3 DEF StartsMatch
<1>10. CASE NoticeHangup
  <2> DEFINE k == [client EXCEPT !.hungup = FALSE]
  <2>1. client' = k /\ helper' = Release /\ UNCHANGED Application
    BY <1>10 DEF NoticeHangup
  <2>2. /\ k \in ClientRec /\ k.link = client.link
        /\ k.active = client.active /\ k.queue = client.queue /\ k.inbox = client.inbox
        /\ k.answer = client.answer
    BY <1>1 DEF ClientRec
  <2> HIDE DEF k
  <2>3. helper' \in [core : Nat, owned : BOOLEAN] /\ helper'.core = NoReq
    BY <1>1, <2>1 DEF Release, CoreDiesWithConnection, NoReq
  <2>4. NoOrphan' /\ CoreDiesWithConnection' /\ SocketMatches' /\ CoreGone' /\ AnswersMatch'
    BY <1>1, <2>1, <2>2, <2>3
       DEF NoOrphan, CoreDiesWithConnection, SocketMatches, CoreGone, AnswersMatch
  <2> QED
    BY <1>4, <2>1, <2>2, <2>3, <2>4
<1>11. CASE DropConnection
  <2> DEFINE k == [client EXCEPT !.link = "dropped", !.inbox = NoCall]
  <2>1. client' = k /\ helper' = Release /\ UNCHANGED Application
    BY <1>11 DEF DropConnection
  <2>2. /\ k \in ClientRec /\ k.link = "dropped"
        /\ k.active = client.active /\ k.queue = client.queue /\ k.inbox = NoCall
        /\ k.answer = client.answer
    BY <1>1 DEF ClientRec
  <2> HIDE DEF k
  <2>3. helper' \in [core : Nat, owned : BOOLEAN] /\ helper'.core = NoReq
    BY <1>1, <2>1 DEF Release, CoreDiesWithConnection, NoReq
  <2>4. NoOrphan' /\ CoreDiesWithConnection' /\ SocketMatches' /\ CoreGone' /\ AnswersMatch'
    BY <1>1, <2>1, <2>2, <2>3
       DEF NoOrphan, CoreDiesWithConnection, SocketMatches, CoreGone, AnswersMatch
  <2> QED
    BY <1>4, <2>1, <2>2, <2>3, <2>4
<1>12. CASE PrivilegedCoreExits
  <2>1. client' = client /\ helper' = [helper EXCEPT !.core = NoReq] /\ UNCHANGED Application
    BY <1>12 DEF PrivilegedCoreExits
  <2>2. helper' \in [core : Nat, owned : BOOLEAN] /\ helper'.core = NoReq
    BY <1>1, <2>1 DEF NoReq
  <2>3. NoOrphan' /\ CoreDiesWithConnection' /\ SocketMatches' /\ CoreGone' /\ AnswersMatch'
    BY <1>1, <2>1, <2>2
       DEF NoOrphan, CoreDiesWithConnection, SocketMatches, CoreGone, AnswersMatch
  <2> QED
    BY <1>1, <1>4, <2>1, <2>2, <2>3
<1> QED
  BY <1>3, <1>5, <1>7, <1>8, <1>9, <1>10, <1>11, <1>12 DEF HelperEvent, HelperNext

\* Every step keeps the invariant, and a step of the application that confirms
\* a stop leaves no core behind.
LEMMA StepKeeps ==
    ASSUME IInv, [Next]_vars
    PROVE  IInv' /\ (core' # core => Confirms)
<1>1. CASE \E found, begins \in BOOLEAN : CallStart(found, begins)
  BY <1>1, CallStartKeeps
<1>2. CASE CallStop
  BY <1>2, CallStopKeeps
<1>3. CASE ApplicationEvent
  BY <1>3, ApplicationKeeps
<1>4. CASE HelperEvent
  BY <1>4, HelperKeeps
<1>5. CASE UNCHANGED vars
  BY <1>5 DEF vars, IInv, Safety, TypeOK, NoOrphan, CoreDiesWithConnection, SocketMatches,
     StartsMatch, AnswersMatch, CoreGone
<1> QED
  BY <1>1, <1>2, <1>3, <1>4, <1>5 DEF Next, ApplicationEvent, HelperEvent

\* What the connection's two queues, CoreProcess and the helper know of one
\* another is consistent after every event, for any queue bound and any number
\* of starts and stops (client, core process and helper, in whatever order
\* their events come).
THEOREM SessionInvariant == Spec => []IInv
<1>1. Init => IInv
  BY InitHolds
<1>2. IInv /\ [Next]_vars => IInv'
  BY StepKeeps
<1> QED
  BY <1>1, <1>2, PTL DEF Spec

\* Every variable of the session keeps its type.
THEOREM SessionTypeCorrect == Spec => []TypeOK
<1>1. IInv => TypeOK
  BY DEF IInv, Safety
<1> QED
  BY <1>1, SessionInvariant, PTL

\* Safety: the helper runs a core only while CoreProcess counts one, or the
\* connection's end has not been noticed, or a launch overlapped a stop; and it
\* runs a core only for a connection that is open or whose end is unnoticed.
THEOREM SessionSafe == Spec => []Safety
<1>1. IInv => Safety
  BY DEF IInv
<1> QED
  BY <1>1, SessionInvariant, PTL

\* When CoreProcess reports a confirmed stop (finishStop with the service's
\* answer), the helper runs no core, up to the two exceptions named.
THEOREM ConfirmedStopIsReal == Spec => ConfirmedStopLeavesNoCore
<1>1. IInv /\ [Next]_vars =>
         [core' # core /\ "stopConfirmed" \in core'.sig
             => helper.core = NoReq \/ client'.hungup \/ overlapped]_vars
  BY StepKeeps DEF Confirms
<1> QED
  BY <1>1, SessionInvariant, PTL DEF Spec, ConfirmedStopLeavesNoCore
============================================================================
