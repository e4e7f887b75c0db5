-------------------------- MODULE CoreProcessProofs --------------------------
(***************************************************************************)
(* The safety of CoreProcess for any number of commands, and that it       *)
(* implements CoreContract.  "Sound" is what holds of the object inside a  *)
(* handler, "Resting" what holds as well between two events; one lemma per *)
(* member function says which of the two it keeps, and the step lemma puts *)
(* them together by action.                                                *)
(***************************************************************************)
EXTENDS CoreProcess, TLAPS

\* What holds of the object at every point of a handler.
Sound(c, newest, bound) ==
    /\ c \in CoreRec
    /\ LocalMode(c)
    /\ CoresOwned(c)
    /\ ValidatorsOwned(c)
    /\ RequestsCurrent(c, newest, bound)

\* What fail(), stop() and start() have reset.
Reset(c) ==
    /\ c.pendingLaunch = NoReq
    /\ c.validation = NoReq
    /\ ~c.serviceParsing

\* cancelProbe() and the stopped timer touch nothing but the readiness fields.
LEMMA StopProbingSound ==
    ASSUME NEW c, NEW w \in Nat, NEW n \in Nat, Sound(c, w, n)
    PROVE  LET d == StopProbing(c) IN
           /\ Sound(d, w, n)
           /\ ~d.readyTimer /\ d.probeReply = NoReq
           /\ \A f \in {"pendingLaunch", "validation"} : d[f] = c[f]
BY DEF Sound, StopProbing, CoreRec, LocalMode, CoresOwned, ValidatorsOwned, RequestsCurrent

\* cancelValidation() moves a validator that still runs to the killed ones.
LEMMA CancelValidationSound ==
    ASSUME NEW c, NEW w \in Nat, NEW n \in Nat, NEW v \in Nat, Sound(c, w, n)
    PROVE  LET d == CancelValidation(c) IN
           /\ Sound(d, w, n)
           /\ d.validation = NoReq
<1> DEFINE d == CancelValidation(c)
<1>1. d \in CoreRec
  BY DEF Sound, CancelValidation, CoreRec, NoReq
<1>2. LocalMode(d) /\ CoresOwned(d) /\ d.validation = NoReq
  BY DEF Sound, CancelValidation, CoreRec, LocalMode, CoresOwned
<1>3. ValidatorsOwned(d)
  BY DEF Sound, CancelValidation, CoreRec, ValidatorsOwned, NoReq
<1>4. RequestsCurrent(d, w, n)
  BY DEF Sound, CancelValidation, CoreRec, RequestsCurrent, NoReq
<1> QED
  BY <1>1, <1>2, <1>3, <1>4 DEF Sound

\* After Supersede no request is pending, whatever was before.
LEMMA SupersedeSound ==
    ASSUME NEW c, NEW w \in Nat, NEW n \in Nat, NEW v \in Nat, Sound(c, w, n)
    PROVE  Sound(Supersede(c), v, n) /\ Reset(Supersede(c))
<1> DEFINE d == CancelValidation(c)
<1>1. Sound(d, w, n) /\ d.validation = NoReq
  BY CancelValidationSound
<1>2. d \in CoreRec /\ d.launchGeneration + 1 \in Nat
  BY <1>1 DEF Sound, CoreRec
<1>3. PICK g \in Nat :
         Supersede(c) = [d EXCEPT !.launchGeneration = g, !.serviceParsing = FALSE,
                                  !.pendingLaunch = NoReq]
  BY <1>2 DEF Supersede
<1> HIDE DEF d
<1>4. LocalMode(Supersede(c)) /\ CoresOwned(Supersede(c)) /\ Reset(Supersede(c))
  BY <1>1, <1>2, <1>3 DEF Sound, CoreRec, LocalMode, CoresOwned, Reset, NoReq
<1>5. ValidatorsOwned(Supersede(c))
  BY <1>1, <1>2, <1>3 DEF Sound, CoreRec, ValidatorsOwned
<1>6. RequestsCurrent(Supersede(c), v, n)
  BY <1>1, <1>2, <1>3 DEF Sound, CoreRec, RequestsCurrent, NoReq
<1>7. Supersede(c) \in CoreRec
  <2>1. [d EXCEPT !.launchGeneration = g, !.serviceParsing = FALSE,
                  !.pendingLaunch = NoReq] \in CoreRec
    BY <1>2 DEF CoreRec, NoReq
  <2> QED
    BY <1>3, <2>1
<1> QED
  BY <1>4, <1>5, <1>6, <1>7 DEF Sound

\* finishStop() with no launch pending changes state, endpoint and signals.
LEMMA SettleTypes ==
    ASSUME NEW c \in CoreRec
    PROVE  Settle(c) \in CoreRec
<1> DEFINE d == [c EXCEPT !.endpoint = NoReq]
<1>1. d \in CoreRec
  BY DEF CoreRec, NoReq
<1>2. \A st \in CoreState : [d EXCEPT !.state = st] \in CoreRec
  BY <1>1 DEF CoreRec
<1>3. \A st \in CoreState, x \in SUBSET Signal :
          Emit([d EXCEPT !.state = st, !.explicitStop = FALSE], x) \in CoreRec
  <2> TAKE st \in CoreState, x \in SUBSET Signal
  <2> DEFINE e == [d EXCEPT !.state = st, !.explicitStop = FALSE]
  <2> HIDE DEF d
  <2>1. e \in CoreRec
    BY <1>1 DEF CoreRec
  <2> HIDE DEF e
  <2>2. e.sig \cup x \in SUBSET Signal
    BY <2>1 DEF CoreRec
  <2>3. \A y \in SUBSET Signal : [e EXCEPT !.sig = y] \in CoreRec
    BY <2>1 DEF CoreRec
  <2> QED
    BY <2>2, <2>3 DEF Emit, e
<1> HIDE DEF d
<1> QED
  BY <1>2, <1>3 DEF Settle, CoreState, Signal, d

\* finishStop() rests, when the probing it finds belongs to a validation.
LEMMA SettleRests ==
    ASSUME NEW c, NEW w \in Nat, NEW n \in Nat, Sound(c, w, n),
           c.process = NoReq, c.retiring = NoReq, c.pendingLaunch = NoReq,
           c.validation \in c.checking \cup {NoReq},
           c.readyTimer => c.validation # NoReq,
           c.probeReply # NoReq => c.readyTimer
    PROVE  Sound(Settle(c), w, n) /\ Resting(Settle(c))
<1>1. Settle(c) \in CoreRec
  BY SettleTypes DEF Sound
<1>2. LocalMode(Settle(c)) /\ CoresOwned(Settle(c)) /\ ValidatorsOwned(Settle(c))
  BY DEF Sound, Settle, Emit, CoreRec, LocalMode, CoresOwned, ValidatorsOwned
<1>3. RequestsCurrent(Settle(c), w, n)
  BY DEF Sound, Settle, Emit, CoreRec, RequestsCurrent
<1>4. Resting(Settle(c))
  BY DEF Sound, Settle, Emit, CoreRec, Resting, CoresOwned, LocalMode
<1> QED
  BY <1>1, <1>2, <1>3, <1>4 DEF Sound

\* The states from which terminateProcess() without a launch comes to rest.
Halting(c) ==
    /\ c.pendingLaunch = NoReq
    /\ c.validation \in c.checking \cup {NoReq}
    /\ c.readyTimer => c.validation # NoReq
    /\ c.probeReply # NoReq => c.readyTimer

\* discardProcess() forgets a child that has exited.
LEMMA DiscardSound ==
    ASSUME NEW c, NEW w \in Nat, NEW n \in Nat, Sound(c, w, n), NothingRuns(c)
    PROVE  /\ Sound(DiscardProcess(c), w, n)
           /\ DiscardProcess(c).process = NoReq
           /\ DiscardProcess(c).retiring = NoReq
<1> DEFINE d == DiscardProcess(c)
<1>1. d \in CoreRec
  BY DEF Sound, DiscardProcess, CoreRec, NoReq
<1>2. LocalMode(d) /\ CoresOwned(d) /\ ValidatorsOwned(d) /\ d.process = NoReq /\ d.retiring = NoReq
  BY DEF Sound, DiscardProcess, CoreRec, LocalMode, CoresOwned, ValidatorsOwned, NothingRuns
<1>3. RequestsCurrent(d, w, n)
  BY DEF Sound, DiscardProcess, CoreRec, RequestsCurrent
<1> QED
  BY <1>1, <1>2, <1>3 DEF Sound

\* terminateProcess() with a live core hands it over to retiring_.
LEMMA RetireSound ==
    ASSUME NEW c, NEW w \in Nat, NEW n \in Nat, Sound(c, w, n), ~NothingRuns(c)
    PROVE  /\ Sound(Retire(c), w, n)
           /\ Retire(c).process = NoReq /\ Retire(c).retiring # NoReq
           /\ Retire(c).state = "Stopping"
<1> DEFINE d == Retire(c)
<1>1. d \in CoreRec
  BY DEF Sound, LocalMode, Retire, CoreRec, NoReq, CoreState
<1>2. LocalMode(d) /\ ValidatorsOwned(d)
  BY DEF Sound, Retire, CoreRec, LocalMode, ValidatorsOwned
<1>3. CoresOwned(d) /\ d.process = NoReq /\ d.retiring # NoReq /\ d.state = "Stopping"
  BY DEF Sound, Retire, CoreRec, LocalMode, CoresOwned, NothingRuns
<1>4. RequestsCurrent(d, w, n)
  BY DEF Sound, Retire, CoreRec, RequestsCurrent
<1> QED
  BY <1>1, <1>2, <1>3, <1>4 DEF Sound

\* Stopping with no launch pending leaves the object at rest between events.
LEMMA QuiesceRests ==
    ASSUME NEW c, NEW w \in Nat, NEW n \in Nat, Sound(c, w, n), Halting(c)
    PROVE  Sound(Quiesce(c), w, n) /\ Resting(Quiesce(c))
<1>1. CASE NothingRuns(c)
  <2> DEFINE d == DiscardProcess(c)
  <2>1. Sound(d, w, n) /\ d.process = NoReq /\ d.retiring = NoReq
    BY <1>1, DiscardSound
  <2>2. Halting(d)
    BY DEF Sound, DiscardProcess, Halting, CoreRec
  <2>3. Quiesce(c) = Settle(d)
    BY <1>1 DEF Quiesce
  <2> HIDE DEF d
  <2> QED
    BY <2>1, <2>2, <2>3, SettleRests DEF Halting
<1>2. CASE ~NothingRuns(c)
  <2> DEFINE d == Retire(c)
  <2>1. Sound(d, w, n) /\ d.process = NoReq /\ d.retiring # NoReq /\ d.state = "Stopping"
    BY <1>2, RetireSound
  <2>2. Halting(d)
    BY DEF Sound, LocalMode, Retire, Halting, CoreRec
  <2>3. Resting(d)
    BY <2>1, <2>2 DEF Halting, Resting
  <2> QED
    BY <1>2, <2>1, <2>3 DEF Quiesce
<1> QED
  BY <1>1, <1>2

\* fail() and stop() leave the object at rest.
LEMMA HaltRests ==
    ASSUME NEW c, NEW w \in Nat, NEW n \in Nat, NEW v \in Nat, Sound(c, w, n),
           NEW x \in BOOLEAN, NEW r \in {"Stopped", "Failed"}
    PROVE  Sound(Halt(c, x, r), v, n) /\ Resting(Halt(c, x, r))
<1> DEFINE s == Supersede(c)
           p == StopProbing(s)
           d == [p EXCEPT !.explicitStop = x, !.endpoint = NoReq, !.stopResult = r]
<1>1. Sound(s, v, n) /\ Reset(s)
  BY SupersedeSound
<1> HIDE DEF s
<1>2. Sound(p, v, n) /\ Reset(p) /\ ~p.readyTimer /\ p.probeReply = NoReq
  <2>1. Sound(p, v, n) /\ ~p.readyTimer /\ p.probeReply = NoReq
    BY <1>1, StopProbingSound
  <2>2. Reset(p)
    BY <1>1 DEF StopProbing, Reset, Sound, CoreRec
  <2> QED
    BY <2>1, <2>2
<1> HIDE DEF p
<1>3. d \in CoreRec
  <2>1. p \in CoreRec
    BY <1>2 DEF Sound
  <2> QED
    BY <2>1 DEF CoreRec, NoReq
<1>4. LocalMode(d) /\ CoresOwned(d) /\ ValidatorsOwned(d) /\ Halting(d)
  BY <1>2 DEF Sound, CoreRec, LocalMode, CoresOwned, ValidatorsOwned, Halting, Reset
<1>5. RequestsCurrent(d, v, n)
  BY <1>2 DEF Sound, CoreRec, RequestsCurrent
<1>6. Sound(d, v, n) /\ Halting(d)
  BY <1>3, <1>4, <1>5 DEF Sound
<1> HIDE DEF d
<1>7. Sound(Quiesce(d), v, n) /\ Resting(Quiesce(d))
  BY <1>6, QuiesceRests
<1> QED
  BY <1>7 DEF Halt, d, p, s

\* fail() leaves the object at rest.
LEMMA FailRests ==
    ASSUME NEW c, NEW w \in Nat, NEW n \in Nat, Sound(c, w, n)
    PROVE  Sound(Fail(c), w, n) /\ Resting(Fail(c))
<1>1. c.explicitStop \in BOOLEAN
  BY DEF Sound, CoreRec
<1> QED
  BY <1>1, HaltRests DEF Fail

\* stop() leaves the object at rest.
LEMMA StopRests ==
    ASSUME NEW c, NEW w \in Nat, NEW n \in Nat, Sound(c, w, n)
    PROVE  Sound(Stop(c), NoReq, n) /\ Resting(Stop(c))
BY HaltRests DEF Stop, NoReq

-----------------------------------------------------------------------------
(* Launching *)

\* The object before and after the child was started.
ChildCreated(c, r) ==
    [[c EXCEPT !.configPath = r, !.endpoint = NoReq] EXCEPT !.process = r, !.state = "Starting"]
ChildStarted(c, r) == [ChildCreated(c, r) EXCEPT !.alive = @ \cup {r}]

\* The object when a request newer than the last one may be launched.
MayLaunch(c, r, n) ==
    /\ Sound(c, r, n)
    /\ c.process = NoReq /\ c.retiring = NoReq /\ c.pendingLaunch = NoReq
    /\ c.validation = NoReq /\ ~c.readyTimer /\ c.probeReply = NoReq
    /\ r # NoReq /\ c.configPath < r /\ r <= n

\* launchProcess() either fails at once or leaves a new live core.
LEMMA LaunchCases ==
    ASSUME NEW c, NEW n \in Nat, NEW r \in Nat, MayLaunch(c, r, n),
           NEW outcome \in LaunchOutcome
    PROVE  LET d == ChildCreated(c, r)
               e == ChildStarted(c, r)
           IN /\ LaunchProcess(c, r, outcome) \in {Fail(d), Fail(e), AwaitController(e, r)}
              /\ Sound(d, r, n) /\ d.configPath = r /\ d.alive = {}
              /\ Sound(e, r, n) /\ e.configPath = r /\ e.alive = {r}
              /\ e.process = r /\ Halting(e) /\ e.retiring = NoReq
<1> DEFINE q == [c EXCEPT !.configPath = r, !.endpoint = NoReq]
           d == [q EXCEPT !.process = r, !.state = "Starting"]
           e == [d EXCEPT !.alive = @ \cup {r}]
<1> USE DEF MayLaunch
<1>1. c.alive = {}
  BY DEF Sound, CoresOwned, CoreRec
<1>2. Sound(d, r, n) /\ d.alive = {} /\ d.process = r /\ d.configPath = r
  <2>1. d \in CoreRec
    BY DEF Sound, CoreRec, NoReq, CoreState
  <2>2. /\ LocalMode(d) /\ CoresOwned(d) /\ ValidatorsOwned(d)
        /\ d.alive = {} /\ d.process = r /\ d.configPath = r
    BY <1>1 DEF Sound, CoreRec, LocalMode, CoresOwned, ValidatorsOwned
  <2>3. RequestsCurrent(d, r, n)
    BY DEF Sound, CoreRec, RequestsCurrent
  <2> QED
    BY <2>1, <2>2, <2>3 DEF Sound
<1>3. Sound(e, r, n) /\ e.configPath = r /\ e.alive = {r}
  <2>1. e \in CoreRec
    <3>1. d \in CoreRec
      BY <1>2 DEF Sound
    <3> HIDE DEF d
    <3> QED
      BY <3>1 DEF CoreRec
  <2>2. LocalMode(e) /\ CoresOwned(e) /\ ValidatorsOwned(e) /\ e.configPath = r /\ e.alive = {r}
    BY <1>1 DEF Sound, CoreRec, LocalMode, CoresOwned, ValidatorsOwned
  <2>3. RequestsCurrent(e, r, n)
    BY DEF Sound, CoreRec, RequestsCurrent
  <2> QED
    BY <2>1, <2>2, <2>3 DEF Sound
<1>4. e.process = r /\ Halting(e) /\ e.retiring = NoReq
  BY DEF Sound, CoreRec, Halting
<1>5. LaunchProcess(c, r, outcome) \in {Fail(d), Fail(e), AwaitController(e, r)}
  <2>1. ~q.useService
    BY DEF Sound, LocalMode, CoreRec
  <2> QED
    BY <2>1 DEF LaunchProcess, LaunchChild
<1> QED
  BY <1>2, <1>3, <1>4, <1>5 DEF ChildCreated, ChildStarted

\* Launching the newest request after its predecessor is gone leaves the object at rest.
LEMMA LaunchRests ==
    ASSUME NEW c, NEW n \in Nat, NEW r \in Nat, MayLaunch(c, r, n),
           NEW outcome \in LaunchOutcome
    PROVE  LET d == LaunchProcess(c, r, outcome) IN Sound(d, r, n) /\ Resting(d)
<1> DEFINE d == ChildCreated(c, r)
           e == ChildStarted(c, r)
           a == AwaitController(e, r)
<1>1. /\ LaunchProcess(c, r, outcome) \in {Fail(d), Fail(e), a}
      /\ Sound(d, r, n) /\ Sound(e, r, n)
      /\ e.process = r /\ e.alive = {r} /\ Halting(e) /\ e.retiring = NoReq
  BY LaunchCases
<1>2. e.state = "Starting"
  BY DEF MayLaunch, Sound, CoreRec, ChildStarted, ChildCreated
<1> HIDE DEF d, e
<1>3. Sound(a, r, n)
  <2>1. a \in CoreRec
    BY <1>1 DEF Sound, CoreRec, AwaitController
  <2>2. LocalMode(a) /\ CoresOwned(a) /\ ValidatorsOwned(a) /\ RequestsCurrent(a, r, n)
    BY <1>1 DEF Sound, CoreRec, LocalMode, CoresOwned, ValidatorsOwned, RequestsCurrent,
                AwaitController
  <2> QED
    BY <2>1, <2>2 DEF Sound
<1>4. Resting(a)
  BY <1>1, <1>2 DEF MayLaunch, Sound, CoreRec, Resting, Halting, AwaitController, NoReq
<1> HIDE DEF a
<1> QED
  BY <1>1, <1>3, <1>4, FailRests

\* The states from which finishStop() and terminateProcess() with a launch
\* waiting come to rest.
Launching(c, r, n) ==
    /\ c.pendingLaunch = r /\ r # NoReq
    /\ c.configPath < r /\ r <= n
    /\ c.validation = NoReq
    /\ ~c.readyTimer /\ c.probeReply = NoReq

\* finishStop() leaves the object at rest, whether it launches or settles.
LEMMA FinishStopRests ==
    ASSUME NEW c, NEW w \in Nat, NEW n \in Nat, Sound(c, w, n), w <= n,
           c.process = NoReq, c.retiring = NoReq,
           Launching(c, w, n) \/ Halting(c),
           NEW outcome \in LaunchOutcome
    PROVE  LET d == FinishStop(c, outcome) IN Sound(d, w, n) /\ Resting(d)
<1>1. CASE Launching(c, w, n)
  <2> DEFINE d == [c EXCEPT !.pendingLaunch = NoReq]
  <2>1. d \in CoreRec
    BY DEF Sound, CoreRec, NoReq
  <2>2. /\ LocalMode(d) /\ CoresOwned(d) /\ ValidatorsOwned(d)
        /\ d.process = NoReq /\ d.retiring = NoReq /\ d.pendingLaunch = NoReq
        /\ d.validation = NoReq /\ ~d.readyTimer /\ d.probeReply = NoReq
        /\ d.configPath < w
    BY <1>1 DEF Sound, CoreRec, LocalMode, CoresOwned, ValidatorsOwned, Launching
  <2>3. RequestsCurrent(d, w, n)
    BY DEF Sound, CoreRec, RequestsCurrent
  <2>4. MayLaunch(d, w, n)
    BY <1>1, <2>1, <2>2, <2>3 DEF Sound, MayLaunch, Launching
  <2>5. FinishStop(c, outcome) = LaunchProcess(d, w, outcome)
    BY <1>1 DEF FinishStop, Launching
  <2> HIDE DEF d
  <2> QED
    BY <2>4, <2>5, LaunchRests
<1>2. CASE Halting(c)
  BY <1>2, SettleRests DEF FinishStop, Halting
<1> QED
  BY <1>1, <1>2

\* launchValidated() leaves the object at rest.
LEMMA LaunchValidatedRests ==
    ASSUME NEW c, NEW r \in Nat, NEW n \in Nat, Sound(c, r, n),
           c.validation = NoReq, r # NoReq, c.configPath < r, r <= n,
           NEW outcome \in LaunchOutcome
    PROVE  LET d == LaunchValidated(c, r, outcome) IN Sound(d, r, n) /\ Resting(d)
<1> DEFINE p == StopProbing(c)
           d == [p EXCEPT !.pendingLaunch = r, !.stopResult = "Stopped"]
<1>1. /\ Sound(p, r, n) /\ ~p.readyTimer /\ p.probeReply = NoReq
      /\ p.validation = NoReq /\ p.configPath < r
  <2>1. p.validation = c.validation /\ p.configPath = c.configPath
    BY DEF StopProbing, Sound, CoreRec
  <2> QED
    BY <2>1, StopProbingSound
<1> HIDE DEF p
<1>2. Sound(d, r, n)
  <2>1. d \in CoreRec
    BY <1>1 DEF Sound, CoreRec
  <2>2. LocalMode(d) /\ CoresOwned(d) /\ ValidatorsOwned(d)
    BY <1>1 DEF Sound, CoreRec, LocalMode, CoresOwned, ValidatorsOwned
  <2>3. RequestsCurrent(d, r, n)
    BY <1>1 DEF Sound, CoreRec, RequestsCurrent
  <2> QED
    BY <2>1, <2>2, <2>3 DEF Sound
<1>3. Launching(d, r, n)
  BY <1>1 DEF Sound, CoreRec, Launching
<1>4. LaunchValidated(c, r, outcome) = TerminateProcess(d, outcome)
  BY DEF LaunchValidated, p
<1> HIDE DEF d
<1>5. CASE NothingRuns(d)
  <2> DEFINE e == DiscardProcess(d)
  <2>1. Sound(e, r, n) /\ e.process = NoReq /\ e.retiring = NoReq
    BY <1>2, <1>5, DiscardSound
  <2>2. Launching(e, r, n)
    BY <1>2, <1>3 DEF DiscardProcess, Launching, Sound, CoreRec
  <2>3. TerminateProcess(d, outcome) = FinishStop(e, outcome)
    BY <1>5 DEF TerminateProcess
  <2> HIDE DEF e
  <2> QED
    BY <1>4, <2>1, <2>2, <2>3, FinishStopRests
<1>6. CASE ~NothingRuns(d)
  <2> DEFINE e == Retire(d)
  <2>1. Sound(e, r, n) /\ e.process = NoReq /\ e.retiring # NoReq /\ e.state = "Stopping"
    BY <1>2, <1>6, RetireSound
  <2>2. Launching(e, r, n)
    BY <1>2, <1>3 DEF Retire, Launching, Sound, LocalMode, CoreRec
  <2>3. Resting(e)
    BY <2>1, <2>2 DEF Launching, Resting
  <2>4. TerminateProcess(d, outcome) = e
    BY <1>6 DEF TerminateProcess
  <2> HIDE DEF e
  <2> QED
    BY <1>4, <2>1, <2>3, <2>4
<1> QED
  BY <1>5, <1>6

-----------------------------------------------------------------------------
(* Validating *)

\* A failure report changes nothing else.
LEMMA EmitSound ==
    ASSUME NEW c, NEW w \in Nat, NEW n \in Nat, Sound(c, w, n), NEW s \in SUBSET Signal
    PROVE  Sound(Emit(c, s), w, n) /\ (Resting(c) => Resting(Emit(c, s)))
<1> DEFINE d == Emit(c, s)
<1>1. d \in CoreRec
  BY DEF Sound, Emit, CoreRec
<1>2. LocalMode(d) /\ CoresOwned(d) /\ ValidatorsOwned(d) /\ RequestsCurrent(d, w, n)
  BY DEF Sound, Emit, CoreRec, LocalMode, CoresOwned, ValidatorsOwned, RequestsCurrent
<1>3. Resting(c) => Resting(d)
  BY DEF Sound, Emit, CoreRec, Resting
<1> QED
  BY <1>1, <1>2, <1>3 DEF Sound

\* A running core has no probe timer, so nothing is left to reset.
LEMMA RejectRests ==
    ASSUME NEW c, NEW w \in Nat, NEW n \in Nat, Sound(c, w, n),
           c.state = "Running" => Resting(c)
    PROVE  Sound(Reject(c), w, n) /\ Resting(Reject(c))
BY EmitSound, FailRests DEF Reject, Signal

\* finishValidation() leaves the object at rest.
LEMMA FinishValidationRests ==
    ASSUME NEW c, NEW w \in Nat, NEW n \in Nat, Sound(c, w, n), w <= n,
           c.validation # NoReq,
           c.process \in c.alive \cup {NoReq},
           c.pendingLaunch = NoReq,
           c.retiring # NoReq => c.state = "Stopping",
           c.state = "Running" => ~c.readyTimer /\ c.probeReply = NoReq,
           c.state \notin {"Stopped", "Failed"},
           NEW valid \in BOOLEAN, NEW outcome \in LaunchOutcome
    PROVE  LET d == FinishValidation(c, valid, outcome) IN Sound(d, w, n) /\ Resting(d)
<1> DEFINE d == CancelValidation(c)
<1>1. Sound(d, w, n) /\ d.validation = NoReq
  BY CancelValidationSound
<1>2. /\ c.validation = w /\ d.configPath < w /\ ~d.useService
      /\ d.state = c.state /\ d.process \in d.alive \cup {NoReq}
      /\ d.readyTimer = c.readyTimer /\ d.probeReply = c.probeReply
      /\ d.pendingLaunch = NoReq /\ d.retiring = c.retiring
  BY DEF Sound, LocalMode, RequestsCurrent, CancelValidation, CoreRec
<1>3. FinishValidation(c, valid, outcome) =
        IF ~valid THEN Reject(d) ELSE LaunchValidated(d, w, outcome)
  BY <1>2 DEF FinishValidation
<1> HIDE DEF d
<1>4. CASE valid
  BY <1>1, <1>2, <1>3, <1>4, LaunchValidatedRests
<1>5. CASE ~valid
  <2>1. d.state = "Running" => Resting(d)
    BY <1>1, <1>2 DEF Resting
  <2> QED
    BY <1>1, <1>3, <1>5, <2>1, RejectRests
<1> QED
  BY <1>4, <1>5

-----------------------------------------------------------------------------
(* start() *)

\* What is left when start() has stopped a core that was not running yet.
Preempted(c) ==
    /\ Reset(c)
    /\ c.process \in c.alive \cup {NoReq}
    /\ c.readyTimer => c.state \in {"Starting", "Stopping"}
    /\ c.probeReply # NoReq => c.readyTimer
    /\ c.retiring # NoReq => c.state = "Stopping"

\* The first part of start() leaves no request pending.
LEMMA StartPreemptsSound ==
    ASSUME NEW c, NEW w \in Nat, NEW n \in Nat, Sound(c, w, n), Resting(c)
    PROVE  Sound(StartPreempts(c), n + 1, n) /\ Preempted(StartPreempts(c))
<1> DEFINE s == Supersede(c)
           d == [s EXCEPT !.explicitStop = FALSE]
           q == [d EXCEPT !.stopResult = "Stopped"]
<1>1. Sound(s, n + 1, n) /\ Reset(s)
  BY SupersedeSound
<1>2. /\ s.process = c.process /\ s.alive = c.alive /\ s.state = c.state
      /\ s.retiring = c.retiring /\ s.readyTimer = c.readyTimer
      /\ s.probeReply = c.probeReply
  BY DEF Supersede, CancelValidation, Sound, CoreRec
<1> HIDE DEF s
<1>3. Sound(d, n + 1, n) /\ Preempted(d)
  <2>1. d \in CoreRec
    BY <1>1 DEF Sound, CoreRec
  <2>2. LocalMode(d) /\ CoresOwned(d) /\ ValidatorsOwned(d) /\ RequestsCurrent(d, n + 1, n)
    BY <1>1 DEF Sound, CoreRec, LocalMode, CoresOwned, ValidatorsOwned, RequestsCurrent
  <2>3. Preempted(d)
    BY <1>1, <1>2 DEF Sound, CoreRec, Reset, Preempted, Resting
  <2> QED
    BY <2>1, <2>2, <2>3 DEF Sound
<1>4. StartPreempts(c) = IF (d.process # NoReq \/ d.serviceActive) /\ d.state # "Running"
                         THEN Quiesce(q) ELSE d
  BY DEF StartPreempts, s
<1>5. CASE d.process # NoReq /\ d.state # "Running"
  <2>1. Sound(q, n + 1, n)
    <3>1. q \in CoreRec
      BY <1>3 DEF Sound, CoreRec
    <3>2. LocalMode(q) /\ CoresOwned(q) /\ ValidatorsOwned(q) /\ RequestsCurrent(q, n + 1, n)
      BY <1>3 DEF Sound, CoreRec, LocalMode, CoresOwned, ValidatorsOwned, RequestsCurrent
    <3> QED
      BY <3>1, <3>2 DEF Sound
  <2>2. ~NothingRuns(q) /\ Preempted(q)
    BY <1>3, <1>5 DEF NothingRuns, Preempted, Reset, Sound, CoreRec
  <2>3. StartPreempts(c) = Retire(q)
    BY <1>4, <1>5, <2>2 DEF Quiesce
  <2> HIDE DEF q
  <2>4. Sound(Retire(q), n + 1, n) /\ Retire(q).process = NoReq /\ Retire(q).state = "Stopping"
    BY <2>1, <2>2, RetireSound
  <2>5. Preempted(Retire(q))
    BY <2>1, <2>2, <2>4 DEF Retire, Preempted, Reset, Sound, LocalMode, CoreRec
  <2> QED
    BY <2>3, <2>4, <2>5
<1>6. CASE ~(d.process # NoReq /\ d.state # "Running")
  <2>1. ~d.serviceActive
    BY <1>3 DEF Sound, LocalMode
  <2>2. StartPreempts(c) = d
    BY <1>4, <1>6, <2>1
  <2> QED
    BY <1>3, <2>2
<1> QED
  BY <1>5, <1>6

\* start() makes the new request the validated one.
LEMMA BeginValidationSound ==
    ASSUME NEW p, NEW n \in Nat, NEW r \in Nat, r = n + 1, Sound(p, r, n), Preempted(p)
    PROVE  LET d == BeginValidation(p, r) IN
           /\ Sound(d, r, r)
           /\ r # NoReq /\ d.validation = r /\ r \notin d.checking
           /\ d.process \in d.alive \cup {NoReq}
           /\ d.pendingLaunch = NoReq
           /\ d.state = "Running" => ~d.readyTimer /\ d.probeReply = NoReq
           /\ d.state \notin {"Stopped", "Failed"}
           /\ d.readyTimer => d.state \in {"Starting", "Stopping"}
           /\ d.probeReply # NoReq => d.readyTimer
           /\ d.retiring # NoReq => d.state = "Stopping"
<1> DEFINE st == IF p.state # "Running" /\ p.retiring = NoReq THEN "Starting" ELSE p.state
           d == [p EXCEPT !.validation = r, !.state = st]
<1>1. d = BeginValidation(p, r)
  BY DEF BeginValidation
<1>2. p.checking \subseteq Nat /\ r \notin p.checking /\ r # NoReq /\ p.configPath < r
  BY DEF Sound, CoreRec, RequestsCurrent, NoReq
<1>3. Sound(d, r, r)
  <2>1. p \in CoreRec /\ st \in CoreState
    BY DEF Sound, CoreRec, CoreState
  <2> HIDE DEF st
  <2>2. d \in CoreRec
    BY <2>1 DEF CoreRec
  <2>3. LocalMode(d) /\ CoresOwned(d)
    BY DEF Sound, CoreRec, LocalMode, CoresOwned
  <2>4. ValidatorsOwned(d)
    BY <1>2 DEF Sound, CoreRec, ValidatorsOwned, Preempted, Reset
  <2>5. RequestsCurrent(d, r, r)
    BY <1>2 DEF Sound, CoreRec, RequestsCurrent, Preempted, Reset
  <2> QED
    BY <2>2, <2>3, <2>4, <2>5 DEF Sound
<1>4. /\ d.validation = r /\ r \notin d.checking
      /\ d.process \in d.alive \cup {NoReq}
      /\ d.pendingLaunch = NoReq
      /\ d.state = "Running" => ~d.readyTimer /\ d.probeReply = NoReq
      /\ d.state \notin {"Stopped", "Failed"}
      /\ d.readyTimer => d.state \in {"Starting", "Stopping"}
      /\ d.probeReply # NoReq => d.readyTimer
      /\ d.retiring # NoReq => d.state = "Stopping"
  BY <1>2 DEF Sound, CoreRec, Preempted, Reset
<1> QED
  BY <1>1, <1>2, <1>3, <1>4

\* start() leaves the object at rest.
LEMMA StartRests ==
    ASSUME NEW c, NEW w \in Nat, NEW n \in Nat, Sound(c, w, n), Resting(c),
           NEW found \in BOOLEAN, NEW begins \in BOOLEAN, NEW r \in Nat, r = n + 1
    PROVE  LET d == Start(c, r, found, begins) IN Sound(d, r, r) /\ Resting(d)
<1> DEFINE p == StartPreempts(c)
           d == BeginValidation(p, r)
           e == [d EXCEPT !.checking = @ \cup {r}]
<1>1. Sound(p, r, n) /\ Preempted(p)
  BY StartPreemptsSound
<1>2. Start(c, r, found, begins) =
        IF ~found THEN Reject(p)
        ELSE IF begins THEN e ELSE FinishValidation(d, FALSE, "awaits")
  BY DEF Start, StartValidates
<1> HIDE DEF p
<1>3. Sound(p, r, r)
  BY <1>1 DEF Sound, CoreRec, RequestsCurrent
<1>4. p.state = "Running" => Resting(p)
  BY <1>1 DEF Preempted, Reset, Resting
<1>5. /\ Sound(d, r, r)
      /\ d.validation # NoReq /\ d.validation = r
      /\ d.process \in d.alive \cup {NoReq}
      /\ d.pendingLaunch = NoReq
      /\ d.state = "Running" => ~d.readyTimer /\ d.probeReply = NoReq
      /\ d.state \notin {"Stopped", "Failed"}
      /\ d.readyTimer => d.state \in {"Starting", "Stopping"}
      /\ d.probeReply # NoReq => d.readyTimer
      /\ d.retiring # NoReq => d.state = "Stopping"
  BY <1>1, BeginValidationSound
<1> HIDE DEF d
<1>6. Sound(e, r, r) /\ Resting(e)
  <2>1. e \in CoreRec
    BY <1>5 DEF Sound, CoreRec
  <2>2. LocalMode(e) /\ CoresOwned(e) /\ RequestsCurrent(e, r, r)
    BY <1>5 DEF Sound, CoreRec, LocalMode, CoresOwned, RequestsCurrent
  <2>3. ValidatorsOwned(e)
    BY <1>5 DEF Sound, CoreRec, ValidatorsOwned
  <2>4. Resting(e)
    BY <1>5 DEF Sound, CoreRec, Resting
  <2> QED
    BY <2>1, <2>2, <2>3, <2>4 DEF Sound
<1> HIDE DEF e
<1>7. LET f == FinishValidation(d, FALSE, "awaits") IN Sound(f, r, r) /\ Resting(f)
  <2>1. "awaits" \in LaunchOutcome /\ FALSE \in BOOLEAN /\ r <= r
    BY DEF LaunchOutcome
  <2> QED
    BY <1>5, <2>1, FinishValidationRests
<1>8. Sound(Reject(p), r, r) /\ Resting(Reject(p))
  BY <1>3, <1>4, RejectRests
<1> QED
  BY <1>2, <1>6, <1>7, <1>8

-----------------------------------------------------------------------------
(* A killed validator exits *)

\* The exit of a killed validator leaves the object at rest.
LEMMA RetireValidationRests ==
    ASSUME NEW c, NEW w \in Nat, NEW n \in Nat, Sound(c, w, n), Resting(c), w <= n,
           NEW v \in c.cancelingValidations, NEW outcome \in LaunchOutcome
    PROVE  LET d == RetireValidation(c, v, outcome) IN Sound(d, w, n) /\ Resting(d)
<1> DEFINE d == [c EXCEPT !.checking = @ \ {v}, !.cancelingValidations = @ \ {v}]
<1>1. d \in CoreRec
  BY DEF Sound, CoreRec
<1>2. LocalMode(d) /\ CoresOwned(d) /\ RequestsCurrent(d, w, n)
  BY DEF Sound, CoreRec, LocalMode, CoresOwned, RequestsCurrent
<1>3. ValidatorsOwned(d)
  BY DEF Sound, CoreRec, ValidatorsOwned
<1>4. Resting(d)
  BY DEF Sound, CoreRec, Resting, ValidatorsOwned
<1>5. Sound(d, w, n)
  BY <1>1, <1>2, <1>3 DEF Sound
<1>6. RetireValidation(c, v, outcome) =
        IF /\ d.process = NoReq /\ d.retiring = NoReq
           /\ d.validation = NoReq /\ ~d.serviceActive
        THEN FinishStop(d, outcome) ELSE d
  BY DEF RetireValidation
<1> HIDE DEF d
<1>7. d.process = NoReq /\ d.retiring = NoReq /\ d.validation = NoReq => Halting(d)
  BY <1>4 DEF Resting, Halting
<1> QED
  BY <1>4, <1>5, <1>6, <1>7, FinishStopRests

-----------------------------------------------------------------------------
(* The invariant *)

\* Clearing the collected signals changes nothing else.
LEMMA HandlingRests ==
    ASSUME NEW c, NEW w \in Nat, NEW n \in Nat, Sound(c, w, n), Resting(c)
    PROVE  Sound(Handling(c), w, n) /\ Resting(Handling(c))
<1> DEFINE d == Handling(c)
<1>1. d \in CoreRec
  BY DEF Sound, Handling, CoreRec
<1>2. LocalMode(d) /\ CoresOwned(d) /\ ValidatorsOwned(d) /\ RequestsCurrent(d, w, n)
  BY DEF Sound, Handling, CoreRec, LocalMode, CoresOwned, ValidatorsOwned, RequestsCurrent
<1>3. Resting(d)
  BY DEF Sound, Handling, CoreRec, Resting
<1> QED
  BY <1>1, <1>2, <1>3 DEF Sound

\* Every handler leaves the object sound and at rest.
LEMMA NextRests ==
    ASSUME IInv, Next
    PROVE  Sound(core', wanted', starts') /\ Resting(core')
<1> DEFINE c == Handling(core)
<1>1. /\ Sound(core, wanted, starts) /\ Resting(core) /\ BoundsAssumption
      /\ wanted \in Nat /\ starts \in Nat /\ wanted <= starts
  BY BoundsAssumption DEF IInv, TypeOK, Sound, NoReq
<1>2. Sound(c, wanted, starts) /\ Resting(c)
  BY <1>1, HandlingRests
<1>3. /\ c.validation = core.validation /\ c.process = core.process
      /\ c.cancelingValidations = core.cancelingValidations
      /\ c.retiring = core.retiring /\ c.readyTimer = core.readyTimer
      /\ c.state = core.state /\ c.pendingEndpoint = core.pendingEndpoint
      /\ c.probeReply = core.probeReply
  BY <1>1 DEF Sound, CoreRec, Handling
<1> HIDE DEF c
<1>4. ASSUME NEW found \in BOOLEAN, NEW begins \in BOOLEAN, CallStart(found, begins)
      PROVE  Sound(core', wanted', starts') /\ Resting(core')
  <2>1. core' = Start(c, starts + 1, found, begins)
    BY <1>4 DEF CallStart, Handle, c
  <2>2. starts + 1 \in Nat /\ wanted' = starts + 1 /\ starts' = starts + 1
    BY <1>1, <1>4 DEF CallStart
  <2> QED
    BY <1>1, <1>2, <2>1, <2>2, StartRests
<1>5. CASE CallStop
  <2>1. core' = Stop(c) /\ wanted' = NoReq /\ starts' = starts
    BY <1>5 DEF CallStop, Handle, c
  <2> QED
    BY <1>1, <1>2, <2>1, StopRests
<1>6. ASSUME NEW valid \in BOOLEAN, NEW outcome \in LaunchOutcome,
             ValidatorExits(valid, outcome)
      PROVE  Sound(core', wanted', starts') /\ Resting(core')
  <2> DEFINE d == [c EXCEPT !.checking = @ \ {c.validation}]
  <2>1. /\ core' = FinishValidation(d, valid, outcome)
        /\ wanted' = wanted /\ starts' = starts /\ c.validation # NoReq
    BY <1>3, <1>6 DEF ValidatorExits, Handle, Commands, c
  <2>2. Sound(d, wanted, starts)
    <3>1. d \in CoreRec
      BY <1>2 DEF Sound, CoreRec
    <3>2. LocalMode(d) /\ CoresOwned(d) /\ ValidatorsOwned(d) /\ RequestsCurrent(d, wanted, starts)
      BY <1>2 DEF Sound, CoreRec, LocalMode, CoresOwned, ValidatorsOwned, RequestsCurrent
    <3> QED
      BY <3>1, <3>2 DEF Sound
  <2>3. /\ d.validation # NoReq /\ d.process \in d.alive \cup {NoReq}
        /\ d.pendingLaunch = NoReq
        /\ d.retiring # NoReq => d.state = "Stopping"
        /\ d.state = "Running" => ~d.readyTimer /\ d.probeReply = NoReq
        /\ d.state \notin {"Stopped", "Failed"}
    BY <1>2, <2>1 DEF Sound, CoreRec, Resting, RequestsCurrent
  <2> HIDE DEF d
  <2> QED
    BY <1>1, <2>1, <2>2, <2>3, FinishValidationRests
<1>7. CASE ValidatorTimesOut
  <2>1. /\ core' = FinishValidation(c, FALSE, "awaits")
        /\ wanted' = wanted /\ starts' = starts /\ c.validation # NoReq
    BY <1>3, <1>7 DEF ValidatorTimesOut, Handle, Commands, c
  <2>2. /\ c.process \in c.alive \cup {NoReq}
        /\ c.pendingLaunch = NoReq
        /\ c.retiring # NoReq => c.state = "Stopping"
        /\ c.state = "Running" => ~c.readyTimer /\ c.probeReply = NoReq
        /\ c.state \notin {"Stopped", "Failed"}
    BY <1>2, <2>1 DEF Sound, CoreRec, Resting, RequestsCurrent
  <2>3. "awaits" \in LaunchOutcome /\ FALSE \in BOOLEAN
    BY DEF LaunchOutcome
  <2> QED
    BY <1>1, <1>2, <2>1, <2>2, <2>3, FinishValidationRests
<1>8. ASSUME NEW v \in core.cancelingValidations, NEW outcome \in LaunchOutcome,
             CanceledValidatorExits(v, outcome)
      PROVE  Sound(core', wanted', starts') /\ Resting(core')
  <2>1. core' = RetireValidation(c, v, outcome) /\ wanted' = wanted /\ starts' = starts
    BY <1>8 DEF CanceledValidatorExits, Handle, Commands, c
  <2> QED
    BY <1>1, <1>2, <1>3, <2>1, RetireValidationRests
<1>9. CASE CoreExits
  <2> DEFINE d == [c EXCEPT !.alive = @ \ {c.process}]
  <2>1. core' = Fail(d) /\ wanted' = wanted /\ starts' = starts /\ c.process # NoReq
    BY <1>3, <1>9 DEF CoreExits, Handle, Commands, c
  <2>2. Sound(d, wanted, starts)
    <3>1. d \in CoreRec
      BY <1>2 DEF Sound, CoreRec
    <3>2. LocalMode(d) /\ CoresOwned(d) /\ ValidatorsOwned(d) /\ RequestsCurrent(d, wanted, starts)
      BY <1>2, <2>1 DEF Sound, CoreRec, LocalMode, CoresOwned, ValidatorsOwned, RequestsCurrent
    <3> QED
      BY <3>1, <3>2 DEF Sound
  <2> HIDE DEF d
  <2> QED
    BY <1>1, <2>1, <2>2, FailRests
<1>10. ASSUME NEW outcome \in LaunchOutcome, RetiringExits(outcome)
       PROVE  Sound(core', wanted', starts') /\ Resting(core')
  <2> DEFINE d == [c EXCEPT !.alive = @ \ {c.retiring}, !.retiring = NoReq]
  <2>1. /\ core' = FinishStop(d, outcome)
        /\ wanted' = wanted /\ starts' = starts /\ c.retiring # NoReq
    BY <1>3, <1>10 DEF RetiringExits, Handle, Commands, c
  <2>2. Sound(d, wanted, starts)
    <3>1. d \in CoreRec
      BY <1>2 DEF Sound, CoreRec, NoReq
    <3>2. LocalMode(d) /\ CoresOwned(d) /\ ValidatorsOwned(d) /\ RequestsCurrent(d, wanted, starts)
      BY <1>2, <2>1 DEF Sound, CoreRec, LocalMode, CoresOwned, ValidatorsOwned, RequestsCurrent
    <3> QED
      BY <3>1, <3>2 DEF Sound
  <2>3. d.process = NoReq /\ d.retiring = NoReq
    BY <1>2, <2>1 DEF Sound, CoreRec, CoresOwned
  <2>4. Launching(d, wanted, starts) \/ Halting(d)
    BY <1>1, <1>2, <2>1 DEF Sound, CoreRec, CoresOwned, RequestsCurrent, Resting,
                            Launching, Halting
  <2> HIDE DEF d
  <2> QED
    BY <1>1, <2>1, <2>2, <2>3, <2>4, FinishStopRests
<1>11. CASE SendProbe
  <2> DEFINE d == [c EXCEPT !.probeReply = c.pendingEndpoint]
  <2>1. core' = d /\ wanted' = wanted /\ starts' = starts /\ c.readyTimer
    BY <1>3, <1>11 DEF SendProbe, ProbeDue, Handle, Commands, c
  <2>2. Sound(d, wanted, starts)
    <3>1. d \in CoreRec
      BY <1>2 DEF Sound, CoreRec
    <3>2. LocalMode(d) /\ CoresOwned(d) /\ ValidatorsOwned(d) /\ RequestsCurrent(d, wanted, starts)
      BY <1>2 DEF Sound, CoreRec, LocalMode, CoresOwned, ValidatorsOwned, RequestsCurrent
    <3> QED
      BY <3>1, <3>2 DEF Sound
  <2>3. Resting(d)
    BY <1>2, <2>1 DEF Sound, CoreRec, Resting
  <2> QED
    BY <2>1, <2>2, <2>3
<1>12. CASE ProbeDeadline
  <2>1. core' = Fail(c) /\ wanted' = wanted /\ starts' = starts
    BY <1>12 DEF ProbeDeadline, Handle, Commands, c
  <2> QED
    BY <1>1, <1>2, <2>1, FailRests
<1>13. CASE CoreAnswers
  BY <1>1, <1>13 DEF CoreAnswers
<1> DEFINE p == [c EXCEPT !.probeReply = NoReq]
           d == [p EXCEPT !.readyTimer = FALSE, !.endpoint = p.pendingEndpoint, !.state = "Running"]
<1>14. Sound(p, wanted, starts) /\ Resting(p)
  <2>1. p \in CoreRec
    BY <1>2 DEF Sound, CoreRec, NoReq
  <2>2. LocalMode(p) /\ CoresOwned(p) /\ ValidatorsOwned(p) /\ RequestsCurrent(p, wanted, starts)
    BY <1>2 DEF Sound, CoreRec, LocalMode, CoresOwned, ValidatorsOwned, RequestsCurrent
  <2>3. Resting(p)
    BY <1>2 DEF Sound, CoreRec, Resting
  <2> QED
    BY <2>1, <2>2, <2>3 DEF Sound
<1>15. p.state = core.state /\ p.probeReply = NoReq
  BY <1>2, <1>3 DEF Sound, CoreRec
<1>16. CASE ProbeSucceeds
  <2>1. core' \in {Emit(d, {"ready"}), p} /\ wanted' = wanted /\ starts' = starts
        /\ (core' = p \/ core.state = "Starting")
    BY <1>16 DEF ProbeSucceeds, Handle, Commands, c
  <2> HIDE DEF p
  <2>2. CASE core.state = "Starting"
    <3>1. Sound(d, wanted, starts)
      <4>1. d \in CoreRec
        BY <1>14 DEF Sound, CoreRec, CoreState
      <4>2. LocalMode(d) /\ CoresOwned(d) /\ ValidatorsOwned(d) /\ RequestsCurrent(d, wanted, starts)
        BY <1>14 DEF Sound, CoreRec, LocalMode, CoresOwned, ValidatorsOwned, RequestsCurrent
      <4> QED
        BY <4>1, <4>2 DEF Sound
    <3>2. Resting(d)
      BY <1>14, <1>15, <2>2 DEF Sound, CoreRec, Resting
    <3> HIDE DEF d
    <3>3. Sound(Emit(d, {"ready"}), wanted, starts) /\ Resting(Emit(d, {"ready"}))
      BY <1>1, <3>1, <3>2, EmitSound DEF Signal
    <3> QED
      BY <1>14, <2>1, <3>3
  <2> QED
    BY <1>14, <2>1, <2>2
<1>17. CASE ProbeFails
  <2>1. core' = p /\ wanted' = wanted /\ starts' = starts
    BY <1>17 DEF ProbeFails, Handle, Commands, c
  <2> QED
    BY <1>14, <2>1
<1> QED
  BY <1>4, <1>5, <1>6, <1>7, <1>8, <1>9, <1>10, <1>11, <1>12, <1>13, <1>16, <1>17 DEF Next

\* The invariant holds of a new object.
LEMMA InitIInv == Init => IInv
<1> SUFFICES ASSUME Init PROVE IInv
  OBVIOUS
<1> USE DEF Init, NewCore, NoReq
<1>1. core \in CoreRec
  BY DEF CoreRec, CoreState
<1>2. LocalMode(core) /\ CoresOwned(core) /\ ValidatorsOwned(core)
  BY DEF LocalMode, CoresOwned, ValidatorsOwned
<1>3. RequestsCurrent(core, wanted, starts) /\ Resting(core)
  BY DEF RequestsCurrent, Resting
<1> QED
  BY <1>1, <1>2, <1>3 DEF IInv, TypeOK

\* The counters and the ghosts keep their types.
LEMMA CountersType ==
    ASSUME IInv, Next
    PROVE  /\ starts' \in Nat /\ stops' \in Nat /\ wanted' \in {NoReq, starts'}
           /\ reply' \in Nat /\ phantom' \in BOOLEAN
<1>1. starts \in Nat /\ stops \in Nat /\ reply \in Nat /\ phantom \in BOOLEAN
  BY DEF IInv, TypeOK
<1>2. core.probeReply \in Nat
  BY DEF IInv, TypeOK, CoreRec
<1>3. starts' \in Nat /\ stops' \in Nat /\ wanted' \in {NoReq, starts'}
  <2>1. \/ \E found, begins \in BOOLEAN : CallStart(found, begins)
        \/ CallStop
        \/ Commands' = Commands
    BY DEF Next, ValidatorExits, ValidatorTimesOut, CanceledValidatorExits, CoreExits,
       RetiringExits, SendProbe, ProbeDeadline, CoreAnswers, ProbeSucceeds, ProbeFails, Commands
  <2>2. wanted \in {NoReq, starts}
    BY DEF IInv
  <2>3. CASE Commands' = Commands
    BY <1>1, <2>2, <2>3 DEF Commands
  <2>4. CASE \E found, begins \in BOOLEAN : CallStart(found, begins)
    BY <1>1, <2>4 DEF CallStart
  <2>5. CASE CallStop
    BY <1>1, <2>5 DEF CallStop
  <2> QED
    BY <2>1, <2>3, <2>4, <2>5
<1>4. \/ reply' \in {reply, NoReq} /\ phantom' \in BOOLEAN
      \/ reply' = core.probeReply /\ phantom' = phantom
  BY DEF Next, CallStart, CallStop, ValidatorExits, ValidatorTimesOut,
     CanceledValidatorExits, CoreExits, RetiringExits, SendProbe, ProbeDeadline,
     CoreAnswers, ProbeSucceeds, ProbeFails, Handle
<1> QED
  BY <1>1, <1>2, <1>3, <1>4 DEF NoReq

\* Every step preserves the invariant.
LEMMA StepIInv == IInv /\ [Next]_vars => IInv'
<1>1. ASSUME IInv, Next PROVE IInv'
  <2>1. Sound(core', wanted', starts') /\ Resting(core')
    BY <1>1, NextRests
  <2>2. /\ starts' \in Nat /\ stops' \in Nat /\ wanted' \in {NoReq, starts'}
        /\ reply' \in Nat /\ phantom' \in BOOLEAN
    BY <1>1, CountersType
  <2>3. wanted' \in Nat
    BY <2>2 DEF NoReq
  <2> QED
    BY <2>1, <2>2, <2>3 DEF IInv, TypeOK, Sound
<1>2. ASSUME IInv, UNCHANGED vars PROVE IInv'
  BY <1>2 DEF IInv, TypeOK, vars, LocalMode, CoresOwned, ValidatorsOwned,
              RequestsCurrent, Resting
<1> QED
  BY <1>1, <1>2

\* The invariant holds in every reachable state.
LEMMA InvariantHolds == Spec => []IInv
BY InitIInv, StepIInv, PTL DEF Spec

\* The CoreProcess object and the model's counters always have their types.
THEOREM TypeCorrect == Spec => []TypeOK
<1>1. IInv => TypeOK
  BY DEF IInv
<1> QED
  BY <1>1, InvariantHolds, PTL

\* However start(), stop(), exits and timeouts interleave, two cores never run
\* at the same time.
THEOREM AtMostOneCore == Spec => []OneCore
<1>1. IInv => OneCore
  BY DEF IInv, CoresOwned, OneCore
<1> QED
  BY <1>1, InvariantHolds, PTL

\* Stopped and Failed leave no child, no plan and no probing behind.
THEOREM SettledLeavesNothing == Spec => []SettledIsQuiet
<1>1. IInv => SettledIsQuiet
  BY DEF IInv, LocalMode, CoresOwned, ValidatorsOwned, Resting, SettledIsQuiet, IsRestartPending
<1> QED
  BY <1>1, InvariantHolds, PTL

\* The snapshot of a configuration some child still reads is never prunable.
THEOREM SnapshotsAreKept == Spec => []LiveConfigsAreActive
<1>1. IInv => LiveConfigsAreActive
  BY DEF IInv, LocalMode, CoresOwned, ValidatorsOwned, LiveConfigsAreActive, ActiveConfigPaths
<1> QED
  BY <1>1, InvariantHolds, PTL

\* All of it at once: the invariant the run core_process checks.
THEOREM CoreIsSafe == Spec => []Safety
BY TypeCorrect, AtMostOneCore, SettledLeavesNothing, SnapshotsAreKept, PTL DEF Safety

-----------------------------------------------------------------------------
(***************************************************************************)
(* CoreProcess implements CoreContract: every handler maps to a step of    *)
(* the contract or leaves its variables alone.  The lemmas say, function   *)
(* by function, what becomes of the live core, of the last launched        *)
(* request and of Running.                                                 *)
(***************************************************************************)

\* The core is on its way out or gone, and nothing else was launched.
Halted(c, d) ==
    /\ d.alive = c.alive /\ d.configPath = c.configPath
    /\ d.process = NoReq /\ d.state # "Running"

\* Request r was launched; the core may have failed to start.
Launched(d, r) ==
    /\ d.configPath = r /\ d.alive \in {{}, {r}}
    /\ d.process \in {NoReq, r} /\ d.state # "Running"

\* The cores are as before.
Kept(c, d) ==
    /\ d.alive = c.alive /\ d.configPath = c.configPath /\ d.process = c.process
    /\ d.state = "Running" <=> c.state = "Running"
    /\ d.state = "Starting" /\ d.process # NoReq => c.state = "Starting"

\* finishStop() with no launch pending starts no child and launches nothing.
LEMMA SettleHalts ==
    ASSUME NEW c \in CoreRec, c.process = NoReq
    PROVE  Halted(c, Settle(c))
BY DEF Settle, Emit, Halted, CoreRec

\* Nor does terminateProcess() with a live core.
LEMMA RetireHalts ==
    ASSUME NEW c, NEW w \in Nat, NEW n \in Nat, Sound(c, w, n), ~NothingRuns(c)
    PROVE  Halted(c, Retire(c))
BY RetireSound DEF Retire, Halted, Sound, LocalMode, CoreRec

\* Nor does terminateProcess() with no launch pending.
LEMMA QuiesceHalts ==
    ASSUME NEW c, NEW w \in Nat, NEW n \in Nat, Sound(c, w, n)
    PROVE  Halted(c, Quiesce(c))
<1>1. CASE NothingRuns(c)
  <2> DEFINE d == DiscardProcess(c)
  <2>1. d \in CoreRec /\ d.process = NoReq
    BY <1>1, DiscardSound DEF Sound
  <2>2. d.alive = c.alive /\ d.configPath = c.configPath
    BY DEF DiscardProcess, Sound, CoreRec
  <2>3. Quiesce(c) = Settle(d)
    BY <1>1 DEF Quiesce
  <2> HIDE DEF d
  <2> QED
    BY <2>1, <2>2, <2>3, SettleHalts DEF Halted
<1>2. CASE ~NothingRuns(c)
  BY <1>2, RetireHalts DEF Quiesce
<1> QED
  BY <1>1, <1>2

\* What fail() and stop() share launches nothing.
LEMMA HaltHalts ==
    ASSUME NEW c, NEW w \in Nat, NEW n \in Nat, Sound(c, w, n),
           NEW x \in BOOLEAN, NEW r \in {"Stopped", "Failed"}
    PROVE  Halted(c, Halt(c, x, r))
<1> DEFINE s == Supersede(c)
           p == StopProbing(s)
           d == [p EXCEPT !.explicitStop = x, !.endpoint = NoReq, !.stopResult = r]
<1>1. Sound(s, w, n)
  BY SupersedeSound
<1>2. s.alive = c.alive /\ s.configPath = c.configPath
  BY DEF Supersede, CancelValidation, Sound, CoreRec
<1>3. Halt(c, x, r) = Quiesce(d)
  BY DEF Halt
<1> HIDE DEF s
<1>4. Sound(p, w, n)
  BY <1>1, StopProbingSound
<1>5. p.alive = s.alive /\ p.configPath = s.configPath
  BY <1>1 DEF StopProbing, Sound, CoreRec
<1> HIDE DEF p
<1>6. Sound(d, w, n) /\ d.alive = p.alive /\ d.configPath = p.configPath
  <2>1. d \in CoreRec
    BY <1>4 DEF Sound, CoreRec, NoReq
  <2>2. LocalMode(d) /\ CoresOwned(d) /\ ValidatorsOwned(d) /\ RequestsCurrent(d, w, n)
    BY <1>4 DEF Sound, CoreRec, LocalMode, CoresOwned, ValidatorsOwned, RequestsCurrent
  <2>3. d.alive = p.alive /\ d.configPath = p.configPath
    BY <1>4 DEF Sound, CoreRec
  <2> QED
    BY <2>1, <2>2, <2>3 DEF Sound
<1> HIDE DEF d
<1>7. Halted(d, Quiesce(d))
  BY <1>6, QuiesceHalts
<1> QED
  BY <1>2, <1>3, <1>5, <1>6, <1>7 DEF Halted

\* fail() launches nothing.
LEMMA FailHalts ==
    ASSUME NEW c, NEW w \in Nat, NEW n \in Nat, Sound(c, w, n)
    PROVE  Halted(c, Fail(c))
<1>1. c.explicitStop \in BOOLEAN
  BY DEF Sound, CoreRec
<1> QED
  BY <1>1, HaltHalts DEF Fail

\* stop() launches nothing.
LEMMA StopHalts ==
    ASSUME NEW c, NEW w \in Nat, NEW n \in Nat, Sound(c, w, n)
    PROVE  Halted(c, Stop(c))
BY HaltHalts DEF Stop

\* A rejected validation leaves a running core alone and otherwise is a failure.
LEMMA RejectKeepsOrHalts ==
    ASSUME NEW c, NEW w \in Nat, NEW n \in Nat, Sound(c, w, n)
    PROVE  \/ c.state = "Running" /\ Kept(c, Reject(c))
           \/ c.state # "Running" /\ Halted(c, Reject(c))
BY FailHalts DEF Reject, Emit, Kept, Sound, CoreRec

\* launchProcess() makes its request the launched one and adds at most its core.
LEMMA LaunchEffect ==
    ASSUME NEW c, NEW n \in Nat, NEW r \in Nat, MayLaunch(c, r, n),
           NEW outcome \in LaunchOutcome
    PROVE  Launched(LaunchProcess(c, r, outcome), r)
<1> DEFINE d == ChildCreated(c, r)
           e == ChildStarted(c, r)
           a == AwaitController(e, r)
<1>1. /\ LaunchProcess(c, r, outcome) \in {Fail(d), Fail(e), a}
      /\ Sound(d, r, n) /\ d.configPath = r /\ d.alive = {}
      /\ Sound(e, r, n) /\ e.configPath = r /\ e.alive = {r} /\ e.process = r
  BY LaunchCases
<1>2. e.state = "Starting"
  BY DEF MayLaunch, Sound, CoreRec, ChildStarted, ChildCreated
<1> HIDE DEF d, e
<1>3. Halted(d, Fail(d)) /\ Halted(e, Fail(e))
  BY <1>1, FailHalts
<1>4. Launched(a, r)
  BY <1>1, <1>2 DEF Launched, AwaitController, Sound, CoreRec
<1> HIDE DEF a
<1> QED
  BY <1>1, <1>3, <1>4 DEF Halted, Launched

\* finishStop() launches only the pending request.
LEMMA FinishStopEffect ==
    ASSUME NEW c, NEW w \in Nat, NEW n \in Nat, Sound(c, w, n),
           c.process = NoReq, c.retiring = NoReq,
           NEW outcome \in LaunchOutcome
    PROVE  /\ Launching(c, w, n) => Launched(FinishStop(c, outcome), w)
           /\ c.pendingLaunch = NoReq => Halted(c, FinishStop(c, outcome))
<1>1. ASSUME Launching(c, w, n) PROVE Launched(FinishStop(c, outcome), w)
  <2> DEFINE d == [c EXCEPT !.pendingLaunch = NoReq]
  <2>1. d \in CoreRec
    BY DEF Sound, CoreRec, NoReq
  <2>2. /\ LocalMode(d) /\ CoresOwned(d) /\ ValidatorsOwned(d)
        /\ d.process = NoReq /\ d.retiring = NoReq /\ d.pendingLaunch = NoReq
        /\ d.validation = NoReq /\ ~d.readyTimer /\ d.probeReply = NoReq
        /\ d.configPath < w
    BY <1>1 DEF Sound, CoreRec, LocalMode, CoresOwned, ValidatorsOwned, Launching
  <2>3. RequestsCurrent(d, w, n)
    BY DEF Sound, CoreRec, RequestsCurrent
  <2>4. MayLaunch(d, w, n)
    BY <1>1, <2>1, <2>2, <2>3 DEF Sound, MayLaunch, Launching
  <2>5. FinishStop(c, outcome) = LaunchProcess(d, w, outcome)
    BY <1>1 DEF FinishStop, Launching
  <2> HIDE DEF d
  <2> QED
    BY <2>4, <2>5, LaunchEffect
<1>2. ASSUME c.pendingLaunch = NoReq PROVE Halted(c, FinishStop(c, outcome))
  BY <1>2, SettleHalts DEF FinishStop, Sound
<1> QED
  BY <1>1, <1>2

\* launchValidated() launches its request at once or after the predecessor.
LEMMA LaunchValidatedEffect ==
    ASSUME NEW c, NEW r \in Nat, NEW n \in Nat, Sound(c, r, n),
           c.validation = NoReq, r # NoReq, c.configPath < r, r <= n,
           NEW outcome \in LaunchOutcome
    PROVE  LET d == LaunchValidated(c, r, outcome) IN
           Launched(d, r) \/ (Halted(c, d) /\ d.pendingLaunch = r)
<1> DEFINE p == StopProbing(c)
           d == [p EXCEPT !.pendingLaunch = r, !.stopResult = "Stopped"]
<1>1. /\ Sound(p, r, n) /\ ~p.readyTimer /\ p.probeReply = NoReq
      /\ p.validation = NoReq /\ p.configPath < r
      /\ p.alive = c.alive /\ p.configPath = c.configPath
  <2>1. /\ p.validation = c.validation /\ p.configPath = c.configPath
        /\ p.alive = c.alive
    BY DEF StopProbing, Sound, CoreRec
  <2> QED
    BY <2>1, StopProbingSound
<1> HIDE DEF p
<1>2. Sound(d, r, n) /\ d.alive = c.alive /\ d.configPath = c.configPath
  <2>1. d \in CoreRec
    BY <1>1 DEF Sound, CoreRec
  <2>2. /\ LocalMode(d) /\ CoresOwned(d) /\ ValidatorsOwned(d)
        /\ d.alive = c.alive /\ d.configPath = c.configPath
    BY <1>1 DEF Sound, CoreRec, LocalMode, CoresOwned, ValidatorsOwned
  <2>3. RequestsCurrent(d, r, n)
    BY <1>1 DEF Sound, CoreRec, RequestsCurrent
  <2> QED
    BY <2>1, <2>2, <2>3 DEF Sound
<1>3. Launching(d, r, n)
  BY <1>1 DEF Sound, CoreRec, Launching
<1>4. LaunchValidated(c, r, outcome) = TerminateProcess(d, outcome)
  BY DEF LaunchValidated, p
<1> HIDE DEF d
<1>5. CASE NothingRuns(d)
  <2> DEFINE e == DiscardProcess(d)
  <2>1. Sound(e, r, n) /\ e.process = NoReq /\ e.retiring = NoReq
    BY <1>2, <1>5, DiscardSound
  <2>2. Launching(e, r, n)
    BY <1>2, <1>3 DEF DiscardProcess, Launching, Sound, CoreRec
  <2>3. TerminateProcess(d, outcome) = FinishStop(e, outcome)
    BY <1>5 DEF TerminateProcess
  <2> HIDE DEF e
  <2> QED
    BY <1>4, <2>1, <2>2, <2>3, FinishStopEffect
<1>6. CASE ~NothingRuns(d)
  <2>1. Halted(d, Retire(d)) /\ d.pendingLaunch = r
    BY <1>2, <1>3, <1>6, RetireHalts DEF Launching
  <2>2. Retire(d).pendingLaunch = d.pendingLaunch
    BY <1>2 DEF Retire, Sound, LocalMode, CoreRec
  <2> QED
    BY <1>2, <1>4, <1>6, <2>1, <2>2 DEF Halted, TerminateProcess
<1> QED
  BY <1>5, <1>6

\* What the end of a validation for request w does to the cores.
LEMMA FinishValidationEffect ==
    ASSUME NEW c, NEW w \in Nat, NEW n \in Nat, Sound(c, w, n), w <= n,
           c.validation # NoReq,
           NEW valid \in BOOLEAN, NEW outcome \in LaunchOutcome
    PROVE  LET d == FinishValidation(c, valid, outcome) IN
           /\ c.configPath < w
           /\ \/ Kept(c, d) \/ Launched(d, w)
              \/ Halted(c, d) /\ (c.state = "Running" => d.pendingLaunch = w)
           /\ ~valid => \/ c.state = "Running" /\ Kept(c, d)
                        \/ c.state # "Running" /\ Halted(c, d)
<1> DEFINE d == CancelValidation(c)
<1>1. Sound(d, w, n) /\ d.validation = NoReq
  BY CancelValidationSound
<1>2. /\ c.validation = w /\ c.configPath < w /\ ~d.useService
      /\ d.state = c.state /\ d.process = c.process /\ d.alive = c.alive
      /\ d.configPath = c.configPath
  BY DEF Sound, LocalMode, RequestsCurrent, CancelValidation, CoreRec
<1>3. FinishValidation(c, valid, outcome) =
        IF ~valid THEN Reject(d) ELSE LaunchValidated(d, w, outcome)
  BY <1>2 DEF FinishValidation
<1> HIDE DEF d
<1>4. CASE valid
  <2>1. LET e == LaunchValidated(d, w, outcome)
        IN Launched(e, w) \/ (Halted(d, e) /\ e.pendingLaunch = w)
    BY <1>1, <1>2, LaunchValidatedEffect
  <2> QED
    BY <1>2, <1>3, <1>4, <2>1 DEF Halted
<1>5. CASE ~valid
  <2>1. \/ d.state = "Running" /\ Kept(d, Reject(d))
        \/ d.state # "Running" /\ Halted(d, Reject(d))
    BY <1>1, RejectKeepsOrHalts
  <2> QED
    BY <1>2, <1>3, <1>5, <2>1 DEF Halted, Kept
<1> QED
  BY <1>4, <1>5

\* start() leaves a running core alone and takes down one that is not ready.
LEMMA StartEffect ==
    ASSUME NEW c, NEW w \in Nat, NEW n \in Nat, Sound(c, w, n), Resting(c),
           NEW found \in BOOLEAN, NEW begins \in BOOLEAN, NEW r \in Nat, r = n + 1
    PROVE  LET d == Start(c, r, found, begins) IN
           \/ c.state = "Running" /\ Kept(c, d)
           \/ c.state # "Running" /\ Halted(c, d)
<1> DEFINE s == [Supersede(c) EXCEPT !.explicitStop = FALSE]
           q == [s EXCEPT !.stopResult = "Stopped"]
           p == StartPreempts(c)
           d == BeginValidation(p, r)
           e == [d EXCEPT !.checking = @ \cup {r}]
<1>1. Sound(p, r, n) /\ Preempted(p)
  BY StartPreemptsSound
<1>2. /\ p.alive = c.alive /\ p.configPath = c.configPath
      /\ c.state = "Running" => p.process = c.process /\ p.state = "Running"
      /\ c.state # "Running" => p.process = NoReq /\ p.state # "Running"
  <2>1. Sound(Supersede(c), r, n)
    BY SupersedeSound
  <2>2. /\ s \in CoreRec /\ ~s.serviceActive
        /\ s.alive = c.alive /\ s.configPath = c.configPath
        /\ s.process = c.process /\ s.state = c.state
    <3>1. LET u == Supersede(c) IN
          /\ u.alive = c.alive /\ u.configPath = c.configPath
          /\ u.process = c.process /\ u.state = c.state
      BY DEF Supersede, CancelValidation, Sound, CoreRec
    <3> QED
      BY <2>1, <3>1 DEF Sound, CoreRec, LocalMode
  <2>3. p = IF s.process # NoReq /\ s.state # "Running" THEN Quiesce(q) ELSE s
    BY <2>2 DEF StartPreempts
  <2>4. Sound(s, r, n)
    BY <2>1, <2>2 DEF Sound, CoreRec, LocalMode, CoresOwned, ValidatorsOwned, RequestsCurrent
  <2> HIDE DEF s
  <2>5. Sound(q, r, n) /\ q.alive = s.alive /\ q.configPath = s.configPath
    BY <2>4 DEF Sound, CoreRec, LocalMode, CoresOwned, ValidatorsOwned, RequestsCurrent
  <2> HIDE DEF q
  <2>6. Halted(q, Quiesce(q))
    BY <2>5, QuiesceHalts
  <2> QED
    BY <2>2, <2>3, <2>5, <2>6 DEF Halted
<1>3. Start(c, r, found, begins) =
        IF ~found THEN Reject(p)
        ELSE IF begins THEN e ELSE FinishValidation(d, FALSE, "awaits")
  BY DEF Start, StartValidates
<1> HIDE DEF p
<1>4. Sound(d, r, r) /\ d.validation # NoReq
  BY <1>1, BeginValidationSound
<1>5. /\ d.alive = p.alive /\ d.configPath = p.configPath /\ d.process = p.process
      /\ d.state = "Running" <=> p.state = "Running"
  BY <1>1 DEF BeginValidation, Sound, CoreRec
<1> HIDE DEF d
<1>6. /\ e.alive = d.alive /\ e.configPath = d.configPath /\ e.process = d.process
      /\ e.state = d.state
  BY <1>4 DEF Sound, CoreRec
<1> HIDE DEF e
<1>7. LET f == FinishValidation(d, FALSE, "awaits") IN
      \/ d.state = "Running" /\ Kept(d, f)
      \/ d.state # "Running" /\ Halted(d, f)
  <2>1. "awaits" \in LaunchOutcome /\ FALSE \in BOOLEAN /\ r <= r
    BY DEF LaunchOutcome
  <2> QED
    BY <1>4, <2>1, FinishValidationEffect
<1>8. \/ p.state = "Running" /\ Kept(p, Reject(p))
      \/ p.state # "Running" /\ Halted(p, Reject(p))
  BY <1>1, RejectKeepsOrHalts
<1> QED
  BY <1>2, <1>3, <1>5, <1>6, <1>7, <1>8 DEF Kept, Halted

\* The exit of a killed validator launches nothing but a pending request.
LEMMA RetireValidationEffect ==
    ASSUME NEW c, NEW w \in Nat, NEW n \in Nat, Sound(c, w, n), Resting(c),
           NEW v \in c.cancelingValidations, NEW outcome \in LaunchOutcome
    PROVE  LET d == RetireValidation(c, v, outcome) IN
           Kept(c, d) \/ (c.process = NoReq /\ Halted(c, d))
<1> DEFINE d == [c EXCEPT !.checking = @ \ {v}, !.cancelingValidations = @ \ {v}]
<1>1. Sound(d, w, n)
  <2>1. d \in CoreRec
    BY DEF Sound, CoreRec
  <2>2. LocalMode(d) /\ CoresOwned(d) /\ ValidatorsOwned(d) /\ RequestsCurrent(d, w, n)
    BY DEF Sound, CoreRec, LocalMode, CoresOwned, ValidatorsOwned, RequestsCurrent
  <2> QED
    BY <2>1, <2>2 DEF Sound
<1>2. /\ d.alive = c.alive /\ d.configPath = c.configPath /\ d.process = c.process
      /\ d.state = c.state /\ d.retiring = c.retiring /\ d.pendingLaunch = c.pendingLaunch
  BY DEF Sound, CoreRec
<1>3. RetireValidation(c, v, outcome) =
        IF /\ d.process = NoReq /\ d.retiring = NoReq
           /\ d.validation = NoReq /\ ~d.serviceActive
        THEN FinishStop(d, outcome) ELSE d
  BY DEF RetireValidation
<1> HIDE DEF d
<1>4. ASSUME d.process = NoReq, d.retiring = NoReq PROVE Halted(d, FinishStop(d, outcome))
  <2>1. d.pendingLaunch = NoReq
    BY <1>2, <1>4 DEF Resting
  <2> QED
    BY <1>1, <1>4, <2>1, FinishStopEffect
<1> QED
  BY <1>2, <1>3, <1>4 DEF Kept, Halted

-----------------------------------------------------------------------------
(* The step of the contract each handler takes *)

\* A core that is starting was launched for the newest command.
StartingIsNewest ==
    core.state = "Starting" /\ core.process # NoReq => core.configPath = wanted

\* How a handler changes the cores, the commands and readiness.
StepEffect ==
    \/ /\ wanted' > starts /\ core.state = "Running" /\ Kept(core, core')
    \/ /\ wanted' > starts /\ core.state # "Running" /\ Halted(core, core')
    \/ /\ wanted' = NoReq /\ Halted(core, core')
    \/ /\ wanted' = wanted /\ Kept(core, core')
    \/ /\ wanted' = wanted /\ core.process = NoReq /\ Halted(core, core')
    \/ /\ wanted' = wanted /\ core.state = "Starting" /\ Halted(core, core')
    \/ /\ wanted' = wanted /\ core.configPath < wanted /\ Halted(core, core')
       /\ core.state = "Running" => core'.pendingLaunch = wanted
    \/ /\ wanted' = wanted /\ core'.alive = {} /\ core'.configPath = core.configPath
       /\ core'.process = NoReq /\ core'.state # "Running"
    \/ /\ wanted' = wanted /\ core.configPath < wanted /\ Launched(core', wanted)
    \/ /\ wanted' = wanted /\ core.state = "Starting" /\ core'.state = "Running"
       /\ core'.alive = core.alive /\ core'.configPath = core.configPath
       /\ core'.process = core.process

\* Every step launches nothing, or the newest request; this is what both theorems use.
LEMMA NextEffect ==
    ASSUME IInv, Next
    PROVE  StepEffect
<1> DEFINE c == Handling(core)
<1>1. /\ Sound(core, wanted, starts) /\ Resting(core)
      /\ wanted \in Nat /\ starts \in Nat /\ wanted <= starts
  BY DEF IInv, TypeOK, Sound, NoReq
<1>2. Sound(c, wanted, starts) /\ Resting(c)
  BY <1>1, HandlingRests
<1>3. /\ c.validation = core.validation /\ c.process = core.process
      /\ c.cancelingValidations = core.cancelingValidations
      /\ c.retiring = core.retiring /\ c.readyTimer = core.readyTimer
      /\ c.state = core.state /\ c.alive = core.alive
      /\ c.configPath = core.configPath /\ c.pendingLaunch = core.pendingLaunch
  BY <1>1 DEF Sound, CoreRec, Handling
<1> HIDE DEF c
<1>4. ASSUME NEW found \in BOOLEAN, NEW begins \in BOOLEAN, CallStart(found, begins)
      PROVE  StepEffect
  <2>1. core' = Start(c, starts + 1, found, begins)
    BY <1>4 DEF CallStart, Handle, c
  <2>2. starts + 1 \in Nat /\ wanted' = starts + 1 /\ wanted' > starts
    BY <1>1, <1>4 DEF CallStart
  <2>3. \/ c.state = "Running" /\ Kept(c, core')
        \/ c.state # "Running" /\ Halted(c, core')
    BY <1>1, <1>2, <2>1, <2>2, StartEffect
  <2> QED
    BY <1>3, <2>2, <2>3 DEF StepEffect, Kept, Halted
<1>5. CASE CallStop
  <2>1. core' = Stop(c) /\ wanted' = NoReq
    BY <1>5 DEF CallStop, Handle, c
  <2>2. Halted(c, core')
    BY <1>1, <1>2, <2>1, StopHalts
  <2> QED
    BY <1>3, <2>1, <2>2 DEF StepEffect, Halted
<1>6. ASSUME NEW valid \in BOOLEAN, NEW outcome \in LaunchOutcome,
             ValidatorExits(valid, outcome)
      PROVE  StepEffect
  <2> DEFINE d == [c EXCEPT !.checking = @ \ {c.validation}]
  <2>1. /\ core' = FinishValidation(d, valid, outcome)
        /\ wanted' = wanted /\ c.validation # NoReq
    BY <1>3, <1>6 DEF ValidatorExits, Handle, Commands, c
  <2>2. Sound(d, wanted, starts)
    <3>1. d \in CoreRec
      BY <1>2 DEF Sound, CoreRec
    <3>2. LocalMode(d) /\ CoresOwned(d) /\ ValidatorsOwned(d) /\ RequestsCurrent(d, wanted, starts)
      BY <1>2 DEF Sound, CoreRec, LocalMode, CoresOwned, ValidatorsOwned, RequestsCurrent
    <3> QED
      BY <3>1, <3>2 DEF Sound
  <2>3. /\ d.validation # NoReq /\ d.alive = c.alive /\ d.configPath = c.configPath
        /\ d.process = c.process /\ d.state = c.state
    BY <1>2, <2>1 DEF Sound, CoreRec
  <2> HIDE DEF d
  <2>4. /\ d.configPath < wanted
        /\ \/ Kept(d, core') \/ Launched(core', wanted)
           \/ Halted(d, core') /\ (d.state = "Running" => core'.pendingLaunch = wanted)
    BY <1>1, <2>1, <2>2, <2>3, FinishValidationEffect
  <2> QED
    BY <1>3, <2>1, <2>3, <2>4 DEF StepEffect, Kept, Halted
<1>7. CASE ValidatorTimesOut
  <2>1. /\ core' = FinishValidation(c, FALSE, "awaits")
        /\ wanted' = wanted /\ c.validation # NoReq
    BY <1>3, <1>7 DEF ValidatorTimesOut, Handle, Commands, c
  <2>2. "awaits" \in LaunchOutcome /\ FALSE \in BOOLEAN
    BY DEF LaunchOutcome
  <2>3. /\ c.configPath < wanted
        /\ \/ Kept(c, core') \/ Launched(core', wanted)
           \/ Halted(c, core') /\ (c.state = "Running" => core'.pendingLaunch = wanted)
    BY <1>1, <1>2, <2>1, <2>2, FinishValidationEffect
  <2> QED
    BY <1>3, <2>1, <2>3 DEF StepEffect, Kept, Halted
<1>8. ASSUME NEW v \in core.cancelingValidations, NEW outcome \in LaunchOutcome,
             CanceledValidatorExits(v, outcome)
      PROVE  StepEffect
  <2>1. core' = RetireValidation(c, v, outcome) /\ wanted' = wanted
    BY <1>8 DEF CanceledValidatorExits, Handle, Commands, c
  <2>2. Kept(c, core') \/ (c.process = NoReq /\ Halted(c, core'))
    BY <1>1, <1>2, <1>3, <2>1, RetireValidationEffect
  <2> QED
    BY <1>3, <2>1, <2>2 DEF StepEffect, Kept, Halted
<1>9. CASE CoreExits
  <2> DEFINE d == [c EXCEPT !.alive = @ \ {c.process}]
  <2>1. core' = Fail(d) /\ wanted' = wanted /\ c.process # NoReq
    BY <1>3, <1>9 DEF CoreExits, Handle, Commands, c
  <2>2. Sound(d, wanted, starts)
    <3>1. d \in CoreRec
      BY <1>2 DEF Sound, CoreRec
    <3>2. LocalMode(d) /\ CoresOwned(d) /\ ValidatorsOwned(d) /\ RequestsCurrent(d, wanted, starts)
      BY <1>2, <2>1 DEF Sound, CoreRec, LocalMode, CoresOwned, ValidatorsOwned, RequestsCurrent
    <3> QED
      BY <3>1, <3>2 DEF Sound
  <2>3. d.alive = {} /\ d.configPath = c.configPath
    BY <1>2, <2>1 DEF Sound, CoreRec, CoresOwned
  <2> HIDE DEF d
  <2>4. Halted(d, core')
    BY <1>1, <2>1, <2>2, FailHalts
  <2> QED
    BY <1>3, <2>1, <2>3, <2>4 DEF StepEffect, Halted
<1>10. ASSUME NEW outcome \in LaunchOutcome, RetiringExits(outcome)
       PROVE  StepEffect
  <2> DEFINE d == [c EXCEPT !.alive = @ \ {c.retiring}, !.retiring = NoReq]
  <2>1. core' = FinishStop(d, outcome) /\ wanted' = wanted /\ c.retiring # NoReq
    BY <1>3, <1>10 DEF RetiringExits, Handle, Commands, c
  <2>2. Sound(d, wanted, starts)
    <3>1. d \in CoreRec
      BY <1>2 DEF Sound, CoreRec, NoReq
    <3>2. LocalMode(d) /\ CoresOwned(d) /\ ValidatorsOwned(d) /\ RequestsCurrent(d, wanted, starts)
      BY <1>2, <2>1 DEF Sound, CoreRec, LocalMode, CoresOwned, ValidatorsOwned, RequestsCurrent
    <3> QED
      BY <3>1, <3>2 DEF Sound
  <2>3. /\ d.process = NoReq /\ d.retiring = NoReq /\ d.alive = {}
        /\ d.configPath = c.configPath
    BY <1>2, <2>1 DEF Sound, CoreRec, CoresOwned
  <2>4. \/ Launching(d, wanted, starts) /\ d.configPath < wanted
        \/ d.pendingLaunch = NoReq
    BY <1>1, <1>2, <2>1 DEF Sound, CoreRec, CoresOwned, RequestsCurrent, Resting, Launching
  <2> HIDE DEF d
  <2>5. /\ Launching(d, wanted, starts) => Launched(core', wanted)
        /\ d.pendingLaunch = NoReq => Halted(d, core')
    BY <1>1, <2>1, <2>2, <2>3, FinishStopEffect
  <2> QED
    BY <1>3, <2>1, <2>3, <2>4, <2>5 DEF StepEffect, Halted
<1>11. CASE SendProbe
  <2>1. core' = [c EXCEPT !.probeReply = core.pendingEndpoint] /\ wanted' = wanted
    BY <1>11 DEF SendProbe, Handle, Commands, c
  <2>2. Kept(core, core')
    BY <1>2, <1>3, <2>1 DEF Kept, Sound, CoreRec
  <2> QED
    BY <2>1, <2>2 DEF StepEffect
<1>12. CASE ProbeDeadline
  <2>1. core' = Fail(c) /\ wanted' = wanted /\ core.state = "Starting"
    BY <1>12 DEF ProbeDeadline, ProbeDue, Handle, Commands, c
  <2>2. Halted(c, core')
    BY <1>1, <1>2, <2>1, FailHalts
  <2> QED
    BY <1>3, <2>1, <2>2 DEF StepEffect, Halted
<1>13. CASE CoreAnswers
  <2>1. core' = core /\ wanted' = wanted
    BY <1>13 DEF CoreAnswers
  <2> QED
    BY <2>1 DEF StepEffect, Kept
<1> DEFINE p == [c EXCEPT !.probeReply = NoReq]
<1>14. p \in CoreRec /\ Kept(core, p)
  BY <1>2, <1>3 DEF Kept, Sound, CoreRec, NoReq
<1>15. CASE ProbeSucceeds
  <2> DEFINE d == Emit([p EXCEPT !.readyTimer = FALSE, !.endpoint = p.pendingEndpoint,
                                 !.state = "Running"], {"ready"})
  <2>1. /\ wanted' = wanted
        /\ core' = p \/ (core.state = "Starting" /\ core' = d)
    <3>1. core.state = "Starting" => core' = d
      BY <1>15 DEF ProbeSucceeds, Handle, Emit, c
    <3>2. core.state # "Starting" => core' = p
      BY <1>15 DEF ProbeSucceeds, Handle, c
    <3>3. wanted' = wanted
      BY <1>15 DEF ProbeSucceeds, Commands
    <3> QED
      BY <3>1, <3>2, <3>3
  <2> HIDE DEF p
  <2>2. /\ d.state = "Running" /\ d.alive = p.alive /\ d.configPath = p.configPath
        /\ d.process = p.process
    BY <1>14 DEF Emit, CoreRec
  <2> QED
    BY <1>14, <2>1, <2>2 DEF StepEffect, Kept
<1>16. CASE ProbeFails
  <2>1. core' = p /\ wanted' = wanted
    BY <1>16 DEF ProbeFails, Handle, Commands, c
  <2> QED
    BY <1>14, <2>1 DEF StepEffect
<1> QED
  BY <1>4, <1>5, <1>6, <1>7, <1>8, <1>9, <1>10, <1>11, <1>12, <1>13, <1>15, <1>16 DEF Next

\* Every step preserves StartingIsNewest.
LEMMA StepStartingIsNewest ==
    ASSUME IInv, StartingIsNewest, [Next]_vars
    PROVE  StartingIsNewest'
<1>1. CASE Next
  <2>1. StepEffect
    BY <1>1, NextEffect
  <2> QED
    BY <2>1 DEF StepEffect, StartingIsNewest, Kept, Halted, Launched
<1>2. CASE UNCHANGED vars
  BY <1>2 DEF vars, StartingIsNewest
<1> QED
  BY <1>1, <1>2

\* StartingIsNewest holds in every reachable state.
LEMMA NewestHolds == Spec => []StartingIsNewest
<1>1. Init => StartingIsNewest
  BY DEF Init, NewCore, StartingIsNewest
<1>2. IInv /\ StartingIsNewest /\ [Next]_vars => StartingIsNewest'
  BY StepStartingIsNewest
<1> QED
  BY <1>1, <1>2, InvariantHolds, PTL DEF Spec

\* Whatever exits or answers late, a core is launched for the newest command
\* or not at all, and no request is launched twice.
THEOREM LaunchesAreCurrent == Spec => OnlyNewestIsLaunched
<1>1. ASSUME IInv, [Next]_vars
      PROVE  [\A r \in core'.alive \ core.alive : r = wanted' /\ r > core.configPath]_vars
  <2>1. CASE Next
    <3>1. StepEffect
      BY <1>1, <2>1, NextEffect
    <3>2. core.configPath \in Nat /\ wanted \in Nat
      BY <1>1 DEF IInv, TypeOK, CoreRec
    <3> QED
      BY <3>1, <3>2 DEF StepEffect, Kept, Halted, Launched
  <2>2. CASE UNCHANGED vars
    BY <2>2
  <2> QED
    BY <1>1, <2>1, <2>2
<1> QED
  BY <1>1, InvariantHolds, PTL DEF Spec, OnlyNewestIsLaunched

\* A rejected validation or a missing binary leaves a running core alone: only
\* its own exit, a stop() or a validated replacement takes it down.
THEOREM RejectionSparesTheCore == Spec => RunningSurvivesRejection
<1>1. ASSUME IInv, [Next]_vars
      PROVE  [core.state = "Running" /\ core.process \in core'.alive /\ core'.state # "Running"
                => wanted' = NoReq \/ core'.pendingLaunch = wanted]_vars
  <2>1. CASE Next
    <3> SUFFICES ASSUME core.state = "Running", core.process \in core'.alive,
                        core'.state # "Running", wanted' # NoReq
                 PROVE  core'.pendingLaunch = wanted
      OBVIOUS
    <3>1. StepEffect
      BY <1>1, <2>1, NextEffect
    <3>2. /\ core.process \in core.alive \cup {NoReq} /\ core.alive \subseteq {core.configPath}
          /\ NoReq \notin core.alive /\ wanted \in Nat /\ core.configPath \in Nat
      BY <1>1 DEF IInv, TypeOK, CoreRec, CoresOwned, Resting
    <3>3. ~(wanted' = wanted /\ core.configPath < wanted /\ Launched(core', wanted))
      <4> SUFFICES ASSUME core.configPath < wanted, core'.alive \in {{}, {wanted}}
                   PROVE  FALSE
        BY DEF Launched
      <4>1. core.process = wanted
        OBVIOUS
      <4> QED
        BY <3>2, <4>1 DEF NoReq
    <3>4. core.process = NoReq => core'.alive # core.alive
      BY <3>2
    <3> QED
      BY <3>1, <3>3, <3>4 DEF StepEffect, Kept, Halted
  <2>2. CASE UNCHANGED vars
    BY <2>2
  <2> QED
    BY <1>1, <2>1, <2>2
<1> QED
  BY <1>1, InvariantHolds, PTL DEF Spec, RunningSurvivesRejection

\* Every handler of CoreProcess is one of the contract's steps, or nothing as
\* far as its users can tell.
LEMMA StepImplements ==
    ASSUME IInv, IInv', StartingIsNewest, [Next]_vars
    PROVE  [Contract!Next]_(Contract!vars)
<1> DEFINE ready == core.state = "Running" /\ core.process \in core.alive
<1>1. CASE Next
  <2>1. StepEffect
    BY <1>1, NextEffect
  <2>2. /\ core.configPath \in Nat /\ core.configPath <= starts
        /\ core.alive \subseteq {core.configPath} /\ NoReq \notin core.alive
        /\ starts \in Nat /\ wanted \in Nat /\ wanted' \in Nat
    BY DEF IInv, TypeOK, CoreRec, CoresOwned, RequestsCurrent
  <2>3. CASE wanted' > starts /\ core.state = "Running" /\ Kept(core, core')
    <3>1. Contract!Request
      BY <2>2, <2>3 DEF Kept, Contract!Request
    <3> QED
      BY <3>1 DEF Contract!Next
  <2>4. CASE wanted' > starts /\ core.state # "Running" /\ Halted(core, core')
    <3>1. Contract!Request
      BY <2>2, <2>4 DEF Halted, Contract!Request
    <3> QED
      BY <3>1 DEF Contract!Next
  <2>5. CASE wanted' = NoReq /\ Halted(core, core')
    <3>1. Contract!Cancel
      BY <2>5 DEF Halted, Contract!Cancel, NoReq
    <3> QED
      BY <3>1 DEF Contract!Next
  <2>6. CASE wanted' = wanted /\ Kept(core, core')
    <3>1. UNCHANGED Contract!vars
      BY <2>6 DEF Kept, Contract!vars
    <3> QED
      BY <3>1
  <2>7. CASE wanted' = wanted /\ core.process = NoReq /\ Halted(core, core')
    <3>1. UNCHANGED Contract!vars
      BY <2>2, <2>7 DEF Halted, Contract!vars
    <3> QED
      BY <3>1
  <2>8. CASE wanted' = wanted /\ core.state = "Starting" /\ Halted(core, core')
    <3>1. UNCHANGED Contract!vars
      BY <2>8 DEF Halted, Contract!vars
    <3> QED
      BY <3>1
  <2>9. CASE wanted' = wanted /\ core.configPath < wanted /\ Halted(core, core')
    <3>1. wanted \notin core.alive
      BY <2>2, <2>9
    <3>2. Contract!Demote
      BY <2>9, <3>1 DEF Halted, Contract!Demote
    <3> QED
      BY <3>2 DEF Contract!Next
  <2>10. CASE /\ wanted' = wanted /\ core'.alive = {} /\ core'.configPath = core.configPath
              /\ core'.process = NoReq /\ core'.state # "Running"
    <3>1. Contract!Exit
      BY <2>10 DEF Contract!Exit
    <3> QED
      BY <3>1 DEF Contract!Next
  <2>11. CASE wanted' = wanted /\ core.configPath < wanted /\ Launched(core', wanted)
    <3>1. Contract!Launch
      BY <2>2, <2>11 DEF Launched, Contract!Launch
    <3> QED
      BY <3>1 DEF Contract!Next
  <2>12. CASE /\ wanted' = wanted /\ core.state = "Starting" /\ core'.state = "Running"
              /\ core'.alive = core.alive /\ core'.configPath = core.configPath
              /\ core'.process = core.process
    <3>1. CASE core.process \in core.alive
      <4>1. core.alive = {wanted}
        BY <2>2, <2>12, <3>1 DEF StartingIsNewest
      <4>2. Contract!BecomeReady
        BY <2>12, <3>1, <4>1 DEF Contract!BecomeReady
      <4> QED
        BY <4>2 DEF Contract!Next
    <3>2. CASE core.process \notin core.alive
      <4>1. UNCHANGED Contract!vars
        BY <2>12, <3>2 DEF Contract!vars
      <4> QED
        BY <4>1
    <3> QED
      BY <3>1, <3>2
  <2> QED
    BY <2>1, <2>3, <2>4, <2>5, <2>6, <2>7, <2>8, <2>9, <2>10, <2>11, <2>12 DEF StepEffect
<1>2. CASE UNCHANGED vars
  BY <1>2 DEF vars, Contract!vars
<1> QED
  BY <1>1, <1>2

\* CoreProcess keeps its contract for any number of commands.
THEOREM KeepsContract == Spec => ImplementsContract
<1>1. Init => Contract!Init
  BY DEF Init, NewCore, Contract!Init, NoReq
<1>2. IInv /\ IInv' /\ StartingIsNewest /\ [Next]_vars => [Contract!Next]_(Contract!vars)
  BY StepImplements
<1> QED
  BY <1>1, <1>2, InvariantHolds, NewestHolds, PTL DEF Spec, ImplementsContract, Contract!Spec

-----------------------------------------------------------------------------
(* What is answered and announced *)

\* No stop was answered in this handler.
Silent(c) == c.sig \cap {"stopConfirmed", "stopUnconfirmed"} = {}

\* A handler that has made d of c has answered no stop but one of c, and, if
\* it has launched anything, does not rest on what was known of a phantom.
Truthful(c, d, ghostly) ==
    /\ Probing(d)
    /\ Silent(d) \/ c.explicitStop
    /\ StopsExplained(d, ghostly /\ d.alive \subseteq c.alive)

\* finishStop() with no launch pending reports what stopResult_ says.
LEMMA SettleAnswers ==
    ASSUME NEW c \in CoreRec, Silent(c), Probing(c)
    PROVE  LET d == Settle(c) IN
           /\ Probing(d) /\ d.stopResult = c.stopResult
           /\ Silent(d) \/ c.explicitStop \/ c.stopResult = "Stopped"
           /\ Silent(d) \/ c.validation = NoReq
           /\ d.explicitStop = c.explicitStop \/ d.state = c.stopResult
           /\ d.validation = c.validation /\ d.process = c.process /\ d.alive = c.alive
           /\ d.pendingLaunch = c.pendingLaunch /\ d.state # "Running"
<1> DEFINE d == Settle(c)
<1>1. /\ d.stopResult = c.stopResult /\ d.readyTimer = c.readyTimer
      /\ d.probeReply = c.probeReply /\ d.pendingEndpoint = c.pendingEndpoint
      /\ d.validation = c.validation /\ d.process = c.process /\ d.alive = c.alive
      /\ d.pendingLaunch = c.pendingLaunch /\ d.state # "Running"
  BY DEF Settle, Emit, CoreRec
<1>2. d.explicitStop = c.explicitStop \/ d.state = c.stopResult
  BY DEF Settle, Emit, CoreRec
<1>3. CASE c.validation # NoReq
  <2>1. d.sig = c.sig
    BY <1>3 DEF Settle, CoreRec
  <2> QED
    BY <1>1, <1>2, <2>1 DEF Silent, Probing
<1>4. CASE c.validation = NoReq
  <2>1. ~c.explicitStop /\ c.stopResult # "Stopped" => d.sig \subseteq c.sig \cup {"failed"}
    BY <1>4 DEF Settle, Emit, CoreRec
  <2> HIDE DEF d
  <2> QED
    BY <1>1, <1>2, <1>4, <2>1 DEF Silent, Probing, d
<1> QED
  BY <1>3, <1>4

\* Nor does handing the core over to retiring_ answer anything.
LEMMA RetireAnswers ==
    ASSUME NEW c, NEW w \in Nat, NEW n \in Nat, Sound(c, w, n), Silent(c), Probing(c)
    PROVE  LET d == Retire(c) IN
           /\ Probing(d) /\ Silent(d) /\ d.stopResult = c.stopResult
           /\ d.explicitStop = c.explicitStop /\ d.alive = c.alive
           /\ d.pendingLaunch = c.pendingLaunch /\ d.state = "Stopping"
BY DEF Retire, Sound, LocalMode, Silent, Probing, CoreRec, NoReq

\* terminateProcess() with no launch pending.
LEMMA QuiesceAnswers ==
    ASSUME NEW c, NEW w \in Nat, NEW n \in Nat, Sound(c, w, n), Silent(c), Probing(c)
    PROVE  LET d == Quiesce(c) IN
           /\ Probing(d) /\ d.stopResult = c.stopResult
           /\ Silent(d) \/ c.explicitStop \/ c.stopResult = "Stopped"
           /\ d.explicitStop = c.explicitStop \/ d.state = c.stopResult
           /\ d.state # "Running"
<1>1. CASE NothingRuns(c)
  <2> DEFINE d == DiscardProcess(c)
  <2>1. d \in CoreRec
    BY <1>1, DiscardSound DEF Sound
  <2>2. /\ Silent(d) /\ Probing(d) /\ d.stopResult = c.stopResult
        /\ d.explicitStop = c.explicitStop
    BY DEF DiscardProcess, Sound, CoreRec, Silent, Probing, NoReq
  <2>3. Quiesce(c) = Settle(d)
    BY <1>1 DEF Quiesce
  <2> HIDE DEF d
  <2> QED
    BY <2>1, <2>2, <2>3, SettleAnswers
<1>2. CASE ~NothingRuns(c)
  BY <1>2, RetireAnswers DEF Quiesce
<1> QED
  BY <1>1, <1>2

\* What fail() and stop() share.
LEMMA HaltAnswers ==
    ASSUME NEW c, NEW w \in Nat, NEW n \in Nat, Sound(c, w, n), Silent(c), Probing(c),
           NEW x \in BOOLEAN, NEW r \in {"Stopped", "Failed"}
    PROVE  LET d == Halt(c, x, r) IN
           /\ Probing(d) /\ d.stopResult = r
           /\ Silent(d) \/ x \/ r = "Stopped"
           /\ d.explicitStop = x \/ d.state = r
           /\ d.state # "Running"
<1> DEFINE s == Supersede(c)
           p == StopProbing(s)
           d == [p EXCEPT !.explicitStop = x, !.endpoint = NoReq, !.stopResult = r]
<1>1. Sound(s, w, n)
  BY SupersedeSound
<1>2. s.sig = c.sig
  BY DEF Supersede, CancelValidation, Sound, CoreRec
<1>3. Halt(c, x, r) = Quiesce(d)
  BY DEF Halt
<1> HIDE DEF s
<1>4. Sound(p, w, n) /\ ~p.readyTimer /\ p.probeReply = NoReq
  BY <1>1, StopProbingSound
<1>5. p.sig = s.sig
  BY <1>1 DEF StopProbing, Sound, CoreRec
<1> HIDE DEF p
<1>6. Sound(d, w, n)
  <2>1. d \in CoreRec
    <3>1. p \in CoreRec
      BY <1>4 DEF Sound
    <3> QED
      BY <3>1 DEF CoreRec, NoReq
  <2>2. LocalMode(d) /\ CoresOwned(d) /\ ValidatorsOwned(d)
    BY <1>4 DEF Sound, CoreRec, LocalMode, CoresOwned, ValidatorsOwned
  <2>3. RequestsCurrent(d, w, n)
    BY <1>4 DEF Sound, CoreRec, RequestsCurrent
  <2> QED
    BY <2>1, <2>2, <2>3 DEF Sound
<1>7. /\ d.sig = p.sig /\ d.explicitStop = x /\ d.stopResult = r
      /\ ~d.readyTimer /\ d.probeReply = NoReq
  BY <1>4 DEF Sound, CoreRec
<1> HIDE DEF d
<1>8. Silent(d) /\ Probing(d)
  BY <1>2, <1>5, <1>7 DEF Silent, Probing
<1> QED
  BY <1>3, <1>6, <1>7, <1>8, QuiesceAnswers

\* fail() answers a stop() that waits, and explains everything.
LEMMA FailAnswers ==
    ASSUME NEW c, NEW w \in Nat, NEW n \in Nat, Sound(c, w, n), Silent(c), Probing(c),
           NEW g
    PROVE  LET d == Fail(c) IN
           Probing(d) /\ (Silent(d) \/ c.explicitStop) /\ StopsExplained(d, g)
<1>1. c.explicitStop \in BOOLEAN
  BY DEF Sound, CoreRec
<1> QED
  BY <1>1, HaltAnswers DEF Fail, StopsExplained

\* A child is launched, or its failure answers a stop() that waits.
LEMMA LaunchAnswers ==
    ASSUME NEW c, NEW n \in Nat, NEW r \in Nat, MayLaunch(c, r, n), Silent(c),
           NEW outcome \in LaunchOutcome, NEW g
    PROVE  LET d == LaunchProcess(c, r, outcome) IN
           Probing(d) /\ (Silent(d) \/ c.explicitStop) /\ StopsExplained(d, g)
<1> DEFINE d == ChildCreated(c, r)
           e == ChildStarted(c, r)
           a == AwaitController(e, r)
<1>1. /\ LaunchProcess(c, r, outcome) \in {Fail(d), Fail(e), a}
      /\ Sound(d, r, n) /\ Sound(e, r, n)
  BY LaunchCases
<1>2. /\ d.sig = c.sig /\ d.explicitStop = c.explicitStop
      /\ ~d.readyTimer /\ d.probeReply = NoReq
      /\ e.sig = c.sig /\ e.explicitStop = c.explicitStop /\ e.state = "Starting"
      /\ ~e.readyTimer /\ e.probeReply = NoReq /\ e.process = r /\ r # NoReq
  BY DEF MayLaunch, Sound, CoreRec, ChildStarted, ChildCreated
<1> HIDE DEF d, e
<1>3. /\ a.sig = e.sig /\ a.state = "Starting" /\ a.process = r
      /\ a.pendingEndpoint = r /\ a.probeReply = NoReq
  BY <1>1, <1>2 DEF AwaitController, Sound, CoreRec
<1> HIDE DEF a
<1>4. Silent(d) /\ Probing(d) /\ Silent(e) /\ Probing(e)
  BY <1>2 DEF Silent, Probing
<1>5. /\ Probing(Fail(d)) /\ (Silent(Fail(d)) \/ c.explicitStop) /\ StopsExplained(Fail(d), g)
      /\ Probing(Fail(e)) /\ (Silent(Fail(e)) \/ c.explicitStop) /\ StopsExplained(Fail(e), g)
  BY <1>1, <1>2, <1>4, FailAnswers
<1>6. Probing(a) /\ Silent(a) /\ StopsExplained(a, g)
  BY <1>2, <1>3 DEF Silent, Probing, StopsExplained
<1> QED
  BY <1>1, <1>5, <1>6

\* finishStop() with a launch pending.
LEMMA FinishStopAnswers ==
    ASSUME NEW c, NEW w \in Nat, NEW n \in Nat, Sound(c, w, n), Silent(c),
           c.process = NoReq, c.retiring = NoReq, Launching(c, w, n),
           NEW outcome \in LaunchOutcome, NEW g
    PROVE  LET d == FinishStop(c, outcome) IN
           Probing(d) /\ (Silent(d) \/ c.explicitStop) /\ StopsExplained(d, g)
<1> DEFINE d == [c EXCEPT !.pendingLaunch = NoReq]
<1>1. d \in CoreRec
  BY DEF Sound, CoreRec, NoReq
<1>2. /\ LocalMode(d) /\ CoresOwned(d) /\ ValidatorsOwned(d)
      /\ d.process = NoReq /\ d.retiring = NoReq /\ d.pendingLaunch = NoReq
      /\ d.validation = NoReq /\ ~d.readyTimer /\ d.probeReply = NoReq
      /\ d.configPath < w /\ d.sig = c.sig /\ d.explicitStop = c.explicitStop
  BY DEF Sound, CoreRec, LocalMode, CoresOwned, ValidatorsOwned, Launching
<1>3. RequestsCurrent(d, w, n)
  BY DEF Sound, CoreRec, RequestsCurrent
<1>4. MayLaunch(d, w, n)
  BY <1>1, <1>2, <1>3 DEF Sound, MayLaunch, Launching
<1>5. FinishStop(c, outcome) = LaunchProcess(d, w, outcome)
  BY DEF FinishStop, Launching
<1> HIDE DEF d
<1>6. Silent(d)
  BY <1>2 DEF Silent
<1> QED
  BY <1>2, <1>4, <1>5, <1>6, LaunchAnswers

\* launchValidated(), at once or behind the core that is told to go.
LEMMA LaunchValidatedAnswers ==
    ASSUME NEW c, NEW r \in Nat, NEW n \in Nat, Sound(c, r, n), Silent(c),
           c.validation = NoReq, r # NoReq, c.configPath < r, r <= n,
           NEW outcome \in LaunchOutcome, NEW g
    PROVE  LET d == LaunchValidated(c, r, outcome) IN
           Probing(d) /\ (Silent(d) \/ c.explicitStop) /\ StopsExplained(d, g)
<1> DEFINE p == StopProbing(c)
           d == [p EXCEPT !.pendingLaunch = r, !.stopResult = "Stopped"]
<1>1. /\ Sound(p, r, n) /\ ~p.readyTimer /\ p.probeReply = NoReq
      /\ p.validation = NoReq /\ p.configPath < r
      /\ p.sig = c.sig /\ p.explicitStop = c.explicitStop
  <2>1. /\ p.validation = c.validation /\ p.configPath = c.configPath
        /\ p.sig = c.sig /\ p.explicitStop = c.explicitStop
    BY DEF StopProbing, Sound, CoreRec
  <2> QED
    BY <2>1, StopProbingSound
<1> HIDE DEF p
<1>2. Sound(d, r, n)
  <2>1. d \in CoreRec
    BY <1>1 DEF Sound, CoreRec
  <2>2. LocalMode(d) /\ CoresOwned(d) /\ ValidatorsOwned(d)
    BY <1>1 DEF Sound, CoreRec, LocalMode, CoresOwned, ValidatorsOwned
  <2>3. RequestsCurrent(d, r, n)
    BY <1>1 DEF Sound, CoreRec, RequestsCurrent
  <2> QED
    BY <2>1, <2>2, <2>3 DEF Sound
<1>3. Launching(d, r, n) /\ d.sig = c.sig /\ d.explicitStop = c.explicitStop
  BY <1>1 DEF Sound, CoreRec, Launching
<1>4. LaunchValidated(c, r, outcome) = TerminateProcess(d, outcome)
  BY DEF LaunchValidated, p
<1> HIDE DEF d
<1>5. Silent(d) /\ Probing(d) /\ d.pendingLaunch = r
  BY <1>3 DEF Silent, Probing, Launching
<1>6. CASE NothingRuns(d)
  <2> DEFINE e == DiscardProcess(d)
  <2>1. Sound(e, r, n) /\ e.process = NoReq /\ e.retiring = NoReq
    BY <1>2, <1>6, DiscardSound
  <2>2. Launching(e, r, n) /\ e.sig = d.sig /\ e.explicitStop = d.explicitStop
    BY <1>2, <1>3 DEF DiscardProcess, Launching, Sound, CoreRec
  <2>3. TerminateProcess(d, outcome) = FinishStop(e, outcome)
    BY <1>6 DEF TerminateProcess
  <2> HIDE DEF e
  <2>4. Silent(e)
    BY <1>5, <2>2 DEF Silent
  <2> QED
    BY <1>3, <1>4, <2>1, <2>2, <2>3, <2>4, FinishStopAnswers
<1>7. CASE ~NothingRuns(d)
  <2> DEFINE e == Retire(d)
  <2>1. Probing(e) /\ Silent(e) /\ e.pendingLaunch = r /\ e.state = "Stopping"
    BY <1>2, <1>5, RetireAnswers
  <2>2. TerminateProcess(d, outcome) = e
    BY <1>7 DEF TerminateProcess
  <2> HIDE DEF e
  <2> QED
    BY <1>4, <2>1, <2>2 DEF StopsExplained
<1> QED
  BY <1>6, <1>7

\* A rejection is a failure, or is reported while the core runs on.
LEMMA RejectAnswers ==
    ASSUME NEW c, NEW w \in Nat, NEW n \in Nat, Sound(c, w, n), Silent(c), Probing(c),
           NEW g, c.state = "Running" => c.process # NoReq \/ g
    PROVE  LET d == Reject(c) IN
           /\ Probing(d) /\ (Silent(d) \/ c.explicitStop)
           /\ StopsExplained(d, g /\ d.alive \subseteq c.alive)
<1>1. CASE c.state = "Running"
  <2> DEFINE d == Reject(c)
  <2>1. d = [c EXCEPT !.sig = c.sig \cup {"failed"}]
    BY <1>1 DEF Reject, Emit
  <2>2. /\ d.state = "Running" /\ d.process = c.process /\ d.alive = c.alive
        /\ d.readyTimer = c.readyTimer /\ d.probeReply = c.probeReply
        /\ d.pendingEndpoint = c.pendingEndpoint /\ d.sig = c.sig \cup {"failed"}
    BY <1>1, <2>1 DEF Sound, CoreRec
  <2> HIDE DEF d
  <2>3. Silent(d) /\ Probing(d)
    BY <2>2 DEF Silent, Probing
  <2>4. StopsExplained(d, g /\ d.alive \subseteq c.alive)
    BY <1>1, <2>2 DEF StopsExplained
  <2> QED
    BY <2>3, <2>4 DEF d
<1>2. CASE c.state # "Running"
  BY <1>2, FailAnswers DEF Reject
<1> QED
  BY <1>1, <1>2

\* The end of a validation.
LEMMA FinishValidationAnswers ==
    ASSUME NEW c, NEW w \in Nat, NEW n \in Nat, Sound(c, w, n), w <= n,
           Silent(c), Probing(c), c.validation # NoReq,
           NEW g, c.state = "Running" => c.process # NoReq \/ g,
           NEW valid \in BOOLEAN, NEW outcome \in LaunchOutcome
    PROVE  Truthful(c, FinishValidation(c, valid, outcome), g)
<1> DEFINE d == CancelValidation(c)
<1>1. Sound(d, w, n) /\ d.validation = NoReq
  BY CancelValidationSound
<1>2. /\ c.validation = w /\ c.configPath < w /\ ~d.useService
      /\ d.state = c.state /\ d.process = c.process /\ d.alive = c.alive
      /\ d.configPath = c.configPath /\ d.sig = c.sig /\ d.explicitStop = c.explicitStop
      /\ d.readyTimer = c.readyTimer /\ d.probeReply = c.probeReply
      /\ d.pendingEndpoint = c.pendingEndpoint
  BY DEF Sound, LocalMode, RequestsCurrent, CancelValidation, CoreRec
<1>3. FinishValidation(c, valid, outcome) =
        IF ~valid THEN Reject(d) ELSE LaunchValidated(d, w, outcome)
  BY <1>2 DEF FinishValidation
<1> HIDE DEF d
<1>4. Silent(d) /\ Probing(d)
  BY <1>2 DEF Silent, Probing
<1>5. CASE valid
  BY <1>1, <1>2, <1>3, <1>4, <1>5, LaunchValidatedAnswers DEF Truthful
<1>6. CASE ~valid
  BY <1>1, <1>2, <1>3, <1>4, <1>6, RejectAnswers DEF Truthful
<1> QED
  BY <1>5, <1>6

\* start() takes back a stop(), and answers none.
LEMMA StartPreemptsAnswers ==
    ASSUME NEW c, NEW w \in Nat, NEW n \in Nat, Sound(c, w, n), Resting(c),
           Silent(c), Probing(c)
    PROVE  LET p == StartPreempts(c) IN
           /\ Silent(p) /\ Probing(p) /\ ~p.explicitStop /\ p.alive = c.alive
           /\ p.state = "Running" => c.state = "Running" /\ p.process = c.process
<1> DEFINE s == Supersede(c)
           d == [s EXCEPT !.explicitStop = FALSE]
           q == [d EXCEPT !.stopResult = "Stopped"]
           p == StartPreempts(c)
<1>1. Sound(s, n + 1, n)
  BY SupersedeSound
<1>2. /\ s.process = c.process /\ s.alive = c.alive /\ s.state = c.state
      /\ s.readyTimer = c.readyTimer /\ s.probeReply = c.probeReply
      /\ s.pendingEndpoint = c.pendingEndpoint /\ s.sig = c.sig
  BY DEF Supersede, CancelValidation, Sound, CoreRec
<1> HIDE DEF s
<1>3. Sound(d, n + 1, n)
  <2>1. d \in CoreRec
    BY <1>1 DEF Sound, CoreRec
  <2>2. LocalMode(d) /\ CoresOwned(d) /\ ValidatorsOwned(d) /\ RequestsCurrent(d, n + 1, n)
    BY <1>1 DEF Sound, CoreRec, LocalMode, CoresOwned, ValidatorsOwned, RequestsCurrent
  <2> QED
    BY <2>1, <2>2 DEF Sound
<1>4. /\ d.process = c.process /\ d.alive = c.alive /\ d.state = c.state
      /\ d.readyTimer = c.readyTimer /\ d.probeReply = c.probeReply
      /\ d.pendingEndpoint = c.pendingEndpoint /\ d.sig = c.sig /\ ~d.explicitStop
  BY <1>1, <1>2 DEF Sound, CoreRec
<1>5. p = IF (d.process # NoReq \/ d.serviceActive) /\ d.state # "Running" THEN Quiesce(q) ELSE d
  BY DEF StartPreempts, s
<1> HIDE DEF d, p
<1>6. Silent(d) /\ Probing(d)
  BY <1>4 DEF Silent, Probing
<1>7. CASE d.process # NoReq /\ d.state # "Running"
  <2>1. Sound(q, n + 1, n)
    <3>1. q \in CoreRec
      BY <1>3 DEF Sound, CoreRec
    <3>2. LocalMode(q) /\ CoresOwned(q) /\ ValidatorsOwned(q) /\ RequestsCurrent(q, n + 1, n)
      BY <1>3 DEF Sound, CoreRec, LocalMode, CoresOwned, ValidatorsOwned, RequestsCurrent
    <3> QED
      BY <3>1, <3>2 DEF Sound
  <2>2. /\ q.process = d.process /\ q.alive = d.alive /\ q.sig = d.sig
        /\ q.readyTimer = d.readyTimer /\ q.probeReply = d.probeReply
        /\ q.pendingEndpoint = d.pendingEndpoint /\ ~q.explicitStop
    BY <1>3, <1>4 DEF Sound, CoreRec
  <2> HIDE DEF q
  <2>3. ~NothingRuns(q)
    BY <1>4, <1>7, <2>2 DEF NothingRuns, Resting
  <2>4. Silent(q) /\ Probing(q)
    BY <1>6, <2>2 DEF Silent, Probing
  <2>5. p = Retire(q)
    BY <1>5, <1>7, <2>3 DEF Quiesce
  <2> QED
    BY <1>4, <2>1, <2>2, <2>4, <2>5, RetireAnswers DEF p
<1>8. CASE ~(d.process # NoReq /\ d.state # "Running")
  <2>1. p = d
    BY <1>3, <1>5, <1>8 DEF Sound, LocalMode
  <2> QED
    BY <1>4, <1>6, <2>1 DEF p
<1> QED
  BY <1>7, <1>8

\* start() answers no stop().
LEMMA StartAnswers ==
    ASSUME NEW c, NEW w \in Nat, NEW n \in Nat, Sound(c, w, n), Resting(c),
           Silent(c), Probing(c),
           NEW g, c.state = "Running" => c.process # NoReq \/ g,
           NEW found \in BOOLEAN, NEW begins \in BOOLEAN, NEW r \in Nat, r = n + 1
    PROVE  Truthful(c, Start(c, r, found, begins), g)
<1> DEFINE p == StartPreempts(c)
           d == BeginValidation(p, r)
           e == [d EXCEPT !.checking = @ \cup {r}]
           f == FinishValidation(d, FALSE, "awaits")
<1>1. Sound(p, r, n) /\ Preempted(p)
  BY StartPreemptsSound
<1>2. /\ Silent(p) /\ Probing(p) /\ ~p.explicitStop /\ p.alive = c.alive
      /\ p.state = "Running" => p.process # NoReq \/ g
  BY StartPreemptsAnswers
<1>3. Start(c, r, found, begins) = IF ~found THEN Reject(p) ELSE IF begins THEN e ELSE f
  BY DEF Start, StartValidates
<1> HIDE DEF p
<1>4. Sound(d, r, r) /\ d.validation = r /\ r # NoReq
  BY <1>1, BeginValidationSound
<1>5. /\ d.alive = p.alive /\ d.process = p.process /\ d.sig = p.sig
      /\ d.readyTimer = p.readyTimer /\ d.probeReply = p.probeReply
      /\ d.pendingEndpoint = p.pendingEndpoint /\ d.explicitStop = p.explicitStop
      /\ d.state = "Running" => p.state = "Running"
  BY <1>1 DEF BeginValidation, Sound, CoreRec
<1> HIDE DEF d
<1>6. Silent(d) /\ Probing(d)
  BY <1>2, <1>5 DEF Silent, Probing
<1>7. /\ e.sig = d.sig /\ e.process = d.process /\ e.readyTimer = d.readyTimer
      /\ e.probeReply = d.probeReply /\ e.pendingEndpoint = d.pendingEndpoint
      /\ e.validation = r /\ e.state = d.state /\ e.alive = d.alive
  BY <1>4 DEF Sound, CoreRec
<1> HIDE DEF e
<1>8. Truthful(c, e, g)
  <2>1. Silent(e) /\ Probing(e)
    BY <1>6, <1>7 DEF Silent, Probing
  <2>2. StopsExplained(e, g /\ e.alive \subseteq c.alive)
    BY <1>2, <1>4, <1>5, <1>7 DEF StopsExplained
  <2> QED
    BY <2>1, <2>2 DEF Truthful
<1>9. Truthful(c, f, g)
  <2>1. "awaits" \in LaunchOutcome /\ FALSE \in BOOLEAN /\ r <= r
    BY DEF LaunchOutcome
  <2>2. Truthful(d, f, g)
    BY <1>2, <1>4, <1>5, <1>6, <2>1, FinishValidationAnswers
  <2> QED
    BY <1>2, <1>5, <2>2 DEF Truthful
<1>10. Truthful(c, Reject(p), g)
  BY <1>1, <1>2, RejectAnswers DEF Truthful
<1> QED
  BY <1>3, <1>8, <1>9, <1>10

\* What a handler leaves explained is explained by phantom as it is set.
LEMMA HandledIsKept ==
    ASSUME NEW x, Handle(x), Probing(x),
           StopsExplained(x, phantom /\ x.alive \subseteq core.alive)
    PROVE  AnswersKept'
<1>1. core' = x /\ (phantom /\ x.alive \subseteq core.alive => phantom')
  BY DEF Handle
<1> QED
  BY <1>1 DEF AnswersKept, StopsExplained

\* The exit of a killed validator, or of the core that was told to go, settles
\* nothing that is not explained.
LEMMA SettledIsExplained ==
    ASSUME NEW c \in CoreRec, Silent(c), Probing(c), NEW g,
           c.stopResult = "Stopped" => c.explicitStop \/ g \/ c.validation # NoReq
    PROVE  LET d == Settle(c) IN
           /\ Silent(d) \/ c.explicitStop \/ g
           /\ Probing(d) /\ StopsExplained(d, g) /\ d.alive = c.alive
<1> DEFINE d == Settle(c)
<1>1. /\ Probing(d) /\ d.stopResult = c.stopResult
      /\ Silent(d) \/ c.explicitStop \/ c.stopResult = "Stopped"
      /\ Silent(d) \/ c.validation = NoReq
      /\ d.explicitStop = c.explicitStop \/ d.state = c.stopResult
      /\ d.validation = c.validation /\ d.alive = c.alive /\ d.state # "Running"
  BY SettleAnswers
<1> HIDE DEF d
<1>2. StopsExplained(d, g)
  BY <1>1 DEF StopsExplained
<1> QED
  BY <1>1, <1>2 DEF d

\* Every step keeps probes and stops explained, and answers a stop that was
\* given and unanswered.
LEMMA NextAnswers ==
    ASSUME IInv, AnswersKept, Next
    PROVE  /\ AnswersKept'
           /\ \/ core' = core \/ Silent(core') \/ core.explicitStop
              \/ stops' > stops \/ phantom
<1> DEFINE c == Handling(core)
<1>1. /\ wanted \in Nat /\ starts \in Nat /\ stops \in Nat /\ phantom \in BOOLEAN
      /\ wanted <= starts
  BY DEF IInv, TypeOK, NoReq
<1>2. Sound(core, wanted, starts) /\ Resting(core)
  BY DEF IInv, TypeOK, Sound
<1>3. Sound(c, wanted, starts) /\ Resting(c)
  BY <1>1, <1>2, HandlingRests
<1>4. /\ c.process = core.process /\ c.validation = core.validation
      /\ c.cancelingValidations = core.cancelingValidations
      /\ c.retiring = core.retiring /\ c.readyTimer = core.readyTimer
      /\ c.state = core.state /\ c.alive = core.alive /\ c.stopResult = core.stopResult
      /\ c.explicitStop = core.explicitStop /\ c.pendingLaunch = core.pendingLaunch
      /\ c.probeReply = core.probeReply /\ c.pendingEndpoint = core.pendingEndpoint
      /\ c.configPath = core.configPath /\ c.sig = {}
  BY <1>2 DEF Sound, CoreRec, Handling
<1> HIDE DEF c
<1>5. /\ Silent(c) /\ Probing(c)
      /\ c.state = "Running" => c.process # NoReq \/ phantom
      /\ c.stopResult = "Stopped" =>
           \/ c.explicitStop \/ c.state = "Stopped" \/ phantom
           \/ c.process # NoReq \/ c.validation # NoReq \/ c.pendingLaunch # NoReq
  BY <1>4 DEF AnswersKept, Silent, Probing, StopsExplained
<1>6. ASSUME NEW x, Handle(x), Truthful(c, x, phantom)
      PROVE  AnswersKept' /\ (Silent(core') \/ core.explicitStop)
  <2>1. AnswersKept'
    BY <1>4, <1>6, HandledIsKept DEF Truthful
  <2> QED
    BY <1>4, <1>6, <2>1 DEF Truthful, Handle
<1>7. ASSUME NEW found \in BOOLEAN, NEW begins \in BOOLEAN, CallStart(found, begins)
      PROVE  AnswersKept' /\ (Silent(core') \/ core.explicitStop)
  <2> DEFINE x == Start(c, starts + 1, found, begins)
  <2>1. Handle(x)
    BY <1>7 DEF CallStart, c
  <2>2. Truthful(c, x, phantom)
    BY <1>1, <1>3, <1>5, StartAnswers
  <2> HIDE DEF x
  <2> QED
    BY <1>6, <2>1, <2>2
<1>8. CASE CallStop
  <2> DEFINE x == Stop(c)
  <2>1. Handle(x) /\ stops' = stops + 1
    BY <1>8 DEF CallStop, c
  <2>2. /\ Probing(x) /\ (x.explicitStop \/ x.state = "Stopped")
        /\ x.state # "Running"
    BY <1>1, <1>3, <1>5, HaltAnswers DEF Stop
  <2> HIDE DEF x
  <2>3. StopsExplained(x, phantom /\ x.alive \subseteq core.alive)
    BY <2>2 DEF StopsExplained
  <2>4. AnswersKept'
    BY <2>1, <2>2, <2>3, HandledIsKept
  <2> QED
    BY <1>1, <2>1, <2>4
<1>9. ASSUME NEW valid \in BOOLEAN, NEW outcome \in LaunchOutcome,
             ValidatorExits(valid, outcome)
      PROVE  AnswersKept' /\ (Silent(core') \/ core.explicitStop)
  <2> DEFINE d == [c EXCEPT !.checking = @ \ {c.validation}]
             x == FinishValidation(d, valid, outcome)
  <2>1. Handle(x) /\ c.validation # NoReq
    BY <1>4, <1>9 DEF ValidatorExits, c
  <2>2. Sound(d, wanted, starts)
    <3>1. d \in CoreRec
      BY <1>3 DEF Sound, CoreRec
    <3>2. LocalMode(d) /\ CoresOwned(d) /\ ValidatorsOwned(d) /\ RequestsCurrent(d, wanted, starts)
      BY <1>3 DEF Sound, CoreRec, LocalMode, CoresOwned, ValidatorsOwned, RequestsCurrent
    <3> QED
      BY <3>1, <3>2 DEF Sound
  <2>3. /\ d.validation # NoReq /\ d.alive = c.alive /\ d.process = c.process
        /\ d.state = c.state /\ d.sig = c.sig /\ d.explicitStop = c.explicitStop
        /\ d.readyTimer = c.readyTimer /\ d.probeReply = c.probeReply
        /\ d.pendingEndpoint = c.pendingEndpoint
    BY <1>3, <2>1 DEF Sound, CoreRec
  <2> HIDE DEF d
  <2>4. Silent(d) /\ Probing(d)
    BY <1>5, <2>3 DEF Silent, Probing
  <2>5. Truthful(d, x, phantom)
    BY <1>1, <1>5, <2>2, <2>3, <2>4, FinishValidationAnswers
  <2> HIDE DEF x
  <2>6. Truthful(c, x, phantom)
    BY <2>3, <2>5 DEF Truthful
  <2> QED
    BY <1>6, <2>1, <2>6
<1>10. CASE ValidatorTimesOut
  <2> DEFINE x == FinishValidation(c, FALSE, "awaits")
  <2>1. Handle(x) /\ c.validation # NoReq
    BY <1>4, <1>10 DEF ValidatorTimesOut, c
  <2>2. "awaits" \in LaunchOutcome /\ FALSE \in BOOLEAN
    BY DEF LaunchOutcome
  <2>3. Truthful(c, x, phantom)
    BY <1>1, <1>3, <1>5, <2>1, <2>2, FinishValidationAnswers
  <2> HIDE DEF x
  <2> QED
    BY <1>6, <2>1, <2>3
<1>11. ASSUME NEW v \in core.cancelingValidations, NEW outcome \in LaunchOutcome,
              CanceledValidatorExits(v, outcome)
       PROVE  AnswersKept' /\ (Silent(core') \/ core.explicitStop \/ phantom)
  <2> DEFINE d == [c EXCEPT !.checking = @ \ {v}, !.cancelingValidations = @ \ {v}]
             x == RetireValidation(c, v, outcome)
  <2>1. Handle(x)
    BY <1>11 DEF CanceledValidatorExits, c
  <2>2. d \in CoreRec
    BY <1>3 DEF Sound, CoreRec
  <2>3. /\ d.alive = c.alive /\ d.process = c.process /\ d.validation = c.validation
        /\ d.state = c.state /\ d.sig = c.sig /\ d.explicitStop = c.explicitStop
        /\ d.readyTimer = c.readyTimer /\ d.probeReply = c.probeReply
        /\ d.pendingEndpoint = c.pendingEndpoint /\ d.stopResult = c.stopResult
        /\ d.pendingLaunch = c.pendingLaunch /\ d.retiring = c.retiring
        /\ d.serviceActive = c.serviceActive
    BY <1>3 DEF Sound, CoreRec
  <2>4. x = IF /\ d.process = NoReq /\ d.retiring = NoReq
               /\ d.validation = NoReq /\ ~d.serviceActive
            THEN FinishStop(d, outcome) ELSE d
    BY DEF RetireValidation
  <2> HIDE DEF d, x
  <2>5. Silent(d) /\ Probing(d)
    BY <1>5, <2>3 DEF Silent, Probing
  <2>6. c.state # "Stopped"
    BY <1>3, <1>4, <1>11 DEF Resting
  <2>7. CASE d.process = NoReq /\ d.retiring = NoReq /\ d.validation = NoReq
    <3>1. d.pendingLaunch = NoReq /\ ~d.serviceActive
      BY <1>3, <2>3, <2>7 DEF Resting, Sound, LocalMode
    <3>2. x = Settle(d)
      BY <2>4, <2>7, <3>1 DEF FinishStop
    <3>3. d.stopResult = "Stopped" => d.explicitStop \/ phantom \/ d.validation # NoReq
      BY <1>5, <2>3, <2>6, <2>7, <3>1
    <3>4. /\ Silent(x) \/ d.explicitStop \/ phantom
          /\ Probing(x) /\ StopsExplained(x, phantom) /\ x.alive = d.alive
      BY <2>2, <2>5, <3>2, <3>3, SettledIsExplained
    <3>5. StopsExplained(x, phantom /\ x.alive \subseteq core.alive)
      BY <1>4, <2>3, <3>4 DEF StopsExplained
    <3>6. AnswersKept'
      BY <2>1, <3>4, <3>5, HandledIsKept
    <3> QED
      BY <1>4, <2>1, <2>3, <3>4, <3>6 DEF Handle
  <2>8. CASE ~(d.process = NoReq /\ d.retiring = NoReq /\ d.validation = NoReq)
    <3>1. x = d
      BY <2>4, <2>8
    <3>2. StopsExplained(x, phantom /\ x.alive \subseteq core.alive)
      BY <1>4, <1>5, <2>3, <3>1 DEF StopsExplained
    <3>3. AnswersKept'
      BY <2>1, <2>5, <3>1, <3>2, HandledIsKept
    <3> QED
      BY <2>1, <2>5, <3>1, <3>3 DEF Handle
  <2> QED
    BY <2>7, <2>8
<1>12. CASE CoreExits
  <2> DEFINE d == [c EXCEPT !.alive = @ \ {c.process}]
             x == Fail(d)
  <2>1. Handle(x)
    BY <1>4, <1>12 DEF CoreExits, c
  <2>2. Sound(d, wanted, starts)
    <3>1. d \in CoreRec
      BY <1>3 DEF Sound, CoreRec
    <3>2. LocalMode(d) /\ CoresOwned(d) /\ ValidatorsOwned(d) /\ RequestsCurrent(d, wanted, starts)
      BY <1>3, <1>4, <1>12 DEF CoreExits, Sound, CoreRec, LocalMode, CoresOwned,
                               ValidatorsOwned, RequestsCurrent
    <3> QED
      BY <3>1, <3>2 DEF Sound
  <2>3. /\ d.process = c.process /\ d.sig = c.sig /\ d.explicitStop = c.explicitStop
        /\ d.readyTimer = c.readyTimer /\ d.probeReply = c.probeReply
        /\ d.pendingEndpoint = c.pendingEndpoint
    BY <1>3 DEF Sound, CoreRec
  <2> HIDE DEF d
  <2>4. Silent(d) /\ Probing(d)
    BY <1>5, <2>3 DEF Silent, Probing
  <2>5. Truthful(c, x, phantom)
    BY <1>1, <2>2, <2>3, <2>4, FailAnswers DEF Truthful
  <2> HIDE DEF x
  <2> QED
    BY <1>6, <2>1, <2>5
<1>13. ASSUME NEW outcome \in LaunchOutcome, RetiringExits(outcome)
       PROVE  AnswersKept' /\ (Silent(core') \/ core.explicitStop \/ phantom)
  <2> DEFINE d == [c EXCEPT !.alive = @ \ {c.retiring}, !.retiring = NoReq]
             x == FinishStop(d, outcome)
  <2>1. Handle(x) /\ c.retiring # NoReq
    BY <1>4, <1>13 DEF RetiringExits, c
  <2>2. Sound(d, wanted, starts)
    <3>1. d \in CoreRec
      BY <1>3 DEF Sound, CoreRec, NoReq
    <3>2. LocalMode(d) /\ CoresOwned(d) /\ ValidatorsOwned(d) /\ RequestsCurrent(d, wanted, starts)
      BY <1>3, <2>1 DEF Sound, CoreRec, LocalMode, CoresOwned, ValidatorsOwned, RequestsCurrent
    <3> QED
      BY <3>1, <3>2 DEF Sound
  <2>3. /\ d.process = NoReq /\ d.retiring = NoReq /\ d.alive \subseteq c.alive
        /\ d.validation = c.validation /\ d.sig = c.sig /\ d.explicitStop = c.explicitStop
        /\ d.readyTimer = c.readyTimer /\ d.probeReply = c.probeReply
        /\ d.pendingEndpoint = c.pendingEndpoint /\ d.stopResult = c.stopResult
        /\ d.pendingLaunch = c.pendingLaunch /\ c.process = NoReq
    BY <1>3, <2>1 DEF Sound, CoreRec, CoresOwned
  <2>4. Launching(d, wanted, starts) \/ d.pendingLaunch = NoReq
    BY <1>1, <1>3, <2>1 DEF Sound, CoreRec, CoresOwned, RequestsCurrent, Resting, Launching
  <2> HIDE DEF d
  <2>5. Silent(d) /\ Probing(d)
    BY <1>5, <2>3 DEF Silent, Probing
  <2>6. c.state = "Stopping"
    BY <1>3, <2>1 DEF Resting
  <2>7. CASE d.pendingLaunch # NoReq
    <3>1. Truthful(c, x, phantom)
      BY <1>1, <2>2, <2>3, <2>4, <2>5, <2>7, FinishStopAnswers DEF Truthful
    <3> HIDE DEF x
    <3> QED
      BY <1>6, <2>1, <3>1
  <2>8. CASE d.pendingLaunch = NoReq
    <3>1. x = Settle(d)
      BY <2>8 DEF FinishStop
    <3> HIDE DEF x
    <3>2. d.stopResult = "Stopped" => d.explicitStop \/ phantom \/ d.validation # NoReq
      BY <1>5, <2>3, <2>6, <2>8
    <3>3. /\ Silent(x) \/ d.explicitStop \/ phantom
          /\ Probing(x) /\ StopsExplained(x, phantom) /\ x.alive = d.alive
      BY <2>2, <2>5, <3>1, <3>2, SettledIsExplained DEF Sound
    <3>4. StopsExplained(x, phantom /\ x.alive \subseteq core.alive)
      BY <1>4, <2>3, <3>3 DEF StopsExplained
    <3>5. AnswersKept'
      BY <2>1, <3>3, <3>4, HandledIsKept
    <3> QED
      BY <1>4, <2>1, <2>3, <3>3, <3>5 DEF Handle
  <2> QED
    BY <2>7, <2>8
<1>14. CASE SendProbe
  <2> DEFINE x == [c EXCEPT !.probeReply = core.pendingEndpoint]
  <2>1. Handle(x)
    BY <1>14 DEF SendProbe, c
  <2>2. /\ x.process = c.process /\ x.sig = c.sig /\ x.explicitStop = c.explicitStop
        /\ x.readyTimer = c.readyTimer /\ x.pendingEndpoint = c.pendingEndpoint
        /\ x.probeReply = c.pendingEndpoint /\ x.state = c.state /\ x.alive = c.alive
        /\ x.validation = c.validation /\ x.pendingLaunch = c.pendingLaunch
        /\ x.stopResult = c.stopResult
    BY <1>3, <1>4 DEF Sound, CoreRec
  <2> HIDE DEF x
  <2>3. Truthful(c, x, phantom)
    BY <1>5, <2>2 DEF Truthful, Silent, Probing, StopsExplained
  <2> QED
    BY <1>6, <2>1, <2>3
<1>15. CASE ProbeDeadline
  <2> DEFINE x == Fail(c)
  <2>1. Handle(x)
    BY <1>15 DEF ProbeDeadline, c
  <2>2. Truthful(c, x, phantom)
    BY <1>1, <1>3, <1>5, FailAnswers DEF Truthful
  <2> HIDE DEF x
  <2> QED
    BY <1>6, <2>1, <2>2
<1>16. CASE CoreAnswers
  BY <1>16 DEF CoreAnswers, AnswersKept
<1> DEFINE p == [c EXCEPT !.probeReply = NoReq]
<1>17. /\ p \in CoreRec /\ p.process = c.process /\ p.sig = c.sig /\ p.alive = c.alive
       /\ p.explicitStop = c.explicitStop /\ p.readyTimer = c.readyTimer
       /\ p.probeReply = NoReq /\ p.state = c.state /\ p.validation = c.validation
       /\ p.pendingLaunch = c.pendingLaunch /\ p.stopResult = c.stopResult
       /\ p.pendingEndpoint = c.pendingEndpoint
  BY <1>3 DEF Sound, CoreRec, NoReq
<1> DEFINE r == [p EXCEPT !.readyTimer = FALSE, !.endpoint = p.pendingEndpoint,
                          !.state = "Running"]
           d == Emit(r, {"ready"})
<1>18. CASE ProbeSucceeds /\ core.state = "Starting"
  <2>1. Handle(d)
    BY <1>18 DEF ProbeSucceeds, c
  <2> HIDE DEF p
  <2>2. /\ d.process = p.process /\ d.sig = p.sig \cup {"ready"} /\ d.alive = p.alive
        /\ d.explicitStop = p.explicitStop /\ ~d.readyTimer /\ d.state = "Running"
        /\ d.probeReply = NoReq /\ d.validation = p.validation
        /\ d.pendingLaunch = p.pendingLaunch /\ d.stopResult = p.stopResult
    BY <1>17 DEF Emit, CoreRec
  <2> HIDE DEF d
  <2>3. /\ Silent(d) /\ Probing(d)
    BY <1>5, <1>17, <2>2 DEF Silent, Probing
  <2>4. phantom' \/ (d.process # NoReq /\ core'.process # NoReq)
    BY <2>1, <2>2 DEF Handle
  <2>5. StopsExplained(d, phantom')
    BY <2>2, <2>4 DEF StopsExplained
  <2>6. core' = d
    BY <2>1 DEF Handle
  <2> QED
    BY <2>3, <2>5, <2>6 DEF AnswersKept
<1>19. CASE ProbeFails \/ (ProbeSucceeds /\ core.state # "Starting")
  <2>1. Handle(p)
    BY <1>19 DEF ProbeSucceeds, ProbeFails, c
  <2> HIDE DEF p
  <2>2. Truthful(c, p, phantom)
    BY <1>5, <1>17 DEF Truthful, Silent, Probing, StopsExplained
  <2> QED
    BY <1>6, <2>1, <2>2
<1> QED
  BY <1>7, <1>8, <1>9, <1>10, <1>11, <1>12, <1>13, <1>14, <1>15, <1>16, <1>18, <1>19 DEF Next

\* AnswersKept holds in every reachable state.
LEMMA AnswersHold == Spec => []AnswersKept
<1>1. Init => AnswersKept
  BY DEF Init, NewCore, AnswersKept, Probing, StopsExplained
<1>2. IInv /\ AnswersKept /\ [Next]_vars => AnswersKept'
  <2>1. ASSUME IInv, AnswersKept, UNCHANGED vars PROVE AnswersKept'
    BY <2>1 DEF vars, AnswersKept
  <2> QED
    BY <2>1, NextAnswers
<1> QED
  BY <1>1, <1>2, InvariantHolds, PTL DEF Spec

\* stopFinished() answers a stop() that has not been answered: whoever exits
\* last, and whatever was started, rejected or timed out in between.
THEOREM StopsAreAnsweredOnce == Spec => StopFinishedAnswersStop
<1>1. ASSUME IInv, AnswersKept, [Next]_vars
      PROVE  [core'.sig \cap {"stopConfirmed", "stopUnconfirmed"} # {} /\ core' # core
                => core.explicitStop \/ stops' > stops \/ phantom]_vars
  <2>1. CASE Next
    BY <1>1, <2>1, NextAnswers DEF Silent
  <2>2. CASE UNCHANGED vars
    BY <2>2
  <2> QED
    BY <1>1, <2>1, <2>2
<1> QED
  BY <1>1, InvariantHolds, AnswersHold, PTL DEF Spec, StopFinishedAnswersStop

\* ready() announces the core that has answered: cancelProbe() and the timer
\* leave no answer of a predecessor to be taken for the new core's.
THEOREM ReadyCoresHaveAnswered == Spec => ReadyOnOwnAnswer
<1>1. ASSUME IInv, AnswersKept
      PROVE  [ProbeSucceeds /\ core'.state = "Running" => reply = core.process \/ phantom']_vars
  <2> SUFFICES ASSUME ProbeSucceeds, core'.state = "Running" PROVE reply = core.process \/ phantom'
    OBVIOUS
  <2>1. /\ core \in CoreRec /\ core.probeReply # NoReq /\ reply = core.probeReply
        /\ core.readyTimer /\ core.state \in {"Starting", "Stopping"}
    BY <1>1 DEF ProbeSucceeds, IInv, TypeOK, Resting
  <2> DEFINE c == [Handling(core) EXCEPT !.probeReply = NoReq]
  <2>2. c \in CoreRec /\ c.state = core.state /\ c.process = core.process
    BY <2>1 DEF Handling, CoreRec, NoReq
  <2>3. core.state = "Starting"
    <3>1. core.state # "Starting" => core' = c
      BY DEF ProbeSucceeds, Handle
    <3> HIDE DEF c
    <3> QED
      BY <2>1, <2>2, <3>1
  <2> DEFINE d == Emit([c EXCEPT !.readyTimer = FALSE, !.endpoint = c.pendingEndpoint,
                                 !.state = "Running"], {"ready"})
  <2>4. Handle(d)
    BY <2>3 DEF ProbeSucceeds
  <2> HIDE DEF c
  <2>5. d.process = c.process /\ d.state = "Running"
    BY <2>2 DEF Emit, CoreRec
  <2> HIDE DEF d
  <2>6. core.process = NoReq => phantom'
    BY <2>2, <2>4, <2>5 DEF Handle
  <2>7. core.process # NoReq => reply = core.process
    BY <1>1, <2>1 DEF AnswersKept, Probing
  <2> QED
    BY <2>6, <2>7
<1> QED
  BY <1>1, InvariantHolds, AnswersHold, PTL DEF Spec, ReadyOnOwnAnswer
=============================================================================
