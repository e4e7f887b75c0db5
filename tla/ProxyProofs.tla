----------------------------- MODULE ProxyProofs -----------------------------
(***************************************************************************)
(* Proofs about both halves of the system proxy: the queue of commands in  *)
(* ProxyService, and what a job does to the settings in SystemProxy.  They *)
(* share the requests and nothing else.                                    *)
(***************************************************************************)
EXTENDS ProxyService, SystemProxy, TLAPS

(* ProxyService.  For any set of configurations, without a bound on the    *)
(* commands: nothing waits in vain, the latest command prevails, a         *)
(* shutdown restores last.                                                 *)

\* The commands, and the empty optional, differ from each other.
LEMMA JobsDiffer ==
    /\ Restore # Disable /\ Restore # Refresh /\ Disable # Refresh
    /\ Restore \notin Changes /\ Refresh \notin Commands
    /\ NoJob # Restore /\ NoJob # Refresh /\ NoJob \notin Changes /\ NoJob \notin Commands
    /\ Jobs = Commands \cup {Refresh}
<1>1. Restore # Disable /\ Restore # Refresh /\ Disable # Refresh
  <2>1. Restore.action = "Restore" /\ Disable.action = "Disable" /\ Refresh.action = "Refresh"
    BY DEF Restore, Disable, Refresh
  <2> QED  BY <2>1
<1>2. \A r \in Enables : r # Restore /\ r # Refresh
  <2>1. \A r \in Enables : r.action = "Enable"
    BY DEF Enables
  <2>2. Restore.action = "Restore" /\ Refresh.action = "Refresh"
    BY DEF Restore, Refresh
  <2> QED  BY <2>1, <2>2
<1> QED  BY <1>1, <1>2, NoJobAssumption DEF Jobs, Commands, Changes

\* What processNext() does: nothing, one of three starts, or the end of the
\* busy time.
Unable(s) == s.active # NoJob \/ IsDelivering(s) \/ s.shutdownDone

LEMMA ProcessNextCases ==
    ASSUME NEW s \in ServiceRec,
           s.shuttingDown => s.queuedChange = NoJob /\ ~s.refreshQueued
    PROVE  LET p == ProcessNext(s)
           IN /\ p \in ServiceRec
              /\ p.delivering = s.delivering /\ p.delivered = s.delivered
              /\ p.shuttingDown = s.shuttingDown /\ p.shutdownDone = s.shutdownDone
              /\ p.restoreQueued => s.restoreQueued
              /\ p.queuedChange # NoJob => p.queuedChange = s.queuedChange
              /\ p.refreshQueued => s.refreshQueued
              /\ \/ Unable(s) /\ p = s
                 \/ ~Unable(s) /\ s.restoreQueued /\ p.active = Restore /\ p.busy
                    /\ p.queuedChange = s.queuedChange /\ ~p.restoreQueued
                 \/ ~Unable(s) /\ ~s.restoreQueued /\ s.queuedChange # NoJob
                    /\ p.active = s.queuedChange /\ p.busy
                    /\ p.queuedChange = NoJob /\ ~p.restoreQueued
                 \/ ~Unable(s) /\ ~s.restoreQueued /\ s.queuedChange = NoJob
                    /\ p.active = Refresh /\ p.busy
                    /\ p.queuedChange = NoJob /\ ~p.restoreQueued
                 \/ ~Unable(s) /\ ~s.restoreQueued /\ s.queuedChange = NoJob
                    /\ p.active = NoJob /\ ~p.busy /\ ~p.refreshQueued
                    /\ p.queuedChange = NoJob /\ ~p.restoreQueued
<1> DEFINE p == ProcessNext(s)
<1>1. CASE Unable(s)
  <2>1. p = s
    BY <1>1 DEF ProcessNext, Unable
  <2> QED  BY <1>1, <2>1
<1>2. CASE ~Unable(s) /\ s.restoreQueued
  <2>1. p = [s EXCEPT !.restoreQueued = FALSE, !.active = Restore, !.busy = TRUE]
    BY <1>2 DEF ProcessNext, Start, Unable, ServiceRec
  <2>2. p \in ServiceRec
    BY <2>1 DEF ServiceRec, Jobs, Commands, Changes
  <2> QED  BY <1>2, <2>1, <2>2 DEF ServiceRec
<1>3. CASE ~Unable(s) /\ ~s.restoreQueued /\ s.queuedChange # NoJob
  <2>1. ~s.shuttingDown
    BY <1>3
  <2>2. p = [s EXCEPT !.queuedChange = NoJob, !.active = s.queuedChange, !.busy = TRUE]
    BY <1>3, <2>1 DEF ProcessNext, Start, Unable, ServiceRec
  <2>3. p \in ServiceRec
    BY <1>3, <2>2 DEF ServiceRec, Jobs, Commands, Changes
  <2> QED  BY <1>3, <2>2, <2>3 DEF ServiceRec
<1>4. CASE ~Unable(s) /\ ~s.restoreQueued /\ s.queuedChange = NoJob /\ s.refreshQueued
  <2>1. ~s.shuttingDown
    BY <1>4
  <2>2. p = [s EXCEPT !.refreshQueued = FALSE, !.active = Refresh, !.busy = TRUE]
    BY <1>4, <2>1 DEF ProcessNext, Start, Unable, ServiceRec
  <2>3. p \in ServiceRec
    BY <2>2 DEF ServiceRec, Jobs
  <2> QED  BY <1>4, <2>2, <2>3 DEF ServiceRec
<1>5. CASE ~Unable(s) /\ ~s.restoreQueued /\ s.queuedChange = NoJob /\ ~s.refreshQueued
  <2>1. p = [s EXCEPT !.busy = FALSE]
    BY <1>5 DEF ProcessNext, Unable
  <2>2. p \in ServiceRec
    BY <2>1 DEF ServiceRec
  <2>3. p.active = NoJob
    BY <1>5, <2>1 DEF Unable, ServiceRec
  <2> QED  BY <1>5, <2>1, <2>2, <2>3 DEF ServiceRec
<1> QED  BY <1>1, <1>2, <1>3, <1>4, <1>5

-----------------------------------------------------------------------------
(* The invariant before a handler's processNext() *)

\* QueueIInv of a service s in the middle of a handler, where something may wait
\* that nobody serves yet: all of it but NothingWaits.
Midway(s, l, i, o) ==
    /\ s \in ServiceRec /\ l \in Commands \cup {NoJob} /\ i \in Commands \cup {NoJob} /\ o \in BOOLEAN
    /\ ~s.shuttingDown /\ ~o =>
        i = IF s.queuedChange # NoJob THEN s.queuedChange
            ELSE IF s.restoreQueued THEN Restore ELSE l
    /\ s.shuttingDown =>
        s.restoreQueued \/ s.active = Restore \/ s.delivered = Restore \/ s.shutdownDone
    /\ s.shutdownDone => l = Restore /\ s.active = NoJob
    /\ s.active # NoJob => ~IsDelivering(s) /\ s.busy
    /\ IsDelivering(s) <=> s.delivered # NoJob
    /\ s.delivering = "shutdown" => s.shutdownDone
    /\ s.shutdownDone => s.shuttingDown
    /\ s.active \in Commands => l = s.active
    /\ s.delivered \in Commands => l = s.delivered
    /\ s.shuttingDown => s.queuedChange = NoJob /\ ~s.refreshQueued

LEMMA InvariantIsMidway ==
    QueueIInv <=> Midway(service, last, intent, overtaken) /\ NothingWaits
BY DEF QueueIInv, QueueTypeOK, IntentKept, Outcome, ShutdownRestoresLast, Consistent, Midway

LEMMA InvariantIsMidwayNext ==
    QueueIInv' <=> Midway(service', last', intent', overtaken') /\ NothingWaits'
BY DEF QueueIInv, QueueTypeOK, IntentKept, Outcome, ShutdownRestoresLast, Consistent, Midway

\* A handler that ends with processNext() restores the invariant.
LEMMA HandlerEnds ==
    ASSUME NEW s, Midway(s, last, intent', overtaken'), Runs(ProcessNext(s))
    PROVE  QueueIInv'
<1> DEFINE p == ProcessNext(s)
<1>0. s \in ServiceRec /\ (s.shuttingDown => s.queuedChange = NoJob /\ ~s.refreshQueued)
  BY DEF Midway
<1>1. service' = p /\ last' = IF p.active \in Commands THEN p.active ELSE last
  BY DEF Runs
<1>2. Midway(p, last', intent', overtaken')
  BY <1>0, <1>1, ProcessNextCases, JobsDiffer
     DEF Midway, Unable, IsDelivering, ServiceRec, Commands, Changes, Jobs
<1>3. NothingWaits'
  BY <1>0, <1>1, ProcessNextCases, JobsDiffer
     DEF NothingWaits, Midway, Unable, IsDelivering, ServiceRec, Commands
<1> QED  BY <1>1, <1>2, <1>3, InvariantIsMidwayNext

-----------------------------------------------------------------------------
(* The invariant is inductive *)

LEMMA InitEstablishes == QueueInit => QueueIInv
<1> SUFFICES ASSUME QueueInit PROVE QueueIInv
  OBVIOUS
<1>1. service \in ServiceRec
  BY DEF QueueInit, NewService, ServiceRec
<1>2. /\ service.active = NoJob /\ service.queuedChange = NoJob /\ service.delivered = NoJob
      /\ ~service.restoreQueued /\ ~service.refreshQueued /\ ~service.busy
      /\ service.delivering = "none" /\ ~service.shuttingDown /\ ~service.shutdownDone
      /\ last = NoJob /\ intent = NoJob /\ overtaken = FALSE
  BY DEF QueueInit, NewService
<1> QED
  BY <1>1, <1>2, JobsDiffer DEF QueueIInv, QueueTypeOK, NothingWaits, IntentKept, Outcome,
     ShutdownRestoresLast, Consistent, IsDelivering

LEMMA NextPreserves == QueueIInv /\ [QueueNext]_queueVars => QueueIInv'
<1> SUFFICES ASSUME QueueIInv, [QueueNext]_queueVars PROVE QueueIInv'
  OBVIOUS
<1>0. Midway(service, last, intent, overtaken) /\ NothingWaits
  BY InvariantIsMidway
<1>1. CASE CallRefresh
  <2> DEFINE s == [service EXCEPT !.refreshQueued = TRUE]
  <2>1. Midway(s, last, intent', overtaken')
    BY <1>0, <1>1 DEF CallRefresh, Midway, ServiceRec, IsDelivering
  <2> QED  BY <1>1, <2>1, HandlerEnds DEF CallRefresh
<1>2. ASSUME NEW request \in Changes, SetEnabled(request) PROVE QueueIInv'
  <2>1. CASE service.active = request
    <3> DEFINE s == [service EXCEPT !.queuedChange = NoJob]
    <3>1. service' = s /\ last' = last
      BY <1>0, <1>2, <2>1, JobsDiffer DEF SetEnabled, Runs, Midway, ServiceRec, Commands
    <3>2. Midway(s, last', intent', overtaken')
      BY <1>0, <1>2, <2>1, <3>1, JobsDiffer
         DEF SetEnabled, Midway, ServiceRec, IsDelivering, Commands, Changes, Jobs
    <3>3. NothingWaits'
      BY <1>0, <2>1, <3>1, JobsDiffer DEF NothingWaits, Midway, ServiceRec
    <3> QED  BY <3>1, <3>2, <3>3, InvariantIsMidwayNext
  <2>2. CASE service.active # request
    <3> DEFINE s == [service EXCEPT !.queuedChange = request, !.refreshQueued = FALSE]
    <3>1. Midway(s, last, intent', overtaken')
      BY <1>0, <1>2, <2>2, JobsDiffer
         DEF SetEnabled, Midway, ServiceRec, IsDelivering, Commands
    <3> QED  BY <1>2, <2>2, <3>1, HandlerEnds DEF SetEnabled
  <2> QED  BY <2>1, <2>2
<1>3. CASE RestoreOwned
  <2> DEFINE s == [service EXCEPT !.queuedChange = NoJob, !.refreshQueued = FALSE,
                                  !.restoreQueued = @ \/ service.active # Restore]
  <2>1. Midway(s, last, intent', overtaken')
    BY <1>0, <1>3, JobsDiffer DEF RestoreOwned, Midway, ServiceRec, IsDelivering, Commands
  <2> QED  BY <1>3, <2>1, HandlerEnds DEF RestoreOwned
<1>4. CASE Shutdown
  <2> DEFINE s == [service EXCEPT !.shuttingDown = TRUE, !.queuedChange = NoJob,
                                  !.refreshQueued = FALSE,
                                  !.restoreQueued = service.active # Restore]
  <2>1. Midway(s, last, intent', overtaken')
    BY <1>0, <1>4, JobsDiffer DEF Shutdown, Midway, ServiceRec, IsDelivering, Commands
  <2> QED  BY <1>4, <2>1, HandlerEnds DEF Shutdown
<1>5. CASE Deliver
  <2> DEFINE s == [service EXCEPT !.active = NoJob, !.delivering = "result",
                                  !.delivered = service.active]
  <2>1. service' = s /\ last' = last
    BY <1>0, <1>5, JobsDiffer DEF Deliver, Runs, Midway, ServiceRec
  <2>2. Midway(s, last', intent', overtaken')
    BY <1>0, <1>5, <2>1, JobsDiffer
       DEF Deliver, Midway, ServiceRec, IsDelivering, Commands
  <2>3. NothingWaits'
    BY <1>0, <2>1 DEF NothingWaits, Midway, ServiceRec, IsDelivering
  <2> QED  BY <2>1, <2>2, <2>3, InvariantIsMidwayNext
<1>6. CASE ReportShutdown
  <2> DEFINE s == [service EXCEPT !.shutdownDone = TRUE, !.busy = FALSE,
                                  !.delivering = "shutdown"]
  <2>1. service' = s /\ last' = last
    BY <1>0, <1>6, JobsDiffer DEF ReportShutdown, Runs, Midway, ServiceRec, IsDelivering
  <2>2. Midway(s, last', intent', overtaken')
    BY <1>0, <1>6, <2>1, JobsDiffer
       DEF ReportShutdown, EndsShutdown, Midway, ServiceRec, IsDelivering, Commands
  <2>3. NothingWaits'
    BY <1>0, <2>1 DEF NothingWaits, Midway, ServiceRec, IsDelivering
  <2> QED  BY <2>1, <2>2, <2>3, InvariantIsMidwayNext
<1>7. CASE EndDelivery
  <2> DEFINE s == [service EXCEPT !.delivering = "none", !.delivered = NoJob]
  <2>1. Midway(s, last, intent', overtaken')
    BY <1>0, <1>7, JobsDiffer
       DEF EndDelivery, EndsShutdown, Midway, ServiceRec, IsDelivering, Commands, Changes, Jobs
  <2> QED  BY <1>7, <2>1, HandlerEnds DEF EndDelivery
<1>8. CASE UNCHANGED queueVars
  BY <1>8 DEF queueVars, QueueIInv, QueueTypeOK, NothingWaits, IntentKept, Outcome, ShutdownRestoresLast,
              Consistent
<1> QED  BY <1>1, <1>2, <1>3, <1>4, <1>5, <1>6, <1>7, <1>8 DEF QueueNext, Calls, Delivery

THEOREM Inductive == QueueSpec => []QueueIInv
BY InitEstablishes, NextPreserves, PTL DEF QueueSpec

-----------------------------------------------------------------------------
\* The service's state keeps its type.
THEOREM QueueTypeCorrect == QueueSpec => []QueueTypeOK
<1>1. QueueIInv => QueueTypeOK
  BY DEF QueueIInv
<1> QED  BY Inductive, <1>1, PTL

\* No request is left behind: processNext() is reached whenever it could act.
THEOREM NothingLeftWaiting == QueueSpec => []NothingWaits
<1>1. QueueIInv => NothingWaits
  BY DEF QueueIInv
<1> QED  BY Inductive, <1>1, PTL

\* The command given last prevails, however many were given and whatever ran.
THEOREM LatestPrevails == QueueSpec => []IntentKept
<1>1. QueueIInv => IntentKept
  BY DEF QueueIInv
<1> QED  BY Inductive, <1>1, PTL

\* After shutdown() a restore is the last command that runs.
THEOREM RestoresLast == QueueSpec => []ShutdownRestoresLast
<1>1. QueueIInv => ShutdownRestoresLast
  BY DEF QueueIInv
<1> QED  BY Inductive, <1>1, PTL

\* All of it at once: the invariant the run proxy_service checks.
THEOREM CommandsAreKept == QueueSpec => []QueueSafety
BY QueueTypeCorrect, NothingLeftWaiting, LatestPrevails, RestoresLast, PTL DEF QueueSafety

-----------------------------------------------------------------------------
(* SystemProxy, for all services, endpoints and bounds. *)

USE ConstantsAreDistinct

LEMMA RestoreIsNoEnable == Restore \notin Enables /\ Disable \notin Enables /\ Refresh \notin Enables
BY DEF Restore, Disable, Refresh, Enables

LEMMA SnapType == ASSUME TypeOK, NEW s \in Services PROVE Snap(s) \in Snapshots
BY DEF TypeOK, Snap, Snapshots

LEMMA SnapIsValid == ASSUME TypeOK, NEW s \in Services PROVE Snap(s) # NoSnapshot
BY DEF TypeOK, Snap

\* What a command leaves of the settings of s, and of the other services.
LEMMA WriteType ==
  ASSUME TypeOK, NEW s \in Services, NEW now \in Settings, NEW ok \in BOOLEAN, Writes(s, now, ok)
  PROVE  /\ os' \in [Services -> Settings] /\ failures' \in 0..MaxFailures
         /\ \A r \in Services \ {s} : os'[r] = os[r]
         /\ os'[s] = now \/ (os'[s] = os[s] /\ ~ok)
<1>1. failures' \in 0..MaxFailures
  BY DEF Writes, Fails, TypeOK
<1>2. os' = [os EXCEPT ![s] = now] \/ (os' = os /\ ~ok)
  BY DEF Writes
<1>3. QED BY <1>1, <1>2 DEF TypeOK

LEMMA InitHolds == Init => IInv
<1> SUFFICES ASSUME Init PROVE IInv
  OBVIOUS
<1>1. UserSettings \subseteq Settings
  BY DEF UserSettings, Settings, Ends
<1>2. TypeOK
  <2>1. op \in OpRec
    BY DEF Init, Idle, OpRec, Jobs, Snapshots, Fields
  <2>2. os \in [Services -> Settings]
    BY <1>1 DEF Init
  <2>3. QED BY <2>1, <2>2 DEF Init, TypeOK, Snapshots, NoReport
<1>3. \A s \in Services : os[s].end \notin Configs /\ os[s] \in Settings
  BY <1>2 DEF Init, UserSettings, Settings, TypeOK
<1>4. UsersAreOthers /\ OwnedHasOriginal
  BY <1>3 DEF Init, UsersAreOthers, OwnedHasOriginal
<1>5. RestIsSettled
  <2>1. \A s \in Services : owned # Snap(s)
    BY <1>2, SnapIsValid DEF Init
  <2>2. QED BY <1>3, <2>1 DEF Init, RestIsSettled, Settled, Free, Same, Ours
<1>6. CaptureHolds /\ WritingIsUndoable /\ ReturningIsKnown /\ RestoreClears
  <2>1. op.pc = "idle" /\ op.job = Refresh /\ reported.success = FALSE
    BY DEF Init, Idle, NoReport
  <2>2. QED BY <2>1, RestoreIsNoEnable
        DEF Init, CaptureHolds, WritingIsUndoable, ReturningIsKnown, RestoreClears, Writing, Returning
<1>7. QED BY <1>2, <1>4, <1>5, <1>6 DEF IInv

LEMMA BeginHolds == ASSUME IInv, NEW job \in Jobs, Begin(job) PROVE IInv'
<1>1. /\ op'.pc = Entry(job) /\ op'.job = job /\ op'.own = FALSE
      /\ op' \in OpRec
  BY DEF Begin, Idle, Entry, OpRec, Snapshots, Fields
<1>2. /\ Entry(job) \in {"capture", "state", "check", "off"}
      /\ Entry(job) = "capture" => job \in Enables
      /\ Entry(job) = "state" => job = Refresh
      /\ Entry(job) = "check" => job \notin Enables
      /\ Entry(job) = "off" => owned = NoSnapshot
  BY DEF Entry
<1>3. /\ UNCHANGED <<os, primary, owned, original, users, blurred, failures, changes>>
      /\ reported' = NoReport
  BY DEF Begin
<1>4. TypeOK' /\ UsersAreOthers' /\ OwnedHasOriginal'
  BY <1>1, <1>3 DEF IInv, TypeOK, UsersAreOthers, OwnedHasOriginal, NoReport
<1>5. RestIsSettled'
  <2>1. op.pc = "idle"
    BY DEF Begin
  <2>2. QED BY <1>3, <2>1 DEF IInv, RestIsSettled, Resting, Settled, Refound, Owned, Known, Free, Snap
<1>6. CaptureHolds' /\ WritingIsUndoable' /\ ReturningIsKnown'
  BY <1>1, <1>2 DEF CaptureHolds, WritingIsUndoable, ReturningIsKnown, Writing, Returning
<1>7. RestoreClears'
  <2>1. Refresh # Restore
    BY DEF Refresh, Restore
  <2>2. QED BY <1>1, <1>2, <1>3, <2>1 DEF RestoreClears
<1>8. QED BY <1>4, <1>5, <1>6, <1>7 DEF IInv

-----------------------------------------------------------------------------
(* What holds wherever a call ends or enable() goes on to write *)

\* The conjuncts of IInv that speak of the running job.
JobHolds == /\ RestIsSettled /\ CaptureHolds /\ WritingIsUndoable
            /\ ReturningIsKnown /\ RestoreClears

LEMMA ReturnHolds ==
  ASSUME NEW o \in OpRec, NEW result \in BOOLEAN, op' = Return(o, result),
         \A s \in Services \ blurred' : Settled(s)',
         o.job = Restore /\ result => owned' = NoSnapshot
  PROVE  op' \in OpRec /\ JobHolds'
<1>1. op' \in OpRec
  BY DEF Return, Idle, OpRec, Snapshots, Fields
<1>2. /\ op'.pc = "state" /\ op'.job = o.job /\ op'.result = result /\ op'.own = FALSE
  BY DEF Return, Idle
<1>3. RestIsSettled'
  BY DEF RestIsSettled
<1>4. CaptureHolds' /\ WritingIsUndoable' /\ ReturningIsKnown'
  BY <1>2 DEF CaptureHolds, WritingIsUndoable, ReturningIsKnown, Writing, Returning
<1>5. RestoreClears'
  BY <1>2 DEF RestoreClears
<1>6. QED BY <1>1, <1>3, <1>4, <1>5 DEF JobHolds

LEMMA ApplyStarts ==
  ASSUME TypeOK, NEW o \in OpRec, op' = ToApply(o, owned'),
         o.job \in Enables, o.before # NoSnapshot,
         os' \in [Services -> Settings], owned' \in Snapshots, blurred' \subseteq Services,
         owned' # NoSnapshot => owned'.service = o.before.service,
         o.before.service \notin blurred' => os'[o.before.service] = o.before.values,
         \A s \in Services \ blurred' : Settled(s)'
  PROVE  op' \in OpRec /\ JobHolds'
<1>1. CASE o.before.values.end = Auth
  BY <1>1, RestoreIsNoEnable, ReturnHolds DEF ToApply
<1>2. CASE o.before.values.end # Auth
  <2>1. op' \in OpRec
    BY <1>2 DEF ToApply, OpRec, Fields
  <2>2. /\ op'.pc = "apply" /\ op'.field = "end" /\ op'.own = FALSE /\ op'.job = o.job
        /\ op'.before = o.before /\ (op'.still <=> owned' = o.before)
    BY <1>2 DEF ToApply, OpRec
  <2>3. RestIsSettled' /\ CaptureHolds' /\ ReturningIsKnown' /\ RestoreClears'
    BY <2>2 DEF RestIsSettled, Resting, CaptureHolds, ReturningIsKnown, Returning, RestoreClears
  <2>4. WritingIsUndoable'
    <3> DEFINE t == o.before.service
    <3>1. t \in Services /\ o.before.values \in Settings
      BY DEF OpRec, Snapshots
    <3>2. \A s \in Services \ (blurred' \cup {t}) : Free(s)'
      <4> SUFFICES ASSUME NEW s \in Services \ (blurred' \cup {t}) PROVE Free(s)'
        OBVIOUS
      <4>1. owned' # Snap(s)'
        BY DEF Snap, Snapshots
      <4>2. QED BY <4>1 DEF Settled
    <3>3. ASSUME t \notin blurred'
          PROVE  /\ os'[t] = o.before.values
                 /\ Settled(t)' /\ (owned' = Snap(t)' <=> owned' = o.before)
      BY <3>1, <3>3 DEF Snap, OpRec, Snapshots
    <3>4. QED
      BY <1>2, <2>2, <3>1, <3>2, <3>3 DEF WritingIsUndoable, Settled, Refound, Owned, Free, Snap
  <2>5. QED BY <2>1, <2>3, <2>4 DEF JobHolds
<1>3. QED BY <1>1, <1>2

-----------------------------------------------------------------------------
(* The steps of enable() and restoreOwned() *)

LEMMA CaptureHoldsOn == ASSUME IInv, Capture PROVE IInv'
<1>1. PICK ok \in BOOLEAN :
        /\ ok => primary # NoService
        /\ Fails(ok \/ primary = NoService)
        /\ IF ~ok THEN Returns(FALSE)
           ELSE LET o == [op EXCEPT !.before = Snap(primary)] IN
                op' = IF owned # NoSnapshot /\ owned.service # primary
                      THEN [o EXCEPT !.pc = "check"] ELSE ToApply(o, owned)
  BY DEF Capture
<1>2. UNCHANGED <<os, primary, owned, original, reported, users, blurred, changes>>
  BY DEF Capture
<1>3. op \in OpRec /\ op.pc = "capture" /\ op.job \in Enables
  BY DEF Capture, IInv, TypeOK, CaptureHolds
<1>4. \A s \in Services \ blurred' : Settled(s)'
  BY <1>2, <1>3 DEF IInv, RestIsSettled, Resting, Settled, Refound, Owned, Known, Free, Snap
<1>5. op' \in OpRec /\ JobHolds'
  <2>1. CASE ~ok
    BY <1>1, <1>3, <1>4, <2>1, ReturnHolds, RestoreIsNoEnable DEF Returns
  <2>2. CASE ok
    <3> DEFINE o == [op EXCEPT !.before = Snap(primary)]
    <3>1. primary \in Services /\ Snap(primary) \in Snapshots /\ Snap(primary) # NoSnapshot
      BY <1>1, <2>2, SnapType, SnapIsValid DEF IInv, TypeOK
    <3>2. o \in OpRec /\ o.job = op.job /\ o.before = Snap(primary) /\ o.pc = "capture"
      BY <1>3, <3>1 DEF OpRec
    <3>3. /\ o.before.service = primary /\ os'[primary] = o.before.values
          /\ Snap(primary)' = Snap(primary)
      BY <1>2, <3>2 DEF Snap
    <3>4. CASE owned # NoSnapshot /\ owned.service # primary
      <4>1. op' = [o EXCEPT !.pc = "check"]
        BY <1>1, <2>2, <3>4
      <4>2. op' \in OpRec /\ op'.pc = "check" /\ op'.job = op.job /\ op'.before = Snap(primary)
        BY <3>2, <4>1 DEF OpRec
      <4>3. CaptureHolds'
        BY <1>2, <1>3, <3>1, <3>3, <3>4, <3>2, <4>2 DEF CaptureHolds, Returning
      <4>4. RestIsSettled'
        BY <1>4 DEF RestIsSettled
      <4>5. WritingIsUndoable' /\ ReturningIsKnown' /\ RestoreClears'
        BY <4>2 DEF WritingIsUndoable, Writing, ReturningIsKnown, Returning, RestoreClears
      <4>6. QED BY <4>2, <4>3, <4>4, <4>5 DEF JobHolds
    <3>5. CASE ~(owned # NoSnapshot /\ owned.service # primary)
      <4>1. op' = ToApply(o, owned')
        BY <1>1, <1>2, <2>2, <3>5
      <4> HIDE DEF o
      <4>2. /\ TypeOK /\ os' \in [Services -> Settings] /\ owned' \in Snapshots
            /\ blurred' \subseteq Services
        BY <1>2 DEF IInv, TypeOK
      <4>3. QED BY <1>2, <1>3, <1>4, <3>1, <3>2, <3>3, <3>5, <4>1, <4>2, ApplyStarts
    <3>6. QED BY <3>4, <3>5
  <2>3. QED BY <2>1, <2>2
<1>6. TypeOK' /\ UsersAreOthers' /\ OwnedHasOriginal'
  BY <1>1, <1>2, <1>5 DEF IInv, TypeOK, UsersAreOthers, OwnedHasOriginal, Fails
<1>7. QED BY <1>5, <1>6 DEF IInv, JobHolds

\* What restoreOwned() returns is what the job returns, or enable() goes on.
LEMMA OwnedIsReturned ==
  ASSUME IInv, NEW result \in BOOLEAN, RestoreReturns(result),
         result => owned' = NoSnapshot,
         os' \in [Services -> Settings], owned' \in Snapshots, blurred' \subseteq Services,
         op.job \in Enables /\ result =>
            /\ op.before # NoSnapshot
            /\ op.before.service \notin blurred' => os'[op.before.service] = op.before.values,
         \A s \in Services \ blurred' : Settled(s)'
  PROVE  op' \in OpRec /\ JobHolds'
<1>1. op \in OpRec
  BY DEF IInv, TypeOK
<1>2. CASE op.job \in Enables /\ result
  <2>1. op' = ToApply(op, owned')
    BY <1>2 DEF RestoreReturns
  <2>2. TypeOK
    BY DEF IInv
  <2>3. QED BY <1>1, <1>2, <2>1, <2>2, ApplyStarts
<1>3. CASE ~(op.job \in Enables /\ result)
  BY <1>1, <1>3, ReturnHolds DEF RestoreReturns, Returns
<1>4. QED BY <1>2, <1>3

LEMMA CheckHolds == ASSUME IInv, Check PROVE IInv'
<1>1. /\ op.pc = "check" /\ op \in OpRec
      /\ UNCHANGED <<os, primary, reported, users, blurred, changes>>
  BY DEF Check, IInv, TypeOK
<1>2. /\ \A s \in Services \ blurred : Settled(s)
      /\ op.job \in Enables =>
            /\ op.before # NoSnapshot
            /\ owned # NoSnapshot => owned.service # op.before.service
            /\ op.before.service \notin blurred => os[op.before.service] = op.before.values
  BY <1>1 DEF IInv, RestIsSettled, Resting, CaptureHolds
<1>3. /\ os' \in [Services -> Settings] /\ blurred' \subseteq Services /\ UsersAreOthers'
      /\ op.job \in Enables /\ op.before.service \notin blurred' =>
            os'[op.before.service] = op.before.values
  BY <1>1, <1>2 DEF IInv, TypeOK, UsersAreOthers, Snap
<1>4. CASE UNCHANGED <<owned, original>> /\ \E result \in BOOLEAN :
              RestoreReturns(result) /\ (result => owned' = NoSnapshot) /\ failures' \in 0..MaxFailures
  <2>1. \A s \in Services \ blurred' : Settled(s)'
    BY <1>1, <1>2, <1>4 DEF Settled, Refound, Owned, Known, Free, Snap
  <2>2. owned' \in Snapshots
    BY <1>4 DEF IInv, TypeOK
  <2>3. op' \in OpRec /\ JobHolds'
    BY <1>1, <1>2, <1>3, <1>4, <2>1, <2>2, OwnedIsReturned
  <2>4. QED BY <1>1, <1>3, <1>4, <2>3 DEF IInv, JobHolds, TypeOK, OwnedHasOriginal
<1>5. CASE /\ owned # NoSnapshot /\ Snap(owned.service) # owned
           /\ owned' = NoSnapshot /\ original' = NoSnapshot
           /\ RestoreReturns(TRUE) /\ failures' \in 0..MaxFailures
  <2>1. ASSUME NEW s \in Services \ blurred' PROVE Settled(s)'
    <3>1. owned # Snap(s)
      BY <1>5 DEF Snap
    <3>2. Free(s)'
      BY <1>1, <1>2, <3>1 DEF Settled, Free
    <3>3. owned' # Snap(s)'
      BY <1>3, <1>5 DEF Snap
    <3>4. QED BY <1>5, <3>2, <3>3 DEF Settled
  <2>2. owned' \in Snapshots
    BY <1>5 DEF Snapshots
  <2>3. op' \in OpRec /\ JobHolds'
    BY <1>1, <1>2, <1>3, <1>5, <2>1, <2>2, OwnedIsReturned
  <2>4. QED BY <1>1, <1>3, <1>5, <2>2, <2>3 DEF IInv, JobHolds, TypeOK, OwnedHasOriginal
<1>6. CASE /\ owned # NoSnapshot /\ Snap(owned.service) = owned
           /\ op' = [op EXCEPT !.pc = "restore", !.field = "end", !.ok = TRUE, !.own = TRUE]
           /\ UNCHANGED <<owned, original>> /\ failures' \in 0..MaxFailures
  <2>1. /\ op' \in OpRec /\ op'.pc = "restore" /\ op'.field = "end" /\ op'.own = TRUE
        /\ op'.job = op.job /\ op'.before = op.before
    BY <1>1, <1>6 DEF OpRec, Fields
  <2>2. RestIsSettled' /\ RestoreClears' /\ WritingIsUndoable'
    BY <2>1 DEF RestIsSettled, Resting, RestoreClears, WritingIsUndoable, Writing
  <2>3. CaptureHolds'
    BY <1>1, <1>2, <1>3, <1>6, <2>1 DEF CaptureHolds
  <2>4. ReturningIsKnown'
    <3>1. owned.service \in Services
      BY <1>6 DEF IInv, TypeOK, Snapshots
    <3>2. ASSUME NEW s \in Services \ (blurred' \cup {owned.service}) PROVE Free(s)'
      BY <1>1, <1>2, <1>6, <3>2 DEF Settled, Free, Snap
    <3>3. owned.service \notin blurred => Owned(owned.service)'
      BY <1>1, <1>2, <1>6, <3>1 DEF Settled, Owned, Known
    <3>4. QED BY <1>1, <1>6, <2>1, <3>2, <3>3 DEF ReturningIsKnown, Owned, Written
  <2>5. QED BY <1>1, <1>3, <1>6, <2>1, <2>2, <2>3, <2>4 DEF IInv, TypeOK, OwnedHasOriginal
<1>7. \/ /\ owned = NoSnapshot /\ UNCHANGED <<owned, original, failures>>
         /\ \E result \in BOOLEAN : RestoreReturns(result)
      \/ /\ owned # NoSnapshot /\ failures' \in 0..MaxFailures
         /\ \/ UNCHANGED <<owned, original>> /\ RestoreReturns(FALSE)
            \/ /\ Snap(owned.service) # owned
               /\ owned' = NoSnapshot /\ original' = NoSnapshot /\ RestoreReturns(TRUE)
            \/ /\ Snap(owned.service) = owned
               /\ op' = [op EXCEPT !.pc = "restore", !.field = "end", !.ok = TRUE, !.own = TRUE]
               /\ UNCHANGED <<owned, original>>
  <2>1. CASE owned = NoSnapshot
    <3>1. /\ UNCHANGED <<owned, original, failures>>
          /\ RestoreReturns(TRUE) \/ RestoreReturns(FALSE)
      BY <2>1 DEF Check
    <3>2. QED BY <2>1, <3>1
  <2>2. CASE owned # NoSnapshot
    <3>1. PICK ok \in BOOLEAN :
            /\ Fails(ok)
            /\ IF ~ok THEN UNCHANGED <<owned, original>> /\ RestoreReturns(FALSE)
               ELSE IF Snap(owned.service) # owned
                    THEN owned' = NoSnapshot /\ original' = NoSnapshot /\ RestoreReturns(TRUE)
               ELSE /\ op' = [op EXCEPT !.pc = "restore", !.field = "end", !.ok = TRUE, !.own = TRUE]
                    /\ UNCHANGED <<owned, original>>
      BY <2>2 DEF Check
    <3>2. failures' \in 0..MaxFailures
      BY <3>1 DEF Fails, IInv, TypeOK
    <3>3. QED BY <2>2, <3>1, <3>2
  <2>3. QED BY <2>1, <2>2
<1>8. failures \in 0..MaxFailures
  BY DEF IInv, TypeOK
<1>9. QED BY <1>4, <1>5, <1>6, <1>7, <1>8

\* A rollback starts at the first command of the same change.
LEMMA UndoFacts ==
  ASSUME op \in OpRec, Undo
  PROVE  /\ op' \in OpRec /\ op'.pc = "restore" /\ op'.field = "end" /\ op'.own = op.own
         /\ op'.job = op.job /\ op'.before = op.before /\ op'.still = op.still
BY DEF Undo, OpRec, Fields

LEMMA ApplyHolds == ASSUME IInv, Apply PROVE IInv'
<1> DEFINE t == op.before.service
<1>1. /\ op.pc = "apply" /\ op \in OpRec
      /\ UNCHANGED <<primary, owned, original, reported, users, blurred, changes>>
  BY DEF Apply, IInv, TypeOK
<1>2. /\ op.job \in Enables /\ op.before # NoSnapshot /\ op.own = FALSE
      /\ t \in Services
  BY <1>1 DEF IInv, WritingIsUndoable, Writing, OpRec, Snapshots
<1>3. PICK ok \in BOOLEAN :
        /\ Writes(t, IF op.field = "end" THEN Assigned(os[t], op.job.config)
                                          ELSE [os[t] EXCEPT !.auto = FALSE], ok)
        /\ IF ~ok THEN Undo
           ELSE op' = IF op.field = "end" THEN [op EXCEPT !.field = "auto"]
                                          ELSE [op EXCEPT !.pc = "readback"]
  BY DEF Apply
<1>4. op.job.config \in Configs /\ op.field \in Fields /\ os[t] \in Settings
  BY <1>1, <1>2 DEF Enables, OpRec, IInv, TypeOK
<1> DEFINE now == IF op.field = "end" THEN Assigned(os[t], op.job.config)
                                       ELSE [os[t] EXCEPT !.auto = FALSE]
<1>4a. /\ now \in Settings
       /\ op.field = "end" => Ours(now)
       /\ op.field # "end" => now.end = os[t].end /\ now.on = os[t].on
  BY <1>4 DEF Assigned, Settings, Ends, Ours
<1>4b. Writes(t, now, ok)
  BY <1>3
<1> HIDE DEF now
<1>5. /\ os' \in [Services -> Settings] /\ failures' \in 0..MaxFailures
      /\ \A r \in Services \ {t} : os'[r] = os[r]
      /\ os'[t] = now \/ (os'[t] = os[t] /\ ~ok)
  BY <1>2, <1>4a, <1>4b, WriteType DEF IInv
<1>6. /\ op' \in OpRec
      /\ op'.job = op.job /\ op'.before = op.before /\ op'.own = FALSE /\ op'.still = op.still
      /\ \/ ~ok /\ op'.pc = "restore" /\ op'.field = "end"
         \/ ok /\ op.field = "end" /\ op'.pc = "apply" /\ op'.field = "auto"
         \/ ok /\ op.field # "end" /\ op'.pc = "readback"
  <2>1. CASE ~ok
    BY <1>1, <1>2, <1>3, <2>1, UndoFacts
  <2>2. CASE ok /\ op.field = "end"
    BY <1>1, <1>2, <1>3, <2>2 DEF OpRec, Fields
  <2>3. CASE ok /\ op.field # "end"
    BY <1>1, <1>2, <1>3, <2>3 DEF OpRec
  <2>4. QED BY <2>1, <2>2, <2>3
<1>7. op.field \in {"end", "auto"}
  BY <1>1, <1>4 DEF IInv, WritingIsUndoable, Writing, Fields
<1>8. RestIsSettled' /\ CaptureHolds' /\ ReturningIsKnown' /\ RestoreClears'
  BY <1>6 DEF RestIsSettled, Resting, CaptureHolds, ReturningIsKnown, Returning, RestoreClears
<1>9. WritingIsUndoable'
  <2>1. WritingIsUndoable /\ Writing
    BY <1>1 DEF IInv, Writing
  <2>2. \A s \in Services \ (blurred' \cup {t}) : Free(s)'
    BY <1>1, <1>5, <2>1 DEF WritingIsUndoable, Free
  <2>3. t \notin blurred /\ op.field = "auto" => Ours(os[t])
    BY <1>1, <2>1 DEF WritingIsUndoable
  <2>4. t \notin blurred => os'[t] = os[t] \/ Ours(os'[t])
    BY <1>4a, <1>5, <1>7, <2>3 DEF Ours
  <2>5. t \notin blurred /\ op'.pc # "restore" => Ours(os'[t])
    BY <1>4a, <1>5, <1>6, <1>7, <2>3 DEF Ours
  <2>6. Ours(os'[t]) => os'[t].end # Empty /\ os'[t].end # Auth
    BY DEF Ours
  <2>7. QED
    BY <1>1, <1>2, <1>6, <2>1, <2>2, <2>4, <2>5, <2>6
       DEF WritingIsUndoable, Writing, Known, Written, Refound
<1>10. TypeOK' /\ UsersAreOthers' /\ OwnedHasOriginal'
  BY <1>1, <1>5, <1>6 DEF IInv, TypeOK, UsersAreOthers, OwnedHasOriginal
<1>11. QED BY <1>8, <1>9, <1>10 DEF IInv

\* Two settings that are the same as a third are the same.
LEMMA SameIsTransitive ==
  ASSUME NEW a \in Settings, NEW b \in Settings, NEW c \in Settings, Same(a, b), Same(b, c)
  PROVE  Same(a, c)
BY DEF Same, InForce

\* What holds of the running job while enable() writes.
LEMMA WritingFacts ==
  ASSUME IInv, Writing
  PROVE  /\ op \in OpRec /\ op.job \in Enables /\ op.own = FALSE /\ op.before # NoSnapshot
         /\ op.before.service \in Services /\ op.before.values \in Settings
         /\ op.before = [service |-> op.before.service, values |-> op.before.values]
         /\ op.pc \in {"apply", "readback", "restore", "reown"}
<1>1. op \in OpRec /\ op.job \in Enables /\ op.own = FALSE /\ op.before # NoSnapshot
  BY DEF IInv, TypeOK, WritingIsUndoable, OpRec
<1>2. op.before \in [service : Services, values : Settings]
  BY <1>1 DEF OpRec, Snapshots
<1>3. QED BY <1>1, <1>2 DEF Writing

LEMMA ReadBackHolds == ASSUME IInv, ReadBack PROVE IInv'
<1> DEFINE t == op.before.service
<1>1. /\ op.pc = "readback" /\ Writing
      /\ UNCHANGED <<os, primary, reported, users, blurred, changes>>
  BY DEF ReadBack, Writing
<1>2. /\ op \in OpRec /\ op.job \in Enables /\ op.own = FALSE /\ op.before # NoSnapshot
      /\ t \in Services /\ op.before.values \in Settings
      /\ op.before = [service |-> t, values |-> op.before.values]
  BY <1>1, WritingFacts
<1>3. PICK ok \in BOOLEAN :
        /\ Fails(ok)
        /\ IF ~ok THEN Undo /\ UNCHANGED <<owned, original>>
           ELSE /\ owned' = Snap(t)
                /\ original' = IF op.still THEN original ELSE op.before
                /\ Returns(TRUE)
  BY DEF ReadBack
<1>4. failures' \in 0..MaxFailures
  BY <1>3 DEF Fails, IInv, TypeOK
<1>5. CASE ~ok
  <2>1. /\ op' \in OpRec /\ op'.pc = "restore" /\ op'.field = "end" /\ op'.own = FALSE
        /\ op'.job = op.job /\ op'.before = op.before /\ op'.still = op.still
    BY <1>2, <1>3, <1>5, UndoFacts
  <2>2. RestIsSettled' /\ CaptureHolds' /\ ReturningIsKnown' /\ RestoreClears'
    BY <2>1 DEF RestIsSettled, Resting, CaptureHolds, ReturningIsKnown, Returning, RestoreClears
  <2>3. WritingIsUndoable'
    BY <1>1, <1>2, <1>3, <1>5, <2>1 DEF IInv, WritingIsUndoable, Known, Free, Written, Refound
  <2>4. TypeOK' /\ UsersAreOthers' /\ OwnedHasOriginal'
    BY <1>1, <1>3, <1>4, <1>5, <2>1 DEF IInv, TypeOK, UsersAreOthers, OwnedHasOriginal
  <2>5. QED BY <2>2, <2>3, <2>4 DEF IInv
<1>6. CASE ok
  <2>1. /\ owned' = Snap(t) /\ owned' \in Snapshots /\ owned' # NoSnapshot
        /\ owned'.service = t
    BY <1>2, <1>3, <1>6, SnapType, SnapIsValid DEF IInv, Snap
  <2>2. original' \in Snapshots /\ OwnedHasOriginal'
    BY <1>1, <1>2, <1>3, <1>6, <2>1
       DEF IInv, TypeOK, OwnedHasOriginal, WritingIsUndoable, OpRec
  <2>3. ASSUME NEW s \in Services \ blurred' PROVE Settled(s)'
    <3>1. CASE s # t
      <4>1. owned' # Snap(s)'
        BY <2>1, <3>1 DEF Snap
      <4>2. Free(s)'
        BY <1>1, <3>1 DEF IInv, WritingIsUndoable, Free
      <4>3. QED BY <2>1, <3>1, <4>1, <4>2 DEF Settled
    <3>2. CASE s = t
      <4>1. owned' = Snap(s)'
        BY <1>1, <2>1, <3>2 DEF Snap
      <4>2. os'[s].end # Empty
        BY <1>1, <3>2 DEF IInv, WritingIsUndoable, Ours
      <4>3. Known(s)'
        BY <1>1, <1>2, <1>3, <1>6, <2>2, <3>2 DEF IInv, WritingIsUndoable, Known
      <4>4. os'[s].end # Auth
        BY <1>1, <3>2 DEF IInv, WritingIsUndoable
      <4>5. QED BY <4>1, <4>2, <4>3, <4>4 DEF Settled, Owned
    <3>3. QED BY <3>1, <3>2
  <2>4. op' \in OpRec /\ JobHolds'
    BY <1>2, <1>3, <1>6, <2>3, RestoreIsNoEnable, ReturnHolds DEF Returns
  <2>5. TypeOK' /\ UsersAreOthers'
    BY <1>1, <1>4, <2>1, <2>2, <2>4 DEF IInv, TypeOK, UsersAreOthers
  <2>6. QED BY <2>2, <2>4, <2>5 DEF IInv, JobHolds
<1>7. QED BY <1>5, <1>6

LEMMA SwitchOffHolds == ASSUME IInv, SwitchOff PROVE IInv'
<1>1. /\ op.pc = "off" /\ op \in OpRec /\ owned = NoSnapshot
      /\ UNCHANGED <<primary, owned, original, reported, blurred, changes>>
      /\ \A s \in Services \ blurred : Settled(s)
  BY DEF SwitchOff, IInv, TypeOK, RestoreClears, RestIsSettled, Resting
<1>2. ASSUME NEW s \in Services PROVE owned # Snap(s)
  BY <1>1, SnapIsValid DEF IInv
<1>3. PICK ok \in BOOLEAN :
        IF primary = NoService THEN UNCHANGED <<os, users, failures>> /\ Returns(FALSE)
        ELSE /\ Writes(primary, [os[primary] EXCEPT !.on = FALSE], ok)
             /\ AsUser(primary)
             /\ Returns(ok)
  BY DEF SwitchOff
<1>4. /\ os' \in [Services -> Settings] /\ users' \in [Services -> Settings]
      /\ failures' \in 0..MaxFailures /\ UsersAreOthers'
      /\ \A s \in Services : Free(s) => Free(s)'
  <2>1. CASE UNCHANGED <<os, users>>
    <3>1. failures' \in 0..MaxFailures
      <4>1. failures' = failures \/ Fails(ok)
        BY <1>3 DEF Writes
      <4>2. QED BY <4>1 DEF IInv, TypeOK, Fails
    <3>2. QED BY <2>1, <3>1 DEF IInv, TypeOK, UsersAreOthers, Free
  <2>2. CASE ~UNCHANGED <<os, users>>
    <3>1. primary \in Services /\ os[primary] \in Settings /\ users[primary] \in Settings
      BY <1>3, <2>2 DEF IInv, TypeOK
    <3>2. [os[primary] EXCEPT !.on = FALSE] \in Settings
      BY <3>1 DEF Settings
    <3>3. os' \in [Services -> Settings] /\ failures' \in 0..MaxFailures
      BY <1>3, <2>2, <3>1, <3>2, WriteType DEF IInv
    <3>4. /\ os' = [os EXCEPT ![primary] = [os[primary] EXCEPT !.on = FALSE]]
          /\ users' = [users EXCEPT ![primary].on = FALSE]
      BY <1>3, <2>2 DEF Writes, AsUser
    <3>5. /\ \A s \in Services \ {primary} : os'[s] = os[s] /\ users'[s] = users[s]
          /\ os'[primary] = [os[primary] EXCEPT !.on = FALSE]
          /\ users'[primary] = [users[primary] EXCEPT !.on = FALSE]
          /\ users' \in [Services -> Settings]
      BY <3>1, <3>2, <3>3, <3>4 DEF IInv, TypeOK, Settings
    <3>6. UsersAreOthers'
      BY <3>1, <3>5 DEF IInv, UsersAreOthers, Settings
    <3>7. \A s \in Services : Free(s) => Free(s)'
      BY <3>1, <3>5 DEF Free, Same, InForce, Ours, Settings
    <3>8. QED BY <3>3, <3>5, <3>6, <3>7
  <2>3. QED BY <2>1, <2>2
<1>5. ASSUME NEW s \in Services \ blurred' PROVE Settled(s)'
  <2>1. owned' # Snap(s)'
    BY <1>1, <1>4 DEF Snap
  <2>2. QED BY <1>1, <1>2, <1>4, <2>1 DEF Settled
<1>6. op' \in OpRec /\ JobHolds'
  BY <1>1, <1>3, <1>5, ReturnHolds DEF Returns
<1>7. QED BY <1>1, <1>4, <1>6 DEF IInv, JobHolds, TypeOK, OwnedHasOriginal

LEMMA FinishHolds == ASSUME IInv, Finish PROVE IInv'
<1>1. /\ op.pc = "state" /\ op \in OpRec /\ op' = Idle
      /\ UNCHANGED <<os, primary, owned, original, users, blurred, changes>>
  BY DEF Finish, IInv, TypeOK
<1>2. PICK ok \in BOOLEAN :
        /\ Fails(ok \/ primary = NoService)
        /\ Reports(/\ op.result
                   /\ ok \/ op.job = Restore
                   /\ op.job \in Enables => OwnsProxy /\ os[primary].on /\ os[primary].end = op.job.config)
  BY DEF Finish
<1>3. failures' \in 0..MaxFailures
  BY <1>2 DEF Fails, IInv, TypeOK
<1>4. /\ op' \in OpRec /\ op'.pc = "idle"
  BY <1>1 DEF Idle, OpRec, Jobs, Snapshots, Fields
<1>5. /\ reported' \in [action : {"Enable", "Disable", "Restore", "Refresh"}, success : BOOLEAN]
      /\ reported'.success = TRUE => op.result
      /\ reported'.action = op.job.action
  <2>1. op.job.action \in {"Enable", "Disable", "Restore", "Refresh"}
    BY <1>1 DEF OpRec, Jobs, Enables, Disable, Restore, Refresh
  <2>2. \/ op.result /\ reported' = [action |-> op.job.action, success |-> TRUE]
        \/ reported' = [action |-> op.job.action, success |-> FALSE]
    BY <1>2 DEF Reports
  <2>3. CASE op.result /\ reported' = [action |-> op.job.action, success |-> TRUE]
    BY <2>1, <2>3
  <2>4. CASE reported' = [action |-> op.job.action, success |-> FALSE]
    BY <2>1, <2>4
  <2>5. QED BY <2>2, <2>3, <2>4
<1>6. RestIsSettled'
  BY <1>1 DEF IInv, RestIsSettled, Resting, Settled, Refound, Owned, Known, Free, Snap
<1>7. CaptureHolds' /\ WritingIsUndoable' /\ ReturningIsKnown'
  <2>1. op'.own = FALSE
    BY <1>1 DEF Idle
  <2>2. QED BY <1>4, <2>1 DEF CaptureHolds, WritingIsUndoable, ReturningIsKnown, Writing, Returning
<1>8. RestoreClears'
  <2>1. ASSUME reported' = [action |-> "Restore", success |-> TRUE] PROVE owned' = NoSnapshot
    <3>1. op.job.action = "Restore" /\ op.result
      BY <1>5, <2>1
    <3>2. op.job = Restore
      BY <1>1, <3>1 DEF OpRec, Jobs, Enables, Disable, Restore, Refresh
    <3>3. QED BY <1>1, <3>1, <3>2 DEF IInv, RestoreClears
  <2>2. QED BY <1>4, <2>1 DEF RestoreClears
<1>9. TypeOK' /\ UsersAreOthers' /\ OwnedHasOriginal'
  BY <1>1, <1>3, <1>4, <1>5 DEF IInv, TypeOK, UsersAreOthers, OwnedHasOriginal
<1>10. QED BY <1>6, <1>7, <1>8, <1>9 DEF IInv

LEMMA ReownHolds == ASSUME IInv, Reown PROVE IInv'
<1> DEFINE x == Source.service
<1>1. /\ op.pc = "reown" /\ op \in OpRec
      /\ UNCHANGED <<os, primary, reported, users, changes>>
      /\ original' = IF op.own \/ op.still THEN original ELSE op.before
      /\ Returns(FALSE)
  BY DEF Reown, IInv, TypeOK
<1>2. PICK ok \in BOOLEAN :
        /\ Fails(ok)
        /\ owned' = IF ok THEN Snap(x) ELSE NoSnapshot
        /\ blurred' = IF ok THEN blurred ELSE blurred \cup {x}
  BY DEF Reown
<1>3. /\ x \in Services /\ Source # NoSnapshot
      /\ \A s \in Services \ (blurred \cup {x}) : Free(s)
      /\ original' \in Snapshots /\ original' # NoSnapshot /\ original'.service = x
      /\ original'.values.end # Auth
      /\ x \notin blurred => /\ Same(original'.values, users[x]) /\ os[x].end # Auth
                             /\ os[x].end = Empty => Same(os[x], users[x])
  <2>1. CASE op.own
    <3>1. Returning /\ Source = original /\ original' = original
      BY <1>1, <2>1 DEF Returning, Source
    <3>2. /\ original # NoSnapshot /\ original.service = owned.service /\ original \in Snapshots
          /\ original.values.end # Auth
      BY <3>1 DEF IInv, ReturningIsKnown, OwnedHasOriginal, TypeOK
    <3>3. QED BY <3>1, <3>2 DEF IInv, ReturningIsKnown, Owned, Known, Snapshots
  <2>2. CASE ~op.own
    <3>1. Writing /\ Source = op.before
      BY <1>1, <2>2 DEF Writing, Source
    <3>2. /\ op.before # NoSnapshot /\ op.before \in Snapshots
          /\ x \in Services /\ x = op.before.service
          /\ op.before = [service |-> x, values |-> op.before.values]
      BY <3>1, WritingFacts DEF Snapshots
    <3>3. WritingIsUndoable
      BY DEF IInv
    <3>4. CASE op.still
      <4>1. original' = original /\ owned = op.before
        BY <1>1, <3>1, <3>3, <3>4 DEF WritingIsUndoable
      <4>2. /\ original # NoSnapshot /\ original.service = x /\ original \in Snapshots
            /\ original.values.end # Auth
        BY <3>2, <4>1 DEF IInv, OwnedHasOriginal, TypeOK
      <4>3. QED BY <3>1, <3>2, <3>3, <3>4, <4>1, <4>2 DEF WritingIsUndoable, Known, Same, InForce
    <3>5. CASE ~op.still
      <4>1. original' = op.before
        BY <1>1, <2>2, <3>5
      <4>2. QED BY <3>1, <3>2, <3>3, <3>5, <4>1 DEF WritingIsUndoable, Same, InForce
    <3>6. QED BY <3>4, <3>5
  <2>3. QED BY <2>1, <2>2
<1> HIDE DEF x
<1>4. failures' \in 0..MaxFailures
  BY <1>2 DEF Fails, IInv, TypeOK
<1>5. /\ Snap(x) \in Snapshots /\ Snap(x) # NoSnapshot /\ Snap(x).service = x
  BY <1>3, SnapType, SnapIsValid DEF IInv, Snap
<1>6. owned' \in Snapshots /\ blurred' \subseteq Services /\ OwnedHasOriginal'
  BY <1>2, <1>3, <1>5 DEF IInv, TypeOK, Snapshots, OwnedHasOriginal
<1>7. ASSUME NEW s \in Services \ blurred' PROVE Settled(s)'
  <2>1. CASE s # x
    <3>1. Free(s)'
      BY <1>1, <1>2, <1>3, <2>1 DEF Free
    <3>2. owned' # NoSnapshot => owned'.service # s
      BY <1>2, <1>5, <2>1
    <3>3. owned' # Snap(s)'
      <4>1. Snap(s) # NoSnapshot /\ Snap(s)' = Snap(s)
        BY <1>1, SnapIsValid DEF IInv, Snap
      <4>2. QED BY <1>2, <2>1, <4>1 DEF Snap
    <3>4. QED BY <3>1, <3>2, <3>3 DEF Settled
  <2>2. CASE s = x
    <3>1. ok /\ x \notin blurred
      BY <1>2, <2>2
    <3>2. owned' = Snap(s)'
      BY <1>1, <1>2, <2>2, <3>1 DEF Snap
    <3>3. Owned(s)'
      BY <1>1, <1>3, <2>2, <3>1 DEF Owned, Known
    <3>4. QED BY <3>2, <3>3 DEF Settled
  <2>3. QED BY <2>1, <2>2
<1>8. op' \in OpRec /\ JobHolds'
  BY <1>1, <1>7, ReturnHolds DEF Returns
<1>9. TypeOK' /\ UsersAreOthers'
  BY <1>1, <1>3, <1>4, <1>6, <1>8 DEF IInv, TypeOK, UsersAreOthers
<1>10. QED BY <1>6, <1>8, <1>9 DEF IInv, JobHolds

\* What restore() has written of one field; the others are as they were.
LEMMA FieldIsWritten ==
  ASSUME IInv, NEW s \in Services, NEW was \in Settings, NEW ok \in BOOLEAN, op.field \in Fields,
         IF op.field = "end" /\ was.end = Empty THEN ok = ~was.on /\ UNCHANGED <<os, failures>>
         ELSE Writes(s, Given(os[s], was, op.field), ok)
  PROVE  /\ os' \in [Services -> Settings] /\ failures' \in 0..MaxFailures
         /\ \A r \in Services \ {s} : os'[r] = os[r]
         /\ op.field = "end" =>
               /\ os'[s] = os[s] \/ (was.end # Empty /\ os'[s] = Assigned(os[s], was.end))
               /\ ok => IF was.end = Empty THEN ~was.on ELSE os'[s].end = was.end
         /\ op.field = "on" =>
               /\ os'[s] = os[s] \/ os'[s] = [os[s] EXCEPT !.on = InForce(was)]
               /\ ok => os'[s].on = InForce(was)
         /\ op.field = "auto" =>
               /\ os'[s] = os[s] \/ os'[s] = [os[s] EXCEPT !.auto = was.auto]
               /\ ok => os'[s].auto = was.auto
<1>1. os \in [Services -> Settings] /\ os[s] \in Settings /\ failures \in 0..MaxFailures
  BY DEF IInv, TypeOK
<1>2. CASE op.field = "end" /\ was.end = Empty
  BY <1>1, <1>2 DEF Fields
<1>3. CASE ~(op.field = "end" /\ was.end = Empty)
  <2>1. Given(os[s], was, op.field) \in Settings
    BY <1>1 DEF Given, Assigned, InForce, Settings
  <2>2. Writes(s, Given(os[s], was, op.field), ok)
    BY <1>3
  <2>3. /\ os' \in [Services -> Settings] /\ failures' \in 0..MaxFailures
        /\ \A r \in Services \ {s} : os'[r] = os[r]
        /\ os'[s] = Given(os[s], was, op.field) \/ (os'[s] = os[s] /\ ~ok)
    BY <2>1, <2>2, WriteType DEF IInv
  <2>4. QED BY <1>1, <1>3, <2>3 DEF Given, Assigned, Settings, Fields
<1>4. QED BY <1>2, <1>3

\* Settings that were restored without an error are those that were.
LEMMA RestoredIsSame ==
  ASSUME NEW y \in Settings, NEW was \in Settings, NEW u \in Settings, Same(was, u),
         IF was.end = Empty THEN ~was.on ELSE y.end = was.end,
         y.on = was.on, y.auto = was.auto
  PROVE  /\ Same(y, u) /\ (y # was => was.end = Empty /\ y.end # Empty)
         /\ Ours(y) => Ours(was)
<1>1. Same(y, u)
  BY DEF Same, InForce, Settings
<1>2. y # was => was.end = Empty /\ y.end # Empty
  BY DEF Settings
<1>3. Ours(y) => Ours(was)
  BY DEF Ours, Settings
<1>4. QED BY <1>1, <1>2, <1>3

\* The last step of a restore that has not failed gives back what the user set.
LEMMA RestIsGiven ==
  ASSUME NEW y \in Settings, NEW now \in Settings, NEW was \in Settings, NEW u \in Settings,
         Same(was, u), u.end \notin Configs,
         IF was.end = Empty THEN ~was.on ELSE now.end = was.end, now.on = was.on,
         y = now \/ y = [now EXCEPT !.auto = was.auto], y.auto = was.auto
  PROVE  Same(y, u) /\ ~Ours(y)
<1>1. y.end = now.end /\ y.on = now.on
  BY DEF Settings
<1>2. Same(y, u)
  BY <1>1, RestoredIsSame
<1>3. QED BY <1>2 DEF Same, Ours, InForce, Settings

\* enable() undoes what it wrote.
LEMMA UndoHolds == ASSUME IInv, RestoreField, ~op.own PROVE IInv'
<1>1. /\ op.pc = "restore" /\ Writing /\ Source = op.before
      /\ UNCHANGED <<primary, reported, users, blurred, changes>>
  BY DEF RestoreField, Writing, Source
<1>0. PICK t \in Services, was \in Settings : op.before = [service |-> t, values |-> was]
  BY <1>1, WritingFacts
<1>2. /\ op \in OpRec /\ op.job \in Enables /\ op.own = FALSE /\ op.before # NoSnapshot
      /\ t \in Services /\ was \in Settings
      /\ op.before.service = t /\ op.before.values = was
      /\ op.field \in Fields
  BY <1>0, <1>1, WritingFacts DEF OpRec
<1>3. PICK ok \in BOOLEAN :
        /\ IF op.field = "end" /\ was.end = Empty THEN ok = ~was.on /\ UNCHANGED <<os, failures>>
           ELSE Writes(t, Given(os[t], was, op.field), ok)
        /\ UNCHANGED <<owned, original>>
        /\ IF op.field # "auto"
           THEN op' = [op EXCEPT !.field = FieldAfter[op.field], !.ok = op.ok /\ ok]
           ELSE IF ~(op.ok /\ ok) THEN op' = [op EXCEPT !.pc = "reown"]
           ELSE Returns(FALSE)
  BY <1>1, <1>2 DEF RestoreField
<1>4. /\ os' \in [Services -> Settings] /\ failures' \in 0..MaxFailures
      /\ \A r \in Services \ {t} : os'[r] = os[r]
      /\ op.field = "end" =>
            /\ os'[t] = os[t] \/ (was.end # Empty /\ os'[t] = Assigned(os[t], was.end))
            /\ ok => IF was.end = Empty THEN ~was.on ELSE os'[t].end = was.end
      /\ op.field = "on" =>
            /\ os'[t] = os[t] \/ os'[t] = [os[t] EXCEPT !.on = InForce(was)]
            /\ ok => os'[t].on = InForce(was)
      /\ op.field = "auto" =>
            /\ os'[t] = os[t] \/ os'[t] = [os[t] EXCEPT !.auto = was.auto]
            /\ ok => os'[t].auto = was.auto
  BY <1>2, <1>3, FieldIsWritten
<1>5. os[t] \in Settings /\ os'[t] \in Settings /\ users[t] \in Settings
  BY <1>2, <1>4 DEF IInv, TypeOK
<1>6. WritingIsUndoable
  BY DEF IInv
<1>7. t \notin blurred /\ os'[t].end = Empty => was.end = Empty /\ os'[t].auto = was.auto
  <2>1. t \notin blurred /\ os[t].end = Empty => was.end = Empty /\ os[t].auto = was.auto
    BY <1>1, <1>2, <1>6 DEF WritingIsUndoable
  <2>2. QED BY <1>2, <1>4, <1>5, <2>1 DEF Fields, Assigned, Settings
<1>7a. was.end # Auth /\ (t \notin blurred => os'[t].end # Auth)
  <2>1. was.end # Auth /\ (t \notin blurred => os[t].end # Auth)
    BY <1>1, <1>2, <1>6 DEF WritingIsUndoable
  <2>2. QED BY <1>2, <1>4, <1>5, <2>1 DEF Fields, Assigned, Settings
<1>7b. t \notin blurred /\ op.ok =>
          /\ op.field # "end" => IF was.end = Empty THEN ~was.on ELSE os[t].end = was.end
          /\ op.field = "auto" => os[t].on = was.on
  BY <1>1, <1>2, <1>6 DEF WritingIsUndoable, Written
<1>8. \A s \in Services \ (blurred \cup {t}) : Free(s)'
  BY <1>1, <1>2, <1>4, <1>6 DEF WritingIsUndoable, Free
<1>9. ASSUME op.field # "auto" \/ ~(op.ok /\ ok) PROVE op' \in OpRec /\ JobHolds'
  <2>1. /\ op' \in OpRec /\ op'.job = op.job /\ op'.before = op.before /\ op'.own = FALSE
        /\ op'.still = op.still
        /\ \/ op.field = "end" /\ op'.pc = "restore" /\ op'.field = "on" /\ (op'.ok => ok)
           \/ op.field = "on" /\ op'.pc = "restore" /\ op'.field = "auto" /\ (op'.ok => op.ok /\ ok)
           \/ op'.pc = "reown"
    <3>1. CASE op.field # "auto"
      <4>1. op' = [op EXCEPT !.field = FieldAfter[op.field], !.ok = op.ok /\ ok]
        BY <1>3, <3>1
      <4>2. FieldAfter[op.field] \in Fields /\ (op.field = "end" => FieldAfter[op.field] = "on")
            /\ (op.field = "on" => FieldAfter[op.field] = "auto")
        BY <1>2, <3>1 DEF FieldAfter, Fields
      <4>3. QED BY <1>1, <1>2, <3>1, <4>1, <4>2 DEF OpRec, Fields
    <3>2. CASE op.field = "auto"
      BY <1>1, <1>2, <1>3, <1>9, <3>2 DEF OpRec
    <3>3. QED BY <3>1, <3>2
  <2>2. RestIsSettled' /\ CaptureHolds' /\ ReturningIsKnown' /\ RestoreClears'
    BY <2>1 DEF RestIsSettled, Resting, CaptureHolds, ReturningIsKnown, Returning, RestoreClears
  <2>3. t \notin blurred /\ op'.pc = "restore" /\ op'.ok =>
          /\ op'.field # "end" => IF was.end = Empty THEN ~was.on ELSE os'[t].end = was.end
          /\ op'.field = "auto" => os'[t].on = was.on
    BY <1>2, <1>4, <1>5, <1>7b, <2>1 DEF InForce, Settings, Fields
  <2>4. WritingIsUndoable'
    BY <1>1, <1>2, <1>3, <1>6, <1>7, <1>8, <1>7a, <2>1, <2>3
       DEF WritingIsUndoable, Known, Written, Refound
  <2>5. QED BY <2>1, <2>2, <2>4 DEF JobHolds
<1>10. ASSUME op.field = "auto", op.ok, ok PROVE op' \in OpRec /\ JobHolds'
  <2>1. Returns(FALSE)
    BY <1>3, <1>10
  <2>2. t \notin blurred =>
          /\ IF was.end = Empty THEN ~was.on ELSE os'[t].end = was.end
          /\ os'[t].on = was.on /\ os'[t].auto = was.auto
    BY <1>4, <1>5, <1>7b, <1>10 DEF Settings
  <2>3. t \notin blurred => Settled(t)'
    <3> SUFFICES ASSUME t \notin blurred PROVE Settled(t)'
      OBVIOUS
    <3>1. Snap(t)' = [service |-> t, values |-> os'[t]]
      BY <1>2, <1>3 DEF Snap
    <3>2. CASE op.still
      <4>1. owned = op.before /\ Known(t)' /\ (was.end = Empty => Same(was, users[t]))
        BY <1>1, <1>2, <1>3, <1>6, <3>2 DEF WritingIsUndoable, Known
      <4>2. owned' = Snap(t)' => Owned(t)'
        <5>1. owned' = Snap(t)' => os'[t] = was
          BY <1>0, <1>3, <3>1, <4>1
        <5>2. QED BY <1>1, <1>7a, <4>1, <5>1 DEF Owned
      <4>3. owned' # Snap(t)' => was.end = Empty /\ os'[t].end # Empty
        <5>1. owned' # Snap(t)' => os'[t] # was
          BY <1>0, <1>2, <1>3, <3>1, <4>1
        <5>2. QED BY <1>2, <1>5, <2>2, <5>1 DEF Settings
      <4>4. owned' # Snap(t)' => Free(t)' /\ Refound(os[t].end)'
        <5>1. owned.values.end = was.end
          BY <1>2, <4>1
        <5>2. owned' # Snap(t)' => Same(os'[t], users'[t])
          BY <1>1, <1>2, <1>5, <2>2, <4>1, <4>3, RestoredIsSame
        <5>3. owned' # Snap(t)' => ~Ours(os'[t])
          BY <2>2, <4>3 DEF Ours
        <5>4. QED BY <1>3, <4>3, <5>1, <5>2, <5>3 DEF Free, Refound
      <4>5. QED BY <1>3, <4>2, <4>4 DEF Settled
    <3>3. CASE ~op.still
      <4>1. ~Ours(was) /\ Same(was, users[t]) /\ owned # op.before /\ Refound(was.end)
        BY <1>1, <1>2, <1>6, <3>3 DEF WritingIsUndoable
      <4>2. /\ Same(os'[t], users[t]) /\ ~Ours(os'[t])
            /\ os'[t] # was => was.end = Empty /\ os'[t].end # Empty
        BY <1>2, <1>5, <2>2, <4>1, RestoredIsSame
      <4>3. Free(t)'
        BY <1>1, <4>2 DEF Free
      <4>4. owned' # Snap(t)'
        <5>1. ASSUME owned' = Snap(t)' PROVE FALSE
          <6>1. owned = [service |-> t, values |-> os'[t]] /\ owned # NoSnapshot
            BY <1>3, <1>5, <3>1, <5>1, <1>2
          <6>2. os'[t].end = Empty /\ was.end # Empty
            BY <4>1, <4>2, <6>1 DEF Refound
          <6>3. QED BY <2>2, <6>2
        <5>2. QED BY <5>1
      <4>5. Refound(os[t].end)'
        BY <1>3, <2>2, <4>1 DEF Refound
      <4>6. QED BY <4>3, <4>4, <4>5 DEF Settled
    <3>4. QED BY <3>2, <3>3
  <2>4. ASSUME NEW s \in Services \ blurred' PROVE Settled(s)'
    <3>1. CASE s # t
      <4>1. owned' # NoSnapshot => owned'.service # s
        BY <1>1, <1>2, <1>3, <1>6, <3>1 DEF WritingIsUndoable
      <4>2. owned' # Snap(s)'
        <5>1. os'[s] \in Settings
          BY <1>4
        <5>2. QED BY <4>1, <5>1 DEF Snap
      <4>3. QED BY <1>1, <1>8, <3>1, <4>1, <4>2 DEF Settled
    <3>2. QED BY <1>1, <2>3, <3>1
  <2>5. QED BY <1>2, <2>1, <2>4, RestoreIsNoEnable, ReturnHolds DEF Returns
<1>11. op' \in OpRec /\ JobHolds'
  BY <1>9, <1>10
<1>12. QED BY <1>1, <1>3, <1>4, <1>11
          DEF IInv, JobHolds, TypeOK, UsersAreOthers, OwnedHasOriginal

\* restoreOwned() gives back what it owns.
LEMMA ReturningHolds == ASSUME IInv, RestoreField, op.own PROVE IInv'
<1>1. /\ op.pc = "restore" /\ Returning /\ Source = original /\ op \in OpRec
      /\ UNCHANGED <<primary, reported, users, blurred, changes>>
  BY DEF RestoreField, Returning, Source, IInv, TypeOK
<1>2. /\ ReturningIsKnown /\ owned # NoSnapshot /\ original # NoSnapshot
      /\ original.service = owned.service /\ op.field \in Fields
  BY <1>1 DEF IInv, ReturningIsKnown, OwnedHasOriginal, OpRec
<1>3. PICK x \in Services, was \in Settings : original = [service |-> x, values |-> was]
  BY <1>2 DEF IInv, TypeOK, Snapshots
<1>4. /\ owned.service = x /\ original.service = x /\ original.values = was
      /\ \A s \in Services \ (blurred \cup {x}) : Free(s)
      /\ was.end # Auth
      /\ x \notin blurred => /\ Same(was, users[x]) /\ os[x].end # Auth
                             /\ os[x].end = Empty => Same(os[x], users[x])
      /\ x \notin blurred /\ op.ok =>
            /\ op.field # "end" => IF was.end = Empty THEN ~was.on ELSE os[x].end = was.end
            /\ op.field = "auto" => os[x].on = was.on
  BY <1>1, <1>2, <1>3 DEF ReturningIsKnown, Owned, Known, Written, IInv, OwnedHasOriginal
<1>5. PICK ok \in BOOLEAN :
        /\ IF op.field = "end" /\ was.end = Empty THEN ok = ~was.on /\ UNCHANGED <<os, failures>>
           ELSE Writes(x, Given(os[x], was, op.field), ok)
        /\ IF op.field # "auto"
           THEN /\ op' = [op EXCEPT !.field = FieldAfter[op.field], !.ok = op.ok /\ ok]
                /\ UNCHANGED <<owned, original>>
           ELSE IF ~(op.ok /\ ok)
           THEN op' = [op EXCEPT !.pc = "reown"] /\ UNCHANGED <<owned, original>>
           ELSE owned' = NoSnapshot /\ original' = NoSnapshot /\ RestoreReturns(TRUE)
  BY <1>1, <1>4 DEF RestoreField
<1>6. /\ os' \in [Services -> Settings] /\ failures' \in 0..MaxFailures
      /\ \A r \in Services \ {x} : os'[r] = os[r]
      /\ op.field = "end" =>
            /\ os'[x] = os[x] \/ (was.end # Empty /\ os'[x] = Assigned(os[x], was.end))
            /\ ok => IF was.end = Empty THEN ~was.on ELSE os'[x].end = was.end
      /\ op.field = "on" =>
            /\ os'[x] = os[x] \/ os'[x] = [os[x] EXCEPT !.on = InForce(was)]
            /\ ok => os'[x].on = InForce(was)
      /\ op.field = "auto" =>
            /\ os'[x] = os[x] \/ os'[x] = [os[x] EXCEPT !.auto = was.auto]
            /\ ok => os'[x].auto = was.auto
  BY <1>2, <1>3, <1>5, FieldIsWritten
<1>7. /\ users[x] \in Settings /\ users[x].end \notin Configs
      /\ os[x] \in Settings /\ os'[x] \in Settings
  BY <1>3, <1>6 DEF IInv, TypeOK, UsersAreOthers
<1>8. \A s \in Services \ (blurred \cup {x}) : Free(s)'
  BY <1>1, <1>4, <1>6 DEF Free
<1>9. op.job \in Enables =>
         /\ op.before # NoSnapshot /\ op.before.service # x
         /\ op.before.service \notin blurred => os'[op.before.service] = op.before.values
  <2>1. op.job \in Enables =>
           /\ op.before # NoSnapshot /\ op.before.service # x
           /\ op.before.service \notin blurred => os[op.before.service] = op.before.values
    BY <1>1, <1>2, <1>4 DEF IInv, CaptureHolds
  <2>2. op.before # NoSnapshot => op.before.service \in Services
    BY <1>1 DEF OpRec, Snapshots
  <2>3. QED BY <1>6, <2>1, <2>2
<1>10. ASSUME op.field # "auto" \/ ~(op.ok /\ ok)
       PROVE  op' \in OpRec /\ JobHolds' /\ UNCHANGED <<owned, original>>
  <2>1. /\ op' \in OpRec /\ op'.job = op.job /\ op'.before = op.before /\ op'.own = op.own
        /\ \/ op.field = "end" /\ op'.pc = "restore" /\ op'.field = "on" /\ (op'.ok => ok)
           \/ op.field = "on" /\ op'.pc = "restore" /\ op'.field = "auto" /\ (op'.ok => op.ok /\ ok)
           \/ op'.pc = "reown"
        /\ UNCHANGED <<owned, original>>
    <3>1. CASE op.field # "auto"
      <4>1. /\ op' = [op EXCEPT !.field = FieldAfter[op.field], !.ok = op.ok /\ ok]
            /\ UNCHANGED <<owned, original>>
        BY <1>5, <3>1
      <4>2. FieldAfter[op.field] \in Fields /\ (op.field = "end" => FieldAfter[op.field] = "on")
            /\ (op.field = "on" => FieldAfter[op.field] = "auto")
        BY <1>2, <3>1 DEF FieldAfter, Fields
      <4>3. QED BY <1>1, <1>2, <3>1, <4>1, <4>2 DEF OpRec, Fields
    <3>2. CASE op.field = "auto"
      BY <1>1, <1>2, <1>5, <1>10, <3>2 DEF OpRec
    <3>3. QED BY <3>1, <3>2
  <2>2. RestIsSettled' /\ WritingIsUndoable' /\ RestoreClears'
    BY <2>1 DEF RestIsSettled, Resting, WritingIsUndoable, Writing, RestoreClears
  <2>3. CaptureHolds'
    BY <1>1, <1>2, <1>4, <1>9, <2>1 DEF CaptureHolds
  <2>4. ReturningIsKnown'
    <3>1. x \notin blurred => Known(x)'
      BY <1>1, <1>2, <1>4, <2>1 DEF Known
    <3>2. x \notin blurred /\ os'[x].end = Empty => Same(os'[x], users[x])
      <4> SUFFICES ASSUME x \notin blurred, os'[x].end = Empty PROVE Same(os'[x], users[x])
        OBVIOUS
      <4>1. /\ os[x].end = Empty
            /\ os'[x].auto \in {os[x].auto, was.auto}
        BY <1>2, <1>6, <1>7 DEF Assigned, Fields, Settings
      <4>2. Same(os[x], users[x]) /\ Same(was, users[x])
        BY <1>4, <4>1
      <4>3. QED BY <1>7, <4>1, <4>2 DEF Same, InForce
    <3>3. x \notin blurred /\ op'.pc = "restore" /\ op'.ok =>
            /\ op'.field # "end" => IF was.end = Empty THEN ~was.on ELSE os'[x].end = was.end
            /\ op'.field = "auto" => os'[x].on = was.on
      BY <1>2, <1>3, <1>4, <1>6, <1>7, <2>1 DEF InForce, Settings, Fields
    <3>4. x \notin blurred => os'[x].end # Auth
      BY <1>2, <1>4, <1>6, <1>7 DEF Assigned, Fields, Settings
    <3>5. QED BY <1>1, <1>2, <1>4, <1>8, <2>1, <3>1, <3>2, <3>3, <3>4
              DEF ReturningIsKnown, Owned, Written
  <2>5. QED BY <2>1, <2>2, <2>3, <2>4 DEF JobHolds
<1>11. ASSUME op.field = "auto", op.ok, ok
       PROVE  /\ op' \in OpRec /\ JobHolds'
              /\ owned' = NoSnapshot /\ original' = NoSnapshot
  <2>1. owned' = NoSnapshot /\ original' = NoSnapshot /\ RestoreReturns(TRUE)
    BY <1>5, <1>11
  <2>2. x \notin blurred => Free(x)'
    BY <1>1, <1>3, <1>4, <1>6, <1>7, <1>11, RestIsGiven DEF Free
  <2>3. ASSUME NEW s \in Services \ blurred' PROVE Settled(s)'
    <3>1. Free(s)'
      BY <1>1, <1>8, <2>2
    <3>2. owned' # Snap(s)'
      BY <1>6, <2>1 DEF Snap
    <3>3. QED BY <2>1, <3>1, <3>2 DEF Settled
  <2>4. owned' \in Snapshots /\ blurred' \subseteq Services
    BY <1>1, <2>1 DEF Snapshots, IInv, TypeOK
  <2>5. QED BY <1>1, <1>6, <1>9, <2>1, <2>3, <2>4, OwnedIsReturned
<1>12. TypeOK' /\ UsersAreOthers' /\ OwnedHasOriginal'
  BY <1>1, <1>6, <1>10, <1>11 DEF IInv, TypeOK, UsersAreOthers, OwnedHasOriginal, Snapshots
<1>13. QED BY <1>10, <1>11, <1>12 DEF IInv, JobHolds

-----------------------------------------------------------------------------
(* The steps of others *)

LEMMA ChangeHolds ==
  ASSUME IInv, NEW x \in Services, NEW fields \in SUBSET Fields, NEW v \in UserSettings,
         Change(x, fields, v)
  PROVE  IInv'
<1> DEFINE Set(old) == [f \in Fields |-> IF f \in fields THEN v[f] ELSE old[f]]
<1>1. /\ UNCHANGED <<primary, owned, original, op, reported, failures>>
      /\ changes' \in 0..MaxChanges
  BY DEF Change, IInv, TypeOK
<1>2. /\ os' = [os EXCEPT ![x] = Set(os[x])] /\ users' = [users EXCEPT ![x] = Set(users[x])]
      /\ blurred' \in {blurred \cup {x}, blurred \ {x}}
      /\ x \notin blurred' => /\ ~Busy(x) /\ Same(os'[x], users'[x])
                              /\ owned # NoSnapshot /\ owned.service = x => Ours(owned.values)
  BY DEF Change, IInv, TypeOK
<1>3. \A old \in Settings : Set(old) \in Settings /\ (old.end \notin Configs => Set(old).end \notin Configs)
  BY DEF UserSettings, Settings, Ends, Fields
<1>4. /\ os' \in [Services -> Settings] /\ users' \in [Services -> Settings]
      /\ blurred' \subseteq Services /\ UsersAreOthers'
      /\ \A s \in Services \ {x} : os'[s] = os[s] /\ users'[s] = users[s] /\ (s \in blurred' <=> s \in blurred)
      /\ x \notin blurred' => Same(os'[x], users'[x])
  BY <1>2, <1>3 DEF IInv, TypeOK, UsersAreOthers
<1>5. TypeOK' /\ OwnedHasOriginal'
  BY <1>1, <1>4 DEF IInv, TypeOK, OwnedHasOriginal
<1>6. x \notin blurred' => Free(x)'
  BY <1>4 DEF Free, Same, UsersAreOthers, Ours, InForce
<1>7. RestIsSettled'
  <2> SUFFICES ASSUME Resting, NEW s \in Services \ blurred' PROVE Settled(s)'
    BY <1>1 DEF RestIsSettled, Resting
  <2>1. CASE s # x
    BY <1>1, <1>4, <2>1 DEF IInv, RestIsSettled, Settled, Refound, Owned, Known, Free, Snap
  <2>2. CASE s = x
    <3>1. Free(x)' /\ owned' # Snap(x)'
      BY <1>1, <1>2, <1>4, <1>6, <2>2 DEF Free, Snap
    <3>2. QED BY <1>1, <1>2, <2>2, <3>1 DEF Settled, Refound
  <2>3. QED BY <2>1, <2>2
<1>8. CaptureHolds'
  <2>1. op.before # NoSnapshot => op.before.service \in Services
    BY DEF IInv, TypeOK, OpRec, Snapshots
  <2>2. op.pc \in {"check", "restore", "reown"} /\ op.before # NoSnapshot /\ op.before.service = x
            => x \in blurred'
    BY <1>2 DEF Busy
  <2>3. QED BY <1>1, <1>4, <2>1, <2>2 DEF IInv, CaptureHolds, Returning
<1>9. WritingIsUndoable'
  <2> SUFFICES ASSUME Writing PROVE WritingIsUndoable'
    BY <1>1 DEF WritingIsUndoable, Writing
  <2>1. PICK t \in Services : t = op.before.service
    BY WritingFacts
  <2>2. op.before.service = x => x \in blurred'
    BY <1>2, WritingFacts DEF Busy
  <2>3. ASSUME NEW s \in Services \ (blurred' \cup {t}) PROVE Free(s)'
    BY <1>1, <1>4, <1>6, <2>1 DEF IInv, WritingIsUndoable, Free
  <2>4. t \notin blurred' => /\ t \notin blurred /\ os'[t] = os[t] /\ users'[t] = users[t]
    BY <1>4, <2>1, <2>2
  <2>5. QED BY <1>1, <2>1, <2>3, <2>4 DEF IInv, WritingIsUndoable, Writing, Known, Written, Refound
<1>10. ReturningIsKnown'
  <2> SUFFICES ASSUME Returning PROVE ReturningIsKnown'
    BY <1>1 DEF ReturningIsKnown, Returning
  <2>1. owned # NoSnapshot
    BY DEF IInv, ReturningIsKnown
  <2>2. PICK t \in Services : t = owned.service
    BY <2>1 DEF IInv, TypeOK, Snapshots
  <2>3. t = x => x \in blurred'
    BY <1>2, <2>1, <2>2 DEF Busy, Returning
  <2>4. ASSUME NEW s \in Services \ (blurred' \cup {t}) PROVE Free(s)'
    BY <1>1, <1>4, <1>6, <2>2 DEF IInv, ReturningIsKnown, Free
  <2>5. t \notin blurred' => /\ t \notin blurred /\ os'[t] = os[t] /\ users'[t] = users[t]
    BY <1>4, <2>2, <2>3
  <2>6. QED BY <1>1, <2>2, <2>4, <2>5 DEF IInv, ReturningIsKnown, Returning, Owned, Known, Written
<1>11. RestoreClears'
  BY <1>1 DEF IInv, RestoreClears
<1>12. QED BY <1>4, <1>5, <1>7, <1>8, <1>9, <1>10, <1>11 DEF IInv

\* A change of the route, or no step at all, leaves everything that counts.
LEMMA UntouchedHolds ==
  ASSUME IInv, primary' \in Services \cup {NoService}, changes' \in 0..MaxChanges,
         UNCHANGED <<os, owned, original, op, reported, users, blurred, failures>>
  PROVE  IInv'
<1>1. TypeOK' /\ UsersAreOthers' /\ OwnedHasOriginal' /\ CaptureHolds' /\ RestoreClears'
  BY DEF IInv, TypeOK, UsersAreOthers, OwnedHasOriginal, CaptureHolds, Returning, RestoreClears
<1>2. RestIsSettled'
  BY DEF IInv, RestIsSettled, Resting, Settled, Refound, Owned, Known, Free, Snap
<1>3. WritingIsUndoable'
  BY DEF IInv, WritingIsUndoable, Writing, Known, Free, Written, Refound
<1>4. ReturningIsKnown'
  BY DEF IInv, ReturningIsKnown, Returning, Owned, Known, Free, Written
<1>5. QED BY <1>1, <1>2, <1>3, <1>4 DEF IInv

-----------------------------------------------------------------------------
(* What a step of restoreOwned() and of enable() may write *)

\* What a step of restoreOwned() changes becomes what the user set, but for a
\* switch that is on from the endpoint's command to its own.
LEMMA GivesBack ==
  ASSUME IInv, RestoreField, op.own, NEW s \in Services \ blurred
  PROVE  /\ os'[s].auto # os[s].auto => os'[s].auto = users[s].auto
         /\ os'[s].end # os[s].end => users[s].end \in {os'[s].end, Empty}
         /\ os'[s].on # os[s].on => op.field = "end" \/ os'[s].on = InForce(users[s])
<1>1. /\ op.pc = "restore" /\ Returning /\ Source = original /\ op.field \in Fields
      /\ owned # NoSnapshot /\ original # NoSnapshot /\ original.service = owned.service
  BY DEF RestoreField, Returning, Source, IInv, TypeOK, OpRec, ReturningIsKnown, OwnedHasOriginal
<1>2. PICK x \in Services, was \in Settings : original = [service |-> x, values |-> was]
  BY <1>1 DEF IInv, TypeOK, Snapshots
<1>3. s = x => Same(was, users[s])
  BY <1>1, <1>2 DEF IInv, ReturningIsKnown, Owned, Known
<1>4. PICK ok \in BOOLEAN :
        IF op.field = "end" /\ was.end = Empty THEN ok = ~was.on /\ UNCHANGED <<os, failures>>
        ELSE Writes(x, Given(os[x], was, op.field), ok)
  BY <1>1, <1>2 DEF RestoreField
<1>5. /\ os' \in [Services -> Settings] /\ failures' \in 0..MaxFailures
      /\ \A r \in Services \ {x} : os'[r] = os[r]
      /\ op.field = "end" =>
            /\ os'[x] = os[x] \/ (was.end # Empty /\ os'[x] = Assigned(os[x], was.end))
            /\ ok => IF was.end = Empty THEN ~was.on ELSE os'[x].end = was.end
      /\ op.field = "on" =>
            /\ os'[x] = os[x] \/ os'[x] = [os[x] EXCEPT !.on = InForce(was)]
            /\ ok => os'[x].on = InForce(was)
      /\ op.field = "auto" =>
            /\ os'[x] = os[x] \/ os'[x] = [os[x] EXCEPT !.auto = was.auto]
            /\ ok => os'[x].auto = was.auto
  BY <1>1, <1>2, <1>4, FieldIsWritten
<1>6. os[s] \in Settings /\ users[s] \in Settings
  BY DEF IInv, TypeOK
<1>7. CASE s # x
  BY <1>5, <1>7
<1>8. CASE s = x
  <2>1. was.auto = users[s].auto /\ InForce(was) = InForce(users[s]) /\ users[s].end \in {was.end, Empty}
    BY <1>3, <1>8 DEF Same
  <2>2. CASE op.field = "end"
    <3>1. Assigned(os[s], was.end).end = was.end /\ Assigned(os[s], was.end).auto = os[s].auto
      BY <1>6 DEF Assigned, Settings
    <3>2. QED BY <1>5, <1>8, <2>1, <2>2, <3>1
  <2>3. CASE op.field = "on"
    BY <1>5, <1>6, <1>8, <2>1, <2>3 DEF Settings
  <2>4. CASE op.field = "auto"
    BY <1>5, <1>6, <1>8, <2>1, <2>4 DEF Settings
  <2>5. QED BY <1>1, <2>2, <2>3, <2>4 DEF Fields
<1>9. QED BY <1>7, <1>8

\* A command leaves the other services as they are.
LEMMA OthersStay ==
  ASSUME IInv, NEW s \in Services, NEW x, NEW now, NEW ok \in BOOLEAN,
         Writes(x, now, ok), s # x
  PROVE  os'[s] = os[s]
<1>1. os' = os \/ os' = [os EXCEPT ![x] = now]
  BY DEF Writes
<1>2. QED BY <1>1 DEF IInv, TypeOK

\* What enable() and restoreOwned() write has no credentials.
LEMMA NoCredentialsWritten ==
  ASSUME IInv, Apply \/ RestoreField, NEW s \in Services \ blurred, os[s].end = Auth
  PROVE  os'[s] = os[s]
<1>2. CASE Apply
  <2>1. Writing
    BY <1>2 DEF Apply, Writing
  <2>2. s # op.before.service
    BY <2>1 DEF IInv, WritingIsUndoable
  <2>3. PICK ok \in BOOLEAN : \E now : Writes(op.before.service, now, ok)
    BY <1>2 DEF Apply
  <2>4. PICK now : Writes(op.before.service, now, ok)
    BY <2>3
  <2>5. QED BY <2>2, <2>4, OthersStay
<1>3. CASE RestoreField
  <2>1. s # Source.service
    <3>1. CASE op.own
      <4>1. Returning /\ Source = original
        BY <1>3, <3>1 DEF RestoreField, Returning, Source
      <4>2. QED BY <4>1 DEF IInv, ReturningIsKnown, OwnedHasOriginal, Owned
    <3>2. CASE ~op.own
      <4>1. Writing /\ Source = op.before
        BY <1>3, <3>2 DEF RestoreField, Writing, Source
      <4>2. QED BY <4>1 DEF IInv, WritingIsUndoable
    <3>3. QED BY <3>1, <3>2
  <2>2. CASE UNCHANGED os
    BY <2>2
  <2>3. CASE ~UNCHANGED os
    <3>1. PICK ok \in BOOLEAN : \E now : Writes(Source.service, now, ok)
      BY <1>3, <2>3 DEF RestoreField
    <3>2. PICK now : Writes(Source.service, now, ok)
      BY <3>1
    <3>3. QED BY <2>1, <3>2, OthersStay
  <2>4. QED BY <2>2, <2>3
<1>4. QED BY <1>2, <1>3

-----------------------------------------------------------------------------
(* The theorems *)

LEMMA NextHolds == IInv /\ [Next]_vars => IInv'
<1> SUFFICES ASSUME IInv, [Next]_vars PROVE IInv'
  OBVIOUS
<1>1. CASE Steps
  <2>1. CASE Capture BY <2>1, CaptureHoldsOn
  <2>2. CASE Check BY <2>2, CheckHolds
  <2>3. CASE Apply BY <2>3, ApplyHolds
  <2>4. CASE ReadBack BY <2>4, ReadBackHolds
  <2>5. CASE RestoreField BY <2>5, UndoHolds, ReturningHolds
  <2>6. CASE Reown BY <2>6, ReownHolds
  <2>7. CASE SwitchOff BY <2>7, SwitchOffHolds
  <2>8. CASE Finish BY <2>8, FinishHolds
  <2>9. QED BY <1>1, <2>1, <2>2, <2>3, <2>4, <2>5, <2>6, <2>7, <2>8 DEF Steps
<1>2. CASE Others
  <2>1. ASSUME NEW p \in Services \cup {NoService}, Route(p) PROVE IInv'
    <3>1. /\ UNCHANGED <<os, owned, original, op, reported, users, blurred, failures>>
          /\ primary' \in Services \cup {NoService} /\ changes' \in 0..MaxChanges
      BY <2>1 DEF Route, IInv, TypeOK
    <3>2. QED BY <3>1, UntouchedHolds
  <2>2. QED BY <1>2, <2>1, ChangeHolds DEF Others
<1>3. CASE \E job \in Jobs : Begin(job)
  BY <1>3, BeginHolds
<1>4. CASE UNCHANGED vars
  <2>1. /\ UNCHANGED <<os, owned, original, op, reported, users, blurred, failures>>
        /\ primary' \in Services \cup {NoService} /\ changes' \in 0..MaxChanges
    BY <1>4 DEF vars, IInv, TypeOK
  <2>2. QED BY <2>1, UntouchedHolds
<1>5. QED BY <1>1, <1>2, <1>3, <1>4 DEF Next

\* Whatever jobs run, whatever fails and whatever others do, all of this holds.
THEOREM IsInductive == Spec => []IInv
BY InitHolds, NextHolds, PTL DEF Spec

\* The variables keep their types.
THEOREM TypeCorrect == Spec => []TypeOK
<1>1. IInv => TypeOK
  BY DEF IInv
<1>2. QED BY <1>1, IsInductive, PTL

\* Between two jobs our endpoint is in force only where the application owns
\* it and knows what the user had there, for any services and endpoints and
\* any number of failures and of changes by others.
THEOREM OursCanBeTakenBack == Spec => []OursIsRecoverable
<1>1. IInv => OursIsRecoverable
  <2> SUFFICES ASSUME IInv, op.pc = "idle", NEW s \in Services \ blurred,
                      ~(Same(os[s], users[s]) /\ ~Ours(os[s]))
               PROVE  owned = Snap(s) /\ Known(s)
    BY DEF OursIsRecoverable, Known
  <2>1. Settled(s)
    BY DEF IInv, RestIsSettled, Resting
  <2>2. QED BY <2>1 DEF Settled, Owned, Free
<1>2. QED BY <1>1, IsInductive, PTL

\* A restore reported to have succeeded left our endpoint nowhere.
THEOREM RestoreIsTrue == Spec => []RestoreTells
<1>1. IInv => RestoreTells
  <2> SUFFICES ASSUME IInv, op.pc = "idle", reported = [action |-> "Restore", success |-> TRUE],
                      NEW s \in Services \ blurred
               PROVE  Same(os[s], users[s]) /\ ~Ours(os[s])
    BY DEF RestoreTells
  <2>1. owned = NoSnapshot /\ Settled(s)
    BY DEF IInv, RestoreClears, RestIsSettled, Resting
  <2>2. owned # Snap(s)
    BY <2>1, SnapIsValid DEF IInv
  <2>3. QED BY <2>1, <2>2 DEF Settled, Free
<1>2. QED BY <1>1, IsInductive, PTL

\* A restoreOwned() that drops its snapshots leaves all as the user set it.
LEMMA DroppedIsGivenBack ==
  ASSUME IInv, IInv', RestoreField, op.own, owned' = NoSnapshot, NEW s \in Services \ blurred
  PROVE  Same(os'[s], users[s]) /\ ~Ours(os'[s])
<1>1. /\ op.pc = "restore" /\ op.own /\ owned # NoSnapshot /\ UNCHANGED <<users, blurred>>
  BY DEF RestoreField, IInv, ReturningIsKnown, Returning
<1>2. op.field = "auto" /\ RestoreReturns(TRUE)
  BY <1>1 DEF RestoreField
<1>2a. op' = Return(op, TRUE) \/ op' = ToApply(op, owned')
  BY <1>2 DEF RestoreReturns, Returns
<1>2b. op \in OpRec
  BY DEF IInv, TypeOK
<1>3. /\ op'.pc = "apply" \/ op'.pc = "state"
      /\ op'.pc = "apply" => op'.field = "end" /\ op'.still = (NoSnapshot = op.before)
                             /\ op'.before = op.before
  <2>1. Return(op, TRUE).pc = "state"
    BY DEF Return, Idle
  <2>2. CASE op' = Return(op, TRUE)
    BY <2>1, <2>2
  <2>3. CASE op' = ToApply(op, owned')
    BY <1>2b, <2>1, <2>3 DEF ToApply, Return, Idle, OpRec
  <2>4. QED BY <1>2a, <2>2, <2>3
<1>4. owned' # Snap(s)' /\ s \notin blurred'
  BY <1>1, SnapIsValid DEF IInv, TypeOK, Snap
<1>5. CASE op'.pc = "state"
  <2>1. Settled(s)'
    BY <1>1, <1>5 DEF IInv, RestIsSettled, Resting
  <2>2. QED BY <1>1, <1>4, <2>1 DEF Settled, Free
<1>6. CASE op'.pc = "apply"
  <2>1. WritingIsUndoable' /\ Writing'
    BY <1>6 DEF IInv, Writing
  <2>2. CASE s # op'.before.service
    BY <1>1, <1>4, <2>1, <2>2 DEF WritingIsUndoable, Free
  <2>3. CASE s = op'.before.service
    <3>1. op'.field = "end" /\ ~op'.still
      BY <1>3, <1>6, <2>1 DEF WritingIsUndoable, Writing
    <3>2. os'[s] = op'.before.values
      BY <1>4, <1>6, <2>1, <2>3, <3>1 DEF WritingIsUndoable
    <3>3. QED BY <1>1, <1>4, <2>1, <2>3, <3>1, <3>2 DEF WritingIsUndoable
  <2>4. QED BY <2>2, <2>3
<1>7. QED BY <1>3, <1>5, <1>6

\* restoreOwned() writes only what others last set, and an endpoint that it
\* switches on by that is as it was when the snapshots are dropped.
THEOREM OnlyGivesBack == Spec => OthersLeftAlone
<1> DEFINE Step == op.pc = "restore" /\ op.own /\ op' # op => \A s \in Services \ blurred :
        /\ os'[s].auto # os[s].auto => os'[s].auto = users[s].auto
        /\ os'[s].end # os[s].end => users[s].end \in {os'[s].end, Empty}
        /\ os'[s].on # os[s].on =>
              op.field = "end" \/ os'[s].on = InForce(users[s])
        /\ owned' = NoSnapshot => Same(os'[s], users[s]) /\ ~Ours(os'[s])
<1>1. IInv /\ IInv' /\ [Next]_vars => [Step]_<<os, op>>
  <2> SUFFICES ASSUME IInv, IInv', Next, op.pc = "restore", op.own, op' # op
               PROVE  Step
    BY DEF vars
  <2>1. RestoreField
    BY DEF Next, Steps, Others, Begin, Capture, Check, Apply, ReadBack, Reown, SwitchOff,
           Finish, Change, Route
  <2>2. QED BY <2>1, GivesBack, DroppedIsGivenBack
<1>2. QED BY <1>1, IsInductive, PTL DEF Spec, OthersLeftAlone

\* Only disable() touches a proxy with credentials.
THEOREM CredentialsAreSafe == Spec => AuthIsKept
<1> DEFINE Step == \A s \in Services \ blurred :
                      os[s].end = Auth /\ op' # op /\ op.pc # "off" => os'[s] = os[s]
<1>1. IInv /\ [Next]_vars => [Step]_<<os, op>>
  <2> SUFFICES ASSUME IInv, Next, NEW s \in Services \ blurred,
                      os[s].end = Auth, op' # op, op.pc # "off"
               PROVE  os'[s] = os[s]
    BY DEF vars
  <2>1. CASE Apply \/ RestoreField
    BY <2>1, NoCredentialsWritten
  <2>2. CASE ~(Apply \/ RestoreField)
    <3>1. os' = os
      BY <2>2 DEF Next, Steps, Others, Begin, Capture, Check, ReadBack, Reown, SwitchOff,
                  Finish, Change, Route
    <3>2. QED BY <3>1
  <2>3. QED BY <2>1, <2>2
<1>2. QED BY <1>1, IsInductive, PTL DEF Spec, AuthIsKept

\* Both invariants of the settings, for any services, failures and changes.
THEOREM SettingsAreSafe == Spec => []Safety
BY TypeCorrect, OursCanBeTakenBack, RestoreIsTrue, PTL DEF Safety

\* Both step properties: nothing of others is lost, whatever is interrupted.
THEOREM OthersAreKept == Spec => ForeignSettingsAreKept
BY OnlyGivesBack, CredentialsAreSafe DEF ForeignSettingsAreKept
=============================================================================
