---------------------------- MODULE SystemProxy ----------------------------
(***************************************************************************)
(* platform::SystemProxy on macOS, and the job by which SystemProxyService *)
(* calls it.  The operating system keeps settings for each network         *)
(* service; the application writes its own into the primary one and keeps  *)
(* two snapshots: what it left there, and what was there before.  Every    *)
(* networksetup command that writes is a step that can fail, before or     *)
(* after its effect; a snapshot, six commands that read, is one step.      *)
(* Between any two steps the user or another application may change the    *)
(* settings, or the primary service.                                       *)
(***************************************************************************)
EXTENDS Naturals, ProxyJobs

CONSTANTS
    Services,     \* network services
    NoService,    \* no service has the default route
    Foreign,      \* endpoints of others
    Empty,        \* no endpoint
    Auth,         \* an endpoint that needs credentials
    NoSnapshot,   \* a snapshot that is not valid
    MaxFailures,  \* bound: commands and reads that fail
    MaxChanges    \* bound: changes by others

Ends   == Configs \cup Foreign \cup {Empty, Auth}
Fields == {"end", "on", "auto"}

\* end is the proxies' endpoint, on their switch, auto whether a PAC file or
\* discovery is on.
Settings  == [end : Ends, on : BOOLEAN, auto : BOOLEAN]
Snapshots == [service : Services, values : Settings] \cup {NoSnapshot}

ASSUME ConstantsAreDistinct ==
    /\ Configs \cap Foreign = {} /\ NoService \notin Services
    /\ {Empty, Auth} \cap (Configs \cup Foreign) = {} /\ Empty # Auth
    /\ NoSnapshot \notin [service : Services, values : Settings]
    /\ MaxFailures \in Nat /\ MaxChanges \in Nat

VARIABLES
    os,        \* the settings of every service
    primary,   \* the service with the default route
    owned,     \* ownedSettings
    original,  \* originalSettings
    op,        \* the job that runs, and where it is
    reported,  \* the job that has just ended, and whether it succeeded
    users,     \* what others last set, field by field
    blurred,   \* services where others' changes cannot be told from ours
    failures, changes

vars == <<os, primary, owned, original, op, reported, users, blurred, failures, changes>>

\* service and before: the snapshot enable() took; still: stillOwned;
\* field: the next to write; ok: restore() so far; own: restoreOwned() runs,
\* on the service of ownedSettings; result: what the call returned.
OpRec == [
    pc     : {"idle", "capture", "check", "apply", "readback", "restore", "reown", "off", "state"},
    job    : Jobs,
    before : Snapshots,
    still  : BOOLEAN,
    field  : Fields,
    ok     : BOOLEAN,
    own    : BOOLEAN,
    result : BOOLEAN]

Idle == [pc |-> "idle", job |-> Refresh, before |-> NoSnapshot, still |-> FALSE,
         field |-> "end", ok |-> TRUE, own |-> FALSE, result |-> FALSE]

NoReport == [action |-> "Refresh", success |-> FALSE]

UserSettings == [end : Foreign \cup {Empty, Auth}, on : BOOLEAN, auto : BOOLEAN]

TypeOK ==
    /\ os \in [Services -> Settings] /\ primary \in Services \cup {NoService}
    /\ owned \in Snapshots /\ original \in Snapshots /\ op \in OpRec
    /\ reported \in [action : {"Enable", "Disable", "Restore", "Refresh"}, success : BOOLEAN]
    /\ users \in [Services -> Settings] /\ blurred \subseteq Services
    /\ failures \in 0..MaxFailures /\ changes \in 0..MaxChanges

Init ==
    /\ os \in [Services -> UserSettings]
    /\ primary \in Services \cup {NoService}
    /\ owned = NoSnapshot /\ original = NoSnapshot
    /\ op = Idle /\ reported = NoReport
    /\ users = os /\ blurred = {}
    /\ failures = 0 /\ changes = 0

-----------------------------------------------------------------------------
(* Commands and reads *)

Fails(ok) == /\ ok \/ failures < MaxFailures
             /\ failures' = IF ok THEN failures ELSE failures + 1

\* A command makes now of the settings of s; one that is reported to have
\* failed may have had its effect.
Writes(s, now, ok) ==
    /\ Fails(ok)
    /\ \E done \in BOOLEAN : (ok => done) /\ os' = IF done THEN [os EXCEPT ![s] = now] ELSE os

Snap(s) == [service |-> s, values |-> os[s]]

\* "Assigning a server also switches that protocol's proxy on."
Assigned(now, e) == [now EXCEPT !.end = e, !.on = TRUE]

InForce(v) == v.on /\ v.end # Empty

Ours(v) == v.on /\ v.end \in Configs

\* What restore() makes of the settings when it writes field f: an endpoint is
\* switched on by its own command and switched off again by the next.
Given(now, was, f) ==
    IF f = "end" THEN Assigned(now, was.end)
    ELSE IF f = "on" THEN [now EXCEPT !.on = InForce(was)]
    ELSE [now EXCEPT !.auto = was.auto]

FieldAfter == [end |-> "on", on |-> "auto"]

\* The call returns; SystemProxy::state() follows.
Return(o, result) == [Idle EXCEPT !.pc = "state", !.job = o.job, !.result = result]

Returns(result) == op' = Return(op, result)

\* The service that is written: restoreOwned() goes to the one it owns.
Target == IF op.own THEN owned.service ELSE op.before.service

-----------------------------------------------------------------------------
(* The job: SystemProxyService::execute() *)

\* Where each call starts; disable() of what is owned is restoreOwned().
Entry(job) ==
    IF job \in Enables THEN "capture"
    ELSE IF job = Refresh THEN "state"
    ELSE IF job = Restore \/ owned # NoSnapshot THEN "check"
    ELSE "off"

Begin(job) ==
    /\ op.pc = "idle"
    /\ op' = [Idle EXCEPT !.job = job, !.pc = Entry(job), !.result = TRUE]
    /\ reported' = NoReport
    /\ UNCHANGED <<os, primary, owned, original, users, blurred, failures, changes>>

\* enable() past the services: an authenticated proxy is not replaced.
\* stillOwned is computed here, with the snapshots as they now are.
ToApply(o, nowOwned) ==
    IF o.before.values.end = Auth THEN Return(o, FALSE)
    ELSE LET next == [o EXCEPT !.pc = "apply", !.field = "end", !.own = FALSE] IN
         IF nowOwned = o.before THEN [next EXCEPT !.still = TRUE] ELSE [next EXCEPT !.still = FALSE]

\* enable() starts: with a configuration or a platform it refuses it returns
\* as from a capture that fails.  If another service is still owned,
\* that one is restored first.
Capture ==
    /\ op.pc = "capture"
    /\ \E ok \in BOOLEAN :
        /\ ok => primary # NoService
        /\ Fails(ok \/ primary = NoService)
        /\ IF ~ok THEN Returns(FALSE)
           ELSE LET o == [op EXCEPT !.before = Snap(primary)] IN
                op' = IF owned # NoSnapshot /\ owned.service # primary
                      THEN [o EXCEPT !.pc = "check"] ELSE ToApply(o, owned)
    /\ UNCHANGED <<os, primary, owned, original, reported, users, blurred, changes>>

\* restoreOwned() returns to its caller, enable() or the job itself.
RestoreReturns(result) ==
    IF op.job \in Enables /\ result THEN op' = ToApply(op, owned') ELSE Returns(result)

\* Mutant: the settings are restored whatever they are now.
CheckNothing ==
    /\ op.pc = "check" /\ owned # NoSnapshot
    /\ op' = [op EXCEPT !.pc = "restore", !.field = "end", !.ok = TRUE, !.own = TRUE]
    /\ UNCHANGED <<os, primary, owned, original, reported, users, blurred, failures, changes>>

\* restoreOwned(): what is no longer as it was left is left alone.
Check ==
    /\ op.pc = "check"
    /\ \/ /\ owned = NoSnapshot
          /\ IF original = NoSnapshot THEN RestoreReturns(TRUE) ELSE RestoreReturns(FALSE)
          /\ UNCHANGED <<owned, original, failures>>
       \/ /\ owned # NoSnapshot
          /\ \E ok \in BOOLEAN :
                /\ Fails(ok)
                /\ IF ~ok THEN UNCHANGED <<owned, original>> /\ RestoreReturns(FALSE)
                   ELSE IF Snap(owned.service) # owned
                        THEN owned' = NoSnapshot /\ original' = NoSnapshot /\ RestoreReturns(TRUE)
                   ELSE /\ op' = [op EXCEPT !.pc = "restore", !.field = "end", !.ok = TRUE, !.own = TRUE]
                        /\ UNCHANGED <<owned, original>>
    /\ UNCHANGED <<os, primary, reported, users, blurred, changes>>

Undo == op' = [op EXCEPT !.pc = "restore", !.field = "end", !.ok = TRUE]

\* apply(): the endpoints, then PAC and discovery off; it stops at a failure.
Apply ==
    /\ op.pc = "apply"
    /\ \E ok \in BOOLEAN :
        /\ LET now == os[op.before.service]
           IN Writes(op.before.service, IF op.field = "end" THEN Assigned(now, op.job.config)
                                        ELSE [now EXCEPT !.auto = FALSE], ok)
        /\ IF ~ok THEN Undo
           ELSE op' = IF op.field = "end" THEN [op EXCEPT !.field = "auto"]
                                          ELSE [op EXCEPT !.pc = "readback"]
    /\ UNCHANGED <<primary, owned, original, reported, users, blurred, changes>>

\* Mutant: the settings found are taken for the user's even when they are ours.
ReadBackCapturing ==
    /\ op.pc = "readback"
    /\ owned' = Snap(op.before.service) /\ original' = op.before /\ Returns(TRUE)
    /\ UNCHANGED <<os, primary, reported, users, blurred, failures, changes>>

ReadBack ==
    /\ op.pc = "readback"
    /\ \E ok \in BOOLEAN :
        /\ Fails(ok)
        /\ IF ~ok THEN Undo /\ UNCHANGED <<owned, original>>
           ELSE /\ owned' = Snap(op.before.service)
                /\ original' = IF op.still THEN original ELSE op.before
                /\ Returns(TRUE)
    /\ UNCHANGED <<os, primary, reported, users, blurred, changes>>

\* What restore() writes, and where.
Source == IF op.own THEN original ELSE op.before

\* restore(): every field is written, whatever failed before it.  An empty
\* endpoint cannot be: the one there stays, and its being on is an error.
RestoreField ==
    /\ op.pc = "restore"
    /\ \E ok \in BOOLEAN :
        /\ IF op.field = "end" /\ Source.values.end = Empty
           THEN ok = ~Source.values.on /\ UNCHANGED <<os, failures>>
           ELSE Writes(Source.service, Given(os[Source.service], Source.values, op.field), ok)
        /\ IF op.field # "auto"
           THEN /\ op' = [op EXCEPT !.field = FieldAfter[op.field], !.ok = op.ok /\ ok]
                /\ UNCHANGED <<owned, original>>
           ELSE IF ~(op.ok /\ ok)
           THEN op' = [op EXCEPT !.pc = "reown"] /\ UNCHANGED <<owned, original>>
           ELSE IF op.own
           THEN owned' = NoSnapshot /\ original' = NoSnapshot /\ RestoreReturns(TRUE)
           ELSE Returns(FALSE) /\ UNCHANGED <<owned, original>>
    /\ UNCHANGED <<primary, reported, users, blurred, changes>>

\* A restore has failed: what is there now is owned, if it can be read.
Reown ==
    /\ op.pc = "reown"
    /\ \E ok \in BOOLEAN :
        /\ Fails(ok)
        /\ owned' = IF ok THEN Snap(Source.service) ELSE NoSnapshot
        /\ blurred' = IF ok THEN blurred ELSE blurred \cup {Source.service}
    /\ original' = IF op.own \/ op.still THEN original ELSE op.before
    /\ Returns(FALSE)
    /\ UNCHANGED <<os, primary, reported, users, changes>>

AsUser(s) == users' = IF os' = os THEN users ELSE [users EXCEPT ![s].on = FALSE]

\* disable() of what is not owned: the user's own wish.
SwitchOff ==
    /\ op.pc = "off"
    /\ \E ok \in BOOLEAN :
        IF primary = NoService THEN UNCHANGED <<os, users, failures>> /\ Returns(FALSE)
        ELSE /\ Writes(primary, [os[primary] EXCEPT !.on = FALSE], ok)
             /\ AsUser(primary)
             /\ Returns(ok)
    /\ UNCHANGED <<primary, owned, original, reported, blurred, changes>>

OwnsProxy == owned # NoSnapshot /\ Snap(owned.service) = owned

Reports(success) ==
    IF success THEN reported' = [action |-> op.job.action, success |-> TRUE]
               ELSE reported' = [action |-> op.job.action, success |-> FALSE]

\* state(): an enable() must be confirmed; a restore need not be read back.
Finish ==
    /\ op.pc = "state"
    /\ \E ok \in BOOLEAN :
        /\ ok => primary # NoService
        /\ Fails(ok \/ primary = NoService)
        /\ Reports(/\ op.result
                   /\ ok \/ op.job = Restore
                   /\ op.job \in Enables => OwnsProxy /\ os[primary].on /\ os[primary].end = op.job.config)
    /\ op' = Idle
    /\ UNCHANGED <<os, primary, owned, original, users, blurred, changes>>

-----------------------------------------------------------------------------
(* Others *)

\* The running job has read the settings of s and has not yet left them.
Busy(s) ==
    /\ op.pc \in {"check", "apply", "readback", "restore", "reown"}
    /\ \/ op.before # NoSnapshot /\ op.before.service = s
       \/ op.own /\ owned # NoSnapshot /\ owned.service = s

\* The same, but for the endpoint that stays behind where there was none.
Same(a, b) == /\ a.auto = b.auto /\ InForce(a) = InForce(b)
              /\ b.end \in {a.end, Empty}

\* The user or another application sets some fields.  Where the result mixes
\* their fields with ours, or a job is under way, or what the application
\* would know again is not its own endpoint, the two can no longer be told
\* apart.
Change(s, fields, v) ==
    /\ changes < MaxChanges /\ changes' = changes + 1
    /\ LET Set(old) == [f \in Fields |-> IF f \in fields THEN v[f] ELSE old[f]]
           now == [os EXCEPT ![s] = Set(@)]
       IN /\ os' = now /\ now # os
          /\ users' = [users EXCEPT ![s] = Set(@)]
          /\ blurred' = IF \/ Busy(s) \/ ~Same(now[s], users'[s])
                           \/ /\ owned # NoSnapshot /\ owned.service = s
                              /\ (s \in blurred \/ ~Ours(owned.values))
                        THEN blurred \cup {s} ELSE blurred \ {s}
    /\ UNCHANGED <<primary, owned, original, op, reported, failures>>

Route(p) ==
    /\ changes < MaxChanges /\ changes' = changes + 1
    /\ p # primary /\ primary' = p
    /\ UNCHANGED <<os, owned, original, op, reported, users, blurred, failures>>

Others ==
    \/ \E p \in Services \cup {NoService} : Route(p)
    \/ \E s \in Services, fields \in SUBSET Fields, v \in UserSettings : Change(s, fields, v)

Steps == \/ Capture \/ Check \/ Apply \/ ReadBack \/ RestoreField \/ Reown
         \/ SwitchOff \/ Finish

Next == Steps \/ Others \/ \E job \in Jobs : Begin(job)

Spec == Init /\ [][Next]_vars

-----------------------------------------------------------------------------
(* Safety *)

\* What is in force between two jobs is what the user last set; or else the
\* application owns exactly what is there, so that a restore will take it
\* away, and what it will restore is what the user last set, whatever failed
\* on the way, a switch that could not be put off again included.
OursIsRecoverable ==
    op.pc = "idle" => \A s \in Services \ blurred :
        \/ Same(os[s], users[s]) /\ ~Ours(os[s])
        \/ /\ owned = Snap(s)
           /\ original # NoSnapshot /\ original.service = s
           /\ Same(original.values, users[s])

\* A restore that is reported to have succeeded, on which quitting relies,
\* has left every service as its user last set it, our endpoint nowhere.
RestoreTells ==
    op.pc = "idle" /\ reported = [action |-> "Restore", success |-> TRUE] =>
        \A s \in Services \ blurred : Same(os[s], users[s]) /\ ~Ours(os[s])

\* "Another application's subsequent changes are left alone.": restoreOwned()
\* writes a field only to give back what was last set there by others.  A
\* switch that is off is on for a while, after the endpoint was assigned: it
\* is off again, and all is as it was, when the snapshots are dropped.
OthersLeftAlone ==
    [][op.pc = "restore" /\ op.own /\ op' # op => \A s \in Services \ blurred :
        /\ os'[s].auto # os[s].auto => os'[s].auto = users[s].auto
        /\ os'[s].end # os[s].end => users[s].end \in {os'[s].end, Empty}
        /\ os'[s].on # os[s].on =>
              op.field = "end" \/ os'[s].on = InForce(users[s])
        /\ owned' = NoSnapshot => Same(os'[s], users[s]) /\ ~Ours(os'[s])]_<<os, op>>

\* Credentials could not be given back: only disable() touches them.
AuthIsKept ==
    [][\A s \in Services \ blurred :
        os[s].end = Auth /\ op' # op /\ op.pc # "off" => os'[s] = os[s]]_<<os, op>>

\* What was the user's can be given back, and a success that is told is true.
Safety == TypeOK /\ OursIsRecoverable /\ RestoreTells

\* What others set is written over only as far as it can be given back.
ForeignSettingsAreKept == OthersLeftAlone /\ AuthIsKept

-----------------------------------------------------------------------------
(* What makes these inductive *)

Known(s) ==
    /\ original # NoSnapshot /\ original.service = s
    /\ Same(original.values, users[s])

\* A service shows what the application owns, or what the user set.
Owned(s) == /\ Known(s) /\ os[s].end # Auth
            /\ os[s].end = Empty => Same(os[s], users[s])
Free(s)  == ~Ours(os[s]) /\ Same(os[s], users[s])

\* Settings of its own that lack its endpoint, the application finds again,
\* unless the endpoint they lacked is there now.
Refound(e) == owned # NoSnapshot => Ours(owned.values) \/ (owned.values.end = Empty /\ e # Empty)

Settled(s) ==
    /\ IF owned = Snap(s) THEN Owned(s) ELSE Free(s)
    /\ owned # NoSnapshot /\ owned.service = s => owned = Snap(s) \/ Refound(os[s].end)

Resting == op.pc \in {"idle", "capture", "check", "off", "state"}

Writing == op.pc \in {"apply", "readback"} \/ (op.pc \in {"restore", "reown"} /\ ~op.own)

Returning == op.pc \in {"restore", "reown"} /\ op.own

RestIsSettled == Resting => \A s \in Services \ blurred : Settled(s)

\* Between two services, enable() still knows the second as it was.
CaptureHolds ==
    /\ op.pc = "capture" => op.job \in Enables
    /\ op.job \in Enables /\ (op.pc = "check" \/ Returning) =>
          /\ op.before # NoSnapshot
          /\ owned # NoSnapshot => owned.service # op.before.service
          /\ op.before.service \notin blurred => os[op.before.service] = op.before.values

\* What restore() has written so far, if nothing failed.
Written(now, was) ==
    op.ok => /\ op.field # "end" => IF was.end = Empty THEN ~was.on ELSE now.end = was.end
             /\ op.field = "auto" => now.on = was.on

\* While enable() writes, or undoes what it wrote.
WritingIsUndoable ==
    Writing =>
        /\ op.job \in Enables /\ op.before # NoSnapshot /\ ~op.own
        /\ op.before.values.end # Auth
        /\ owned # NoSnapshot => owned.service = op.before.service
        /\ op.still => owned = op.before
        /\ op.pc = "apply" => op.field # "on"
        /\ \A s \in Services \ (blurred \cup {op.before.service}) : Free(s)
        /\ LET t == op.before.service
               was == op.before.values
           IN t \notin blurred =>
                /\ os[t].end # Auth
                /\ IF op.still
                   THEN Known(t) /\ (was.end = Empty => Same(was, users[t]))
                   ELSE ~Ours(was) /\ Same(was, users[t]) /\ owned # op.before /\ Refound(was.end)
                /\ op.pc = "apply" /\ op.field = "end" => os[t] = was
                /\ (op.pc = "apply" /\ op.field = "auto") \/ op.pc = "readback" => Ours(os[t])
                /\ os[t].end = Empty => was.end = Empty /\ os[t].auto = was.auto
                /\ op.pc = "restore" => Written(os[t], was)

\* While restoreOwned() gives back what it owns.
ReturningIsKnown ==
    Returning =>
        /\ owned # NoSnapshot
        /\ \A s \in Services \ (blurred \cup {owned.service}) : Free(s)
        /\ LET o == owned.service
           IN o \notin blurred =>
                /\ Owned(o)
                /\ op.pc = "restore" => Written(os[o], original.values)

RestoreClears ==
    /\ op.pc = "state" /\ op.job = Restore /\ op.result => owned = NoSnapshot
    /\ op.pc = "idle" /\ reported = [action |-> "Restore", success |-> TRUE] => owned = NoSnapshot
    /\ op.pc = "off" => owned = NoSnapshot

\* What is owned can be given back, be it blurred or not, and all of it.
OwnedHasOriginal ==
    /\ owned # NoSnapshot => original # NoSnapshot /\ original.service = owned.service
    /\ original # NoSnapshot => original.values.end # Auth

UsersAreOthers == \A s \in Services : users[s].end \notin Configs

IInv ==
    /\ TypeOK /\ UsersAreOthers /\ OwnedHasOriginal /\ RestIsSettled /\ CaptureHolds
    /\ WritingIsUndoable /\ ReturningIsKnown /\ RestoreClears

-----------------------------------------------------------------------------
(* What one would want of it, and the code does not keep *)

\* README: "Settings are captured before this app changes them".  What is captured
\* as the user's never is an endpoint of our own.
CapturedIsUsers == original # NoSnapshot => ~Ours(original.values)

\* restoreOwned() puts on no switch that the user has put off: what it gives
\* back is not in force on the way there either.
DormantStaysOff ==
    [][op.pc = "restore" /\ op.own /\ op' # op => \A s \in Services \ blurred :
        os'[s] # os[s] /\ InForce(os'[s]) /\ ~Ours(os'[s]) => InForce(users[s])]_<<os, op>>
=============================================================================
