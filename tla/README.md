# Verification of clash-qt

clash-qt is a Qt desktop manager for the mihomo proxy core. It generates a
configuration from a subscription profile, validates it, runs the core as a
child process or through a privileged helper, talks to the core's controller
over HTTP and web sockets, and switches the operating system's proxy settings.
This directory holds TLA+ models of the parts of it in which the order of
events matters, the TLC configurations that check them on small instances, and
TLAPS proofs of what matters most for instances of any size.

Paths below are relative to `src/src/`.

## The system

Nearly everything runs on the GUI thread as slots of Qt signals, so an *event*
(a user command, a timer, a child's exit, a network reply, a finished worker) is
atomic with respect to the others. Concurrency enters by what happens between
the events: child processes, replies on their way, worker threads that write
files or run commands, and the privileged helper, which is another process.

| Part | State it keeps | Operations | Talks to |
|---|---|---|---|
| Core process supervisor (`core/process`) | the child, the retiring child, the validator and killed validators, the waiting launch, the readiness timer and probe, the generation, the service flags | `start`, `stop`, `restart`, child and validator exits, probe, deadline | children; service client; `main.cpp` by signals |
| Privileged service client (`platform/service`) | socket, active request, queue, closing flag, deadline | `startCore`, `stopCore`, `requestStatus`, `requestLogs`, `close` | helper by socket; supervisor by signals |
| Privileged helper (`service/macos_helper.mm`) | the core, the lease, up to eight connections | start, stop, status, logs, lease end | client |
| Profile store (`core/profile`) | index, profile files, write queue, downloads, generation counters, maintenance and shutdown flags | import, create, save, refresh, select, rename, remove, generate | workers; enhancer; `main.cpp` |
| Configuration enhancer (`core/enhance`) | chain, its files, write queue | add, save, move, enable, remove, apply | workers; profile store |
| System proxy service and settings (`platform/proxy`) | active job, queued change, restore and refresh flags; the original and owned snapshots | `setEnabled`, `restoreOwned`, `refresh`, `shutdown`; `enable`, `disable` | worker; operating system |
| Controller client (`core/mihomo_client`) | endpoint and request epochs, connected flag, TUN change, four streams | requests, replies, TUN read, patch and confirm, reconnects | core's controller; pages |
| Provider client (`core/provider_client`) | epoch, pending operations | fetch, update, health check | core's controller |
| Backup store and page (`core/backup_store`, `ui/backup_page`) | worker thread, two permissions, staged directories | create, import, export, restore, WebDAV | supervisor, profile store, enhancer |
| Application shell (`main.cpp`) | generated snapshots, reload timer, quit flags | prune, reload, quit sequence | everything |
| Service installer and settings page (`platform/service`, `ui/service_settings`) | installed, busy, inspection epoch; probe and retries | check, install, remove, switch the mode | helper's files; supervisor |
| Traffic history and the pages (`core/traffic_history`, `ui`) | samples, histories and views that are drawn late | stream messages, timers, show and hide, filters | controller and provider client |
| Others | | hotkeys, autostart, tray, themes | |

What makes each of them correct, in a sentence:

- *Supervisor*: one core at a time; only the newest command is ever launched;
  a running core survives a rejected replacement; `Stopped` and `Failed` mean
  that nothing is left; every stop is answered; `Starting` and `Stopping` end.
- *Service client and helper*: no request is forgotten, an answer is given to
  the request it belongs to, and a privileged core never outlives what the
  application knows of it.
- *Profile store, enhancer*: no worker's result replaces a newer change; the
  configuration that is launched is made of the newest inputs.
- *Proxy*: jobs run one at a time, the last command wins, a shutdown ends with a
  restore, foreign settings are not overwritten, the user's settings not lost.
- *Controller client*: no reply of an earlier endpoint is shown as the present
  one's; a TUN change ends with one report of the confirmed state.
- *Backup*: either all of the five roots are replaced or none, and nobody writes meanwhile.
- *Shell*: quitting ends, and ends with the proxy restored and the core stopped.
- *Service page*: what it says of the installation is true, and the service is
  only replaced while no core runs.
- *Pages*: what is drawn is what was last reported, whatever was hidden, delayed
  or filtered; histories lose only what their limits say.

The hard behaviours are listed one by one, at the line where each bites, in
`PROJECT.json` under `hazards`, with the properties that cover them.

## Modules

| Module | Models |
|---|---|
| `CoreOps` | the member functions of `core::CoreProcess` as operators on a record of its fields |
| `CoreProcess` | the supervisor with child processes: one action per event handler |
| `CoreContract` | what the supervisor promises, abstractly |
| `CoreProcessProofs` | proofs about `CoreProcess`, and that it implements `CoreContract` |
| `ServiceClientOps` | the service client and the supervisor's slots, run on an explicit call stack |
| `ServiceSession` | supervisor, client and helper joined by a socket |
| `ServiceSessionProofs` | proofs about `ServiceSession` |
| `ProfileStoreOps` | the member functions of `core::ProfileStore` that handlers share, on a record of its fields |
| `ProfileStore` | the store's calls, its two workers, downloads, and the disk |
| `ProfileStoreProofs` | proofs about `ProfileStore` |
| `ProxyJobs` | the requests that the next two modules share |
| `ProxyService` | `platform::SystemProxyService`: the queue of proxy commands |
| `SystemProxy` | `platform::SystemProxy`: what one job does to the operating system's settings, and the two snapshots |
| `ProxyProofs` | proofs about `ProxyService` and `SystemProxy` |
| `MCSystemProxy` | `SystemProxy` with its symmetries, for TLC |
| `Controller` | `core::MihomoClient`, its streams, `core::ProviderClient` and the TUN switch, against controllers |
| `Shell` | `main.cpp`, `core::BackupStore` with its worker, `ui::BackupPage`: reloads, restores, quitting |
| `Enhancer` | `core::ConfigEnhancer`, `applyChain()` with its watchdog, the dialog of `ui::ChainEditor` |
| `Pages` | five pages that draw late, and `core::TrafficHistory` |
| `ServiceSettings` | `platform::PrivilegedServiceInstaller` and `ui::ServiceSettings` |
| `MCPages` | `Pages` or `ServiceSettings`, one page at a time, for TLC |
| `PagesProofs` | proofs about `Pages` and `ServiceSettings`, as `MCPages` joins them |
| `ControllerProofs` | proofs about `Controller` |
| `ShellProofs` | proofs about `Shell` |
| `EnhancerProofs` | proofs about `Enhancer` |

### CoreOps and CoreProcess

The record `core` has a field per data member (`pendingLaunch_` is
`pendingLaunch`, and so on). A call of `start()` is numbered, and the number
stands for the configuration path, the validator, the core and the endpoint of
that call; 0 is null. A member function is an operator from record to record,
and a function that calls another applies its operator, so every action performs
the whole handler: `Fail` cancels the validation, stops the timer, aborts the
probe and runs `terminateProcess()` and `finishStop()` exactly as `fail()` does.
What a handler emits is collected in `sig`.

Abstracted: the text of messages and logs, the two deadlines (one action,
`ProbeDeadline`, that may occur whenever the timer fires), the content of
configurations (`LaunchOutcome` says whether the core could be executed and
whether its configuration names a controller), the three-second `kill()` (a
retiring child exits at some time). `restart()` is `start()` with the last paths.

The code guards at several lines against a slot that calls `start()` or `stop()`
from inside an emission (`if (validation_ != validation) return`). No slot of this
program does: they update widgets, or defer what they do by a timer of zero
seconds. Such calls are therefore not modelled.

`phantom` is a history variable, not a field: it marks the behaviours that start
with the defect that `CoreProcessPhantom.cfg` shows, so that the properties the
defect breaks can still be checked in all others.

### ServiceClientOps and ServiceSession

In service mode the client calls the supervisor's slots and they call the client
back, all in one event: `failRequests()` emits `requestFinished` for each
request, the slot launches or stops, and that enqueues a request on the client
that is still failing. An event is therefore run on an *agenda*, the C++ call
stack: `Call` performs the first item and puts what it calls in front of the
rest, and `Run` makes calls until the agenda is empty. `Session` holds the two
objects, the agenda, and how an attempt to connect made in this event turns out
(at once, refused, or later). `Run` makes at most `MaxCalls` calls, and an event
that needed more would be left out; with 24, as the configurations have it, none
is: 12 already give the same states.

The helper's `serve()` loop takes one step at a time: it notices a closed
connection (and ends the lease and its core) before it accepts a new one, as the
order in its loop guarantees. It may drop a connection at any time, and it need
never answer.

Abstracted: frames (one request and one answer travel at a time, because the
client sends the next request only after an answer); ids, size limits and
malformed frames (their effect is that of the deadline: `failConnection()`);
log requests (they change nothing but the log); other users' connections to the
helper.

`overlapped` marks the behaviours in which the supervisor has come to count on a
core, and not to be stopping it, while a stop is still queued or unanswered; the
run `service_orphan` shows what goes wrong in them. In all others
`NoOrphan` allows the helper's core to be unknown to the supervisor only while
the helper has not noticed the end of its connection.

### ProfileStoreOps and ProfileStore

The record `store` has the fields of the object, `disk` is the data directory:
the index, one file per profile, and the generated configurations. The code runs
on the GUI thread, so a call or a slot is one action. The writer and the
generator are threads of a pool: `PrepareWrite` ends at the writer's last look at
its cancellation flag, `CommitWrite` is the rename that follows, and between the
two any call may set the flag, which is what makes the store hard. The
generator has a step per file it reads or writes. `FinishCreation`,
`FinishUpdate` and `FinishRuntime` are the slots of the finished watchers, with
everything they call: appending, `save()`, the answer to the editor, the start
of the next write or generation.

Abstracted: contents are model values, a subscription's being its URL, so that
"the response of the old URL" is visible; whether contents are valid, a file can
be written or an answer is an error is a choice. A generation number and the
shared flag captured with it change together and are one flag. What else goes
into the runtime configuration (overrides, chain, the profile's name) is one
value, `settings`, that changes with each of them; two values suffice, because
what is compared is the value of the generation that runs and that of now, and
every change in between cancels that generation. `save()` may fail
(`MaxSaveFailures`). The controller's secret, which the first generation makes
and saves, is a flag.

Left out: the subscription's quota and the update interval's clock
(`RefreshDueProfiles` may happen at any time), the recovery of a corrupt index,
`setEnhancer()`, the order of independent signals.

History variables: `handed` are the generated files announced, `leftover` those
a crash left (their names are gone with the process), `confirmed` what was
reported as saved, `lost` the profiles whose index could not be saved after
their file was touched, `tainted` those whose file was written by a write that
had been cancelled: the defect of `ProfileOldResponse.cfg` makes the file differ
from what the store believes, and the properties it would break are stated for
the other profiles.

### ProxyService

Its initial state, steps and specification are called `QueueInit`, `QueueNext` and
`QueueSpec`, so that one module can prove things of it and of `SystemProxy`.
The record `service` has the fields of the object but for the cached state of
the operating system, which the queue never reads. `ProcessNext` is
`processNext()`; every call and the end of every delivery applies it. While the
end of a job is delivered the slots of its signals may call the service, so a
delivery is a state: `Deliver` is the head of the watcher's slot, then calls may
come, `ReportShutdown` emits `shutdownFinished` where the slot does, calls may
come again, `EndDelivery` is the slot's last two lines. A job may end at any
time, with any result; what it does to the system is not modelled here.

`last` is the last command started, `intent` the last one accepted, `overtaken`
marks the situation of the divergence in `ProxyServiceIntent.cfg`.

### SystemProxy

The other half of the same job: `SystemProxyService::execute()` and the static
functions it calls, on macOS. `os` holds the settings of every network service,
`owned` and `original` are the two snapshots, `op` is the running job with its
program counter and the locals of `enable()` and `restore()`. Jobs come one at a
time in any order, which is what `ProxyService` guarantees and all it
guarantees; that is why the two are not multiplied. Each `networksetup` command
that writes is a step, which may fail before or after its effect (a command that
exceeds its deadline is killed); reading a snapshot is one step. `Capture`,
`Apply`, `ReadBack`, `RestoreField`, `Reown` follow `enable()` through its two
rollbacks; `Check`, `RestoreField`, `Reown` are `restoreOwned()`, called by a
restore, a disable, or an enable that finds another service still owned; `Finish`
is `SystemProxy::state()` and the judgement in `execute()`. In between, others
change settings (`Change`, any set of fields) and the default route (`Route`).

A service has an endpoint, `end`, a switch, `on`, and `auto`. The command that assigns an
endpoint also switches it on (`Assigned`), as the code's comment says. `restore()`
therefore takes three steps of `RestoreField`: it assigns the endpoint, then
sets the switch, then `auto`, and each is tried whatever failed before it. A dormant
endpoint is on between the first two, and stays on when the second fails; the code then
keeps what is there as owned. An empty endpoint has no command: the one that is there
stays.

Abstracted: the endpoints of the three protocols and the bypass list are one
endpoint, with one switch; PAC and discovery are one, `auto`, which the application
only switches. A configuration that is refused and a platform without support end like
an unreadable capture.

`users` is what others set last, field by field. `blurred` are the services for
which nobody could tell their changes from ours: a change during a job, one that
leaves a mixture with our endpoint, one while the application owns settings
without its endpoint (after a restore that failed half-way), and an unreadable
snapshot after a failed rollback, of which the code itself says that it cannot
restore safely. The properties are stated for the other services; what goes
wrong in a mixture is shown by `SystemProxyCaptured.cfg`.

### Controller

`app` holds the client's members, the requests on their way (`net`), the streams
and what the pages were told. The C++ guards every reply with `isCurrentReply()`:
an endpoint epoch, a request epoch and, for TUN, `tunChangeId_`. Since a change of
an epoch also aborts the replies, and `abort()` runs their slots inside the call,
where they find the epoch changed and return, `Supersede` takes them out of `net`;
the mutant leaves them there and marks them `old`. `tunChangeId_` does not abort
anything, so it stays visible, as the mark `fresh` on each request. `RequestTunChange`, `TunReadArrives`, `TunPatchArrives` and
`TunConfirmArrives` are the three requests of a TUN change, each with its failure;
`FinishTun`, `Publish` and `SetConnected` are the functions they share. The
controllers (`up`, `tunState`, `wire`) answer late, not at all, or with the state
unchanged; they stop and start. A request whose controller is gone fails; others
fail only within `MaxEvents`.

Abstracted: contents but for the TUN state, an invalid answer (a failure), backoff
times, the text of errors. `applied` records the TUN state that the last
finished change was said to have made, and for how long the client may rely on it:
a PATCH whose reply timed out may still reach the controller, even between the
reading that confirms a later change and its arrival, and the client cannot know.
When that happens `applied` is `late` and nothing is promised of that change.
PATCHes of the same value on their way to one controller count as one.

Left out: a delay test and the closing of connections (they change no state of
the client), the other three of `RoutingControls`' controls.

### Shell

The components of the application as `main.cpp` joins them, each reduced to what
it promises here: the core's states with the launch that waits, the stores' writes
and generation with maintenance, the proxy as `owned`. `quit` are the local
variables of `main()`; `FinishQuit` is `finishQuit()`, called wherever the code
calls it. `backup` and `worker` are the two sides of `BackupStore`:
`runAsync()` begins maintenance and starts a thread, which waits for one semaphore
until the stores are idle (`preparation`) and, in a restore, for another until the
core has stopped (`permission`); `cancelAsync()` releases both. The worker's
signals are queued (`posted`). `ReplaceRoot` is one iteration of the loop in
`restoreLocal()`, the rename aside and the rename into place, either of which may
fail; `Rollback` undoes what was done as far as each of its own renames works
(`stuck` are those that do not). The roots are replaced in any order, one step at
a time.

A store's write may fail, which asks for nothing, though a generation that its beginning
cancelled stays cancelled; one that succeeds, in the store or the enhancer, cancels
the generation and asks for another. A generation may fail, and the user is told.
`stale` is history: the core runs what was active
before a change, and no failure of a generation has been shown since.

Abstracted: archives and their checks (a choice), WebDAV (a transfer that ends
well or not), the snapshot's last deletion job, whose thread `finishQuit()`
waits for. There always is an active profile: a reload that finds none and stops the core
(`main.cpp:143`) is left out. A user acts or a core dies at most
`MaxActions` times; quitting is not counted.

### Enhancer

The chain, its files, `chain.json`, the write queue, the dialog, and one
generation. As in the profile store, `WorkerPrepares` ends at the writer's last
look at its cancellation flag and `WorkerCommits` is the rename. A source is
known by a version and by how it behaves: `well`, `wrong`, or `endless`, which
only the watchdog ends. The watchdog is a thread of its own: it fires at the
deadline or on cancellation, at any moment while the script runs, and
`ScriptReturns` joins it. `applyChain()` works on the chain as it was when
the generation began but reads each step's file when it comes to it.

The dialog can be left at any time: while it saves its buttons are disabled, but Escape
and the window's close button still reject it. Opened again on the same step, it can ask
for a save while the earlier one is unanswered, and since it knows a save by its step
alone, it takes the answer to the first for its own. `SaveIsOnDisk` promises the
dialog's own text only where that is not so; `asked` (the number of the save it waits
for) and `behind` (whether an earlier one of the step was still unanswered) are the
history by which it is told, and `EnhancerReopened.cfg` shows what happens otherwise.

Left out: the reports of each step, what merging does to a configuration, and the
synchronous `saveItemContent()` and `importItem()`, which only tests call.
`acked` is the version of each step whose save was last confirmed.

### Pages, ServiceSettings and MCPages

The pages that keep something between two messages are modelled with their caches,
dirty flags and timers: a page that is hidden notes what is out of date; a visible
one starts a timer, and some calls (a tab, a sort order) draw at once.
`ConnectionsPage` computes which connections ended from two snapshots and keeps at
most `HistoryLimit` of them; `LogsPage` trims its entries and its view separately;
`TrafficHistory` drops what is older than `Retention` or more than `MaxSamples`, and
the graph pauses on a copy. What a page ought to show is computed from the data
beside it (`Wanted`, `NodesOf`, `VisibleLogs`) or from a history without limits
(`all`, `ended`). The loops that pick elements from a list are one recursive
function, `Only`: the prover knows nothing of `SelectSeq`. `PagesAssumption` says
what the constants may be: the limits of the histories are positive, the log's
view is no larger than its entries, and no span of the graph exceeds the retention, all of
which the code's numbers are. `update all` of the providers is several operations;
of a reply it is only told whether it was the last.

`ServiceSettings` has the installer (`busy_`, `installed_`, `refreshEpoch_`, kept as
the mark `latest` on each inspection), its authorized run on a worker thread in the
order of its steps (what the helper did is inspected twice: to judge it, `MatchResult`,
and to report what there is, `ReadResult`), a helper that was given up at its deadline and may still change
files later (`late`, one at a time), the page with its probe, retries and question
box, and as much of the managed core as the buttons depend on.

The pages share no state, so `MCPages` chooses one at the start of each behaviour;
the product would only multiply. Left out: rates, columns, selection, drawing, the
floating-point averages, saving a log, and a default proxy override.

## What each run checks

Deadlock is checked in the run `controller`, where something can always happen.
The others leave it unchecked: with the bounds on commands used up, or the
application at its end, and with nothing running, the system rightly stops.

Where several invariants concern the same hazard they are checked as one named
conjunction: `Safety`, `Files`, `Queue`, `ForeignSettingsAreKept`, `FilesAreSafe`.

| Run | Bounds | Shows |
|---|---|---|
| `core_process` | 4 starts, 2 stops | the supervisor is safe, implements `CoreContract`, answers stops and ends transitions |
| `service_session` | 3 starts, 1 stop, queue of 8, 24 calls in an event | no request and no privileged core is lost; stops are answered with any helper, however silent |
| `service_orphan` | 2 starts, 1 stop | finding: a core that outlives a confirmed stop |
| `profile_files` | 2 uids, 2 URLs, 2 edits, 4 calls, 1 failing save, 1 crash | lists, files and answered saves agree; an idle store leaves the disk alone |
| `profile_runtime` | 2 uids, 1 URL, 1 edit, 3 calls, 2 generations, 1 failing save | what is announced is current, nothing leaks, nothing is left waiting, quitting drains the store, every save is answered |
| `proxy_service` | 2 configurations; no other bound | nothing waits in vain, the latest command prevails, a shutdown ends with a restore |
| `proxy_settings` | 2 services, 2 configurations, 1 foreign endpoint, 2 failures, 1 change by others; any number of jobs | our endpoint, and a switch that could not be put off again, are in force only where they can be taken back; a restore gives back what was there and drops its snapshots only then |
| `controller` | 2 controllers, one with TUN on, 2 streams, 1 list, 2 calls and failures; any number of polls | no page shows what is old, the TUN switch is true, TUN changes end, connection and streams return |
| `shell` | 2 roots, 2 snapshots, 3 actions and failures of the core; any failing renames | backups have the files to themselves and restore all or nothing; quitting ends and ends clean |
| `shell_reload` | 1 root, 2 snapshots, 3 actions | finding: a change that never reaches the running core |
| `enhancer` | 2 steps, one a script, 3 calls, 1 generation, 1 failing save | chain, index and files agree; saves and generations are answered truly and end, whatever the dialog does and the scripts do |
| `pages` | 4 connections with a history of 2, 2 groups in 2 revisions, 2 rates, 5 ticks of the clock, 2 retries, 4 clicks | what is shown is current, histories keep what they should, the service page is right |

Why the bounds are enough: the fields distinguish at most one current, one
retiring and one waiting request and a set of killed validators, so three
requests in flight and a fourth to supersede them reach every combination; a
second stop is the one that meets the effects of the first. For the
child-process mode the proofs remove the bound altogether. The service session
multiplies this with the states of a socket, and one stop between three starts
is what its checked runs afford.

The profile store runs one write and one generation; a defect takes one of them,
a call that interferes, and a call that makes the difference visible. Four calls
with two profiles let a write run, another wait behind it, and two further calls
cancel, remove or replace; three calls with two generations let a superseded
generation end while its successor waits. Uids are model values and are handed
out once each, so a removed profile is never confused with a new one. The proxy
service has no counters: its state space is finite, and two configurations are
enough for the only comparison it makes. In `SystemProxy` two failures make a
rollback or a restore fail and its snapshot unreadable, and one change makes a
mixed state; jobs and the order of their steps are not bounded (3.4 million states), and
the proofs remove all of these bounds. In `enhancer` three calls are a save, a second
save and what interferes with them.

In `controller` the two bounded events are one user's call and one failure, or two
calls, one of which changes the controller; with polls without bound that is
what a stale answer takes: a request under way, something that outdates it, and the
state in which it would show. `ControllerProofs` removes these bounds for the safety
properties; one controller without streams and five events, which it takes for
a PATCH to come late after a second change, also passes (5.1 million states). Three actions in `shell` are an edit or start, a
backup and the user's or the core's interference; quitting comes on top of them at
every moment. Two roots let one be installed and the other fail, with any part of
the rollback failing too; five differ by repetition only. The limits in `pages`
(500 connections, 5000 lines, 15 minutes) are scaled to 2 to 5, so that each is
reached and passed within the clock and the ids there are.

### Fairness

Weak fairness is assumed only of what the operating system or Qt guarantees: a
killed or terminated child exits (`kill()` follows `terminate()` after three
seconds), a validator ends or is timed out after 15 seconds, a parse ends, an
armed timer fires and the deadlines it tests are finite, data that has arrived
is read; the threads of the pool run, the end of a worker is delivered, a slot
returns, the proxy commands end (each has a deadline of five seconds). In
`Controller` the poll timer and the retry timers fire, an attempt to connect ends,
each request ends (it has a transfer time limit), and a controller that runs
handles what it was sent; one that has stopped need not come back. In
`Shell` children exit, transfers end, the worker thread runs and a warning is
closed by the user; in `Enhancer` and `ServiceSettings` threads run, scripts that
end do end, and a probe has its limit. Nothing
is assumed of the core (it need never answer a probe), of the
helper (it need never do anything) or of the user.

### Findings

1. `service_orphan`: a launch queued behind an old stop takes that stop's answer
   for its own end. The core it then starts is not known to the supervisor, and
   a later `stop()` is confirmed while it runs.
2. `shell_reload`: an edit of the active profile asks for a new configuration; a
   backup that begins while it is generated cancels the generation, and nothing
   asks again when the backup ends. The core runs on the old configuration,
   although the program's `README.md` says an edit regenerates it.

### Known divergences without a run of their own

These were found in the same way. The property and the configuration that violates
it stay beside the model, e.g. `tlc -config CoreProcessPhantom.cfg CoreProcess`:

- `CoreProcessPhantom.cfg`, `ReadyCoreIsAlive`: `start()` retires a core that is
  still starting without stopping its readiness timer and probe. When that core
  has exited and the replacement is being validated, the state is `Starting`
  again, so a late answer to the old probe makes the state `Running` with the
  endpoint of a dead core, and cancels nothing. The same defect lets the old
  core's readiness deadline fail the new start.
- `ServiceSessionExited.cfg`, `StopConfirmedMeansExited`: `stop()` with the start
  request outstanding, then a failed connection: the failed start is reported
  first, and its slot confirms the stop although the helper still runs the core.
  A neighbour: `start()` over a start that is still queued emits
  `stopFinished(true)` although nobody called `stop()`; in `main.cpp` any
  `stopFinished` marks the core as stopped.
- `ProfileOldResponse.cfg`, `OldResponseNeverCached`: a refresh past its last look
  at the cancellation flag commits after `setSubscriptionUrl()` has cancelled it,
  changed the URL and returned, so the response of the old subscription replaces
  the cache, which a comment there says must not happen. In the same way the file
  of a removed profile can come back, and no handler removes it again.
- `ProxyServiceIntent.cfg`, `LatestIntentWins`: enable, `restoreOwned()`, and the
  same enable again while the first still runs: the last call only drops a queued
  *change*, so the restore runs last.
- `SystemProxyCaptured.cfg`, `CapturedIsUsers`: a second `enable()` after another
  program has changed one field captures everything again, our own endpoint
  included, as the user's settings; restoring them at quit leaves the system with
  the endpoint of a core that is gone. A failed rollback whose snapshot cannot be
  read, followed by another `enable()`, ends in the same way. (Run it, and the next, with
  the module `MCSystemProxy`.)
- `SystemProxyDormant.cfg`, `DormantStaysOff`: to give back a proxy that was off but had an
  endpoint, `restore()` first assigns the endpoint, which switches it on, and then
  puts the switch off. In between, and after the second command has failed, the
  system uses an endpoint that its user had switched off.
- `EnhancerReopened.cfg`, `OwnSaveIsOnDisk`: save a step, leave the dialog with Escape, open
  it again, and save again before the first save is answered: the first answer closes
  the second dialog as saved, with the first text on disk. The second write can still
  fail or be cancelled, and nobody is left to tell.
- `ControllerWaiting.cfg`, `ConfigArrives`: when the one read of `/configs` after
  a connection fails, it is not repeated while the client stays connected, and the
  TUN switch goes on "Waiting for a connected core's configuration."
  (`ui/routing_controls.cpp:101`).

And, seen while modelling, in the state graphs of the checked runs:

- a restore whose stop of the core ends in `Failed` is never released
  (`ui/backup_page.cpp:179` waits for `stopped` only) until the user cancels or
  quits: the exception in `BackupEnds`;
- `ConfigEnhancer::removeItem()` cannot hold up a write past its last look at the
  flag, so the removed step's file comes back as an orphan, although
  `ui/chain_editor.cpp:215` says "Its file is deleted as well.";
- after a removal of the service that could not be confirmed, or was done by
  somebody else, the saved `useService` stays on while its checkbox is disabled
  (`ui/service_settings.cpp:166`).

## What is proved

`CoreProcessProofs` proves, for all `MaxStarts` and
`MaxStops` in `Nat` (`BoundsAssumption`, the only assumption):

- `TypeCorrect`, `AtMostOneCore`, `SettledLeavesNothing`, `SnapshotsAreKept`:
  the invariants `TypeOK`, `OneCore`, `SettledIsQuiet`, `LiveConfigsAreActive`, and
  `CoreIsSafe` their conjunction `Safety`;
- the action properties: `LaunchesAreCurrent` (`OnlyNewestIsLaunched`),
  `RejectionSparesTheCore` (`RunningSurvivesRejection`), `StopsAreAnsweredOnce`
  (`StopFinishedAnswersStop`) and `ReadyCoresHaveAnswered` (`ReadyOnOwnAnswer`);
- `KeepsContract`: `CoreProcess` implements `CoreContract`, a request's launch,
  the live core and its readiness being the refinement mapping.

None of the supervisor's invariants is inductive. `IInv`, at the end of `CoreProcess`, is: it
says which pointer owns which child (`CoresOwned`, `ValidatorsOwned`), that what
is validated or waits to be launched is the newest request and has not been
launched (`RequestsCurrent`), and, between events, that pointers name live
children, that a launch waits only behind a retiring core, and that a settled
object is empty (`Resting`). A handler breaks `Resting` half-way, so the lemmas
are about the member functions: `Sound` (the first four conjuncts) holds at
every point of a handler, and each function that ends a handler restores
`Resting`. `NextRests` then goes through the actions once. The refinement needs
one more invariant, `StartingIsNewest`: a child that is starting belongs to the
newest command, or nothing is wanted. What is answered needs another, `AnswersKept`:
a probe asks the child that is the process (`Probing`), and where `finishStop()`
would report a stop that nobody waits for, a validation, a launch or a core comes
first, or the core was a phantom (`StopsExplained`). It is proved function by
function as well; `Truthful` says what a function owes whoever called it.

`ProxyProofs` proves for every set of configurations (and a `NoJob` that is
none of the requests, `NoJobAssumption`) all the safety properties of
`ProxyService`: `QueueTypeCorrect`, `NothingLeftWaiting`, `LatestPrevails` and
`RestoresLast`, together `CommandsAreKept`. They become inductive together with `Consistent`. Every
handler changes the queue and ends with `processNext()`; `Midway` is the
invariant before that call, when something may wait unserved, and `HandlerEnds`
shows that the call restores `QueueIInv` from it, so that each action only has to
establish `Midway`.

It also proves everything the run `proxy_settings` checks of `SystemProxy`, for any
services and endpoints and any number of failures and changes
(`ConstantsAreDistinct`: the special values differ, the bounds are in `Nat`):
`TypeCorrect`, `OursCanBeTakenBack`, `RestoreIsTrue` (together `SettingsAreSafe`),
`OnlyGivesBack` and `CredentialsAreSafe` (together `OthersAreKept`). The properties speak of the moments between two jobs, so
the inductive invariant `IInv`, at the end of `SystemProxy`, has to say what
holds within one: while nothing is written every service is `Settled`
(`RestIsSettled`); while `enable()` writes, its two rollbacks could still put
back what it found (`WritingIsUndoable`); while `restoreOwned()` writes, what it
captured is what the user had (`ReturningIsKnown`); an `enable()` that restores
another service first still knows its own as it was (`CaptureHolds`). One subtle
part is the empty endpoint, which `networksetup` cannot write: a service without
one is only ever left that way, never restored to it. Another is the switch: within a
restore the settings are neither ours nor the user's, so `IInv` says what `restore()` has
written so far if nothing failed (`Written`), from which the last step concludes that
all is given back when the snapshots are dropped. `OthersLeftAlone` is stated field by
field for the same reason: an endpoint or `auto` changes only to what its user had set, the
switch too except with the endpoint's own command, and snapshots are dropped only when
the whole is as the user left it. Where a restore failed, what the application keeps as
its own may lack its endpoint; `Refound` says that it finds such settings again.
There is one lemma per action; `ReturnHolds` and `ApplyStarts` are shared by all that end a call or go
on to write. TLC confirms `IInv` under the constants of `MCSystemProxy.cfg`.

`PagesProofs` proves `InstallationIsTrue` for any number of retries and
clicks (`RetriesAssumption`) and of inspections that overlap: the page's
`InstallationIsKnown`, with its types, that the installer is busy exactly while
there is a run, that files are replaced only while no core runs or is about
to, and that what is known is what is on disk once nothing is under way. It is not
inductive: what is known later comes from an inspection that has already looked, or
a run that has read its result. `ServiceIInv` adds `LatestIsTrue` (the latest
inspection, if it has looked, saw what is installed, and there is none while the
installer is busy) and `ResultIsTrue`. The files change only in a run, which makes
every inspection outdated when it begins, or by a helper that was given up, after
which `late` is `done` until the next inspection. `TypesKept` goes through the
actions for the types; of the rest there is one lemma for each group of actions
that touches what is known, and `Untouched` for all others.

It also proves `PagesShowWhatIsKnown` (`ShownIsCurrent`) and `PagesForgetNothingNeeded`
(`HistoriesAreWhole`) of the other five pages, for any ids, groups, revisions, limits,
spans, rates and clock. `PagesIInv`, at the end of `Pages`, has a part for each page. For
those that draw late it is the protocol of marks and timers: what is not marked is
drawn, a mark on a visible page has a timer ahead, and groups that changed leave the
nodes marked too. For the connections it adds that an id that ended is not used again,
from which the history's length is the number of those that ended, up to its limit
(Qt's hash order leaves open which of several that ended at once are dropped). For the
logs it is that the view is what passes of the entries, which an appended line keeps because
the end of a longer list is that of its end (`NewestAppend`, `OnlyAppend`). For the traffic
graph it is that the samples are in the order of their time and the history is
their end, as long as it may be or up to a sample that has expired (`HistoryKept`); of
samples in order, those that have not expired are an end of the list
(`RecentIs`), so what is dropped is before every span (`SnapshotWhole`). TLC confirms
`PagesIInv` under the constants of `MCPages.cfg`.

`ControllerProofs` proves both safety properties of `Controller` for any
controllers, streams and lists (`StreamAssumption`, `ListAssumption`: they are
among those the code has) and any number of calls and failures. `PagesAreCurrent`
is `NothingOldIsShown`: with types, `IInv` adds that every reply still awaited is of
the present controller and epoch (`Awaited`), for a page is filled from one of them.
There is one lemma per member function; the one about `SetEndpoint()` is where
nothing of the old state may survive. `SwitchIsTrue` is `Safety`, from `TunInv`:
at most one step of a change is awaited, exactly while the change is pending, of a
client that is connected (`Switch`); what such a step has read is so unless a PATCH
came late, and while what was said of a change stands, every fresh reading says the
same (`Told`). Most actions are `Calm`, leaving changes and readings alone, or leave
the client `Idle`, of which nothing is said; `StepSent` and `ChangeEnds` are shared
by the three steps of a change. TLC confirms `IInv` and `TunInv` under the constants
of `Controller.cfg`.

`ShellProofs` proves `FilesAreSafe` and `QuitIsClean` (`BackupsAreSafe`, `EndIsClean`)
and the action property `QuitCancelsRestore` (`QuitPrevents`) for any roots, settings
and snapshots and any number of actions. Neither invariant is inductive. That a restore
replaces files on a core that stays down rests on what the two sides of `BackupStore`
know of each other: `BackupKept` relates the page's flags to the phase of the worker's
thread, signal by signal (what is `posted` and not yet delivered, whether the
permission is given, that maintenance lasts as long as the thread), `CoreKept` says that a
core that is down has nothing to launch, and `QuitKept` what is true of each stage of
`finishQuit()`, which any event may re-enter: a quit cancels the operation under way,
starts none, and is approved only when stores, core and worker are through. For the
files, `Undoable` says of the middle of a restore that what is installed has its
original aside and the rest is untouched; a rollback then leaves what
`RestoreIsAllOrNothing` allows, whichever of its renames fail. `Kept` is stated of a
record, so that each member function has one lemma, that it keeps `Kept`, and each
action follows from those of the functions it calls. TLC confirms `IInv` under the
constants of `Shell.cfg`.

`EnhancerProofs` proves all the safety properties of `Enhancer` for any steps, scripts,
behaviours and number of calls: `ChainIsSafe` (`Safety`), `ReportedSavesAreOnDisk`
(`SaveIsOnDisk`) and `DeliveredIsCurrent` (`DeliveredChainIsCurrent`). What is hard is
that a saved version never goes back. A write that is cancelled may still be renamed into
place, and one for the same step may wait behind it: `QueueKept` says that of two
requests for one step neither creates it and the later one is newer, and that none is
older than what was confirmed (`acked`); `FilesKept` that a listed step's file exists and
is no older either, and that a write that has ended well is on disk. A generation works on
the chain as it was while the chain goes on changing: `RunKept` says that, unless it
is cancelled, its chain is the present one and it has an outcome for exactly the
enabled steps it has passed, in order (`Tried`). `TriedTheChain` follows when the run
has passed them all. Again there is one lemma per member function; `startNextWrite()`
and the write's slot, which runs it before and after reporting, are where `Served`
(nothing waits without a write) is restored. That a dialog hears of its own save, though it
knows only the step, is `DialogKept`: unless it asked behind another, the saves of its step
that are not answered are all its own. It survives a handler because none adds a
save to those pending and each leaves the dialog alone or no longer waiting
(`Settles`). TLC confirms `IInv` under the constants of
`Enhancer.cfg`.

`ServiceSessionProofs` proves `SessionTypeCorrect`, `SessionSafe` (`Safety`) and the action
property `ConfirmedStopIsReal` (`ConfirmedStopLeavesNoCore`) for any number of starts and
stops, any bound of the queue and any bound `MaxCalls` of an event (`QueueAssumption`,
`BoundsAssumption`). Between two events `IInv` adds to `Safety` what the two queues of the
connection hold: what the socket carries belongs to the active request
(`SocketMatches`); unless a launch has overlapped a stop, a start under way is the only
one, the supervisor counts the core it will launch and the helper runs no other by the time it
reads it (`StartsMatch`), and an answer that has been sent tells what became of the
core (`AnswersMatch`). Nearly all of this is false in the middle of an event, so the
proof is about `Sound`, which holds at every point of one: `Formed` types the session,
`Ordered` says where on the call stack the calls that cut or begin a connection can be,
`Linked` and `Timely` are the parts of `IInv` with the calls still to be made as excuses (a
core may be unknown while its connection is about to be aborted). `Quietly`, `Calling` and
`Halting` say what a function of the supervisor does to the service. Each item of the
agenda has a lemma that its call keeps `Sound` (`CallKeeps` joins them), `RunKeeps` carries it
through the event by induction on the number of calls, and with an empty agenda
`Sound` is `IInv` again. The helper's steps are separate lemmas. The
proof needs `overlapped` to be stated of what the supervisor believes (it counts on a
core and is not stopping it), and showed that `NoOrphan` needs no exception for a stop
that is on its way. TLC confirms `IInv` under the
constants of `ServiceSession.cfg`.

`ProfileStoreProofs` proves all the safety properties of `ProfileStore` for any uids,
URLs and contents and any number of calls, generations, failing saves and crashes
(`BoundsAssumption`, and that the special values are what the code takes them for):
`FilesAgree` (`Files`), `QueueIsKept` (`Queue`), `IdleLeavesTheDisk` (`IdleIsQuiet`),
`SavedContentsAreOnDisk` (`SavedIsOnDisk`) and `AnnouncedIsCurrent`
(`DeliveredIsCurrent`). `IInv`, at the end of `ProfileStore`, is larger than any of
them because the two workers act on what was so when they were started.
`StoreKept` is the invariant of the object alone: profiles are listed once, which is
what makes `removeAt()` at the first index remove the profile (`RemovedFromList`), each
save is owed one answer, what waits can be started, and a worker runs while it does.
`Orderly`, what is left of it inside a slot, holds before `startNextWrite()` and
`prepareRuntime()`, which restore the rest. `RequestsKept` says that a creation is the
only request for its uid, and that nothing lists it yet, so that its file may be
deleted when it fails. `FilesKept` relates memory, index and files, and is exact about
the exceptions: `lost` (the index could not be saved), `tainted` (a cancelled write was
renamed into place all the same) and the one write that has replaced its file and not
yet been reported (`Committed`). `SnapshotsKept` says which generated files a generation
has on disk at each of its stages; `RuntimeKept`, that a generation nobody cancelled has
the selection, the settings and the contents of now. There is one lemma per member
function and one per action; a call that cancels, saves and changes the list has its
effects put together by lemmas on each part of `IInv` that say when it cannot be
disturbed (`RequestsFrame`, `SnapshotsFrame`, `RuntimeFrame`). TLC confirms `IInv`
under the constants of `ProfileFiles.cfg` and `ProfileRuntime.cfg`. Attempting the
proof showed that the file name of a generation, its stage and its failure were tied by
nothing: a failed one is at its end, which `SnapshotsKept` now says.

Every safety invariant and every action property that a run checks is proved. Only
model-checked are the liveness properties (`StopIsAnswered`, `TransitionsEnd`,
`WorkIsAnswered`, `ShutdownFinishes`, `RestoreIsRun`, `TunChangeEnds`, `StreamsReturn`,
`ConnectsAgain`, `QuitEnds`, `BackupEnds`, `WorkEnds`, `ProbingEnds`): TLAPS does not treat
fairness here. The bounds on commands are constants of any size, so the theorems
hold for any number of commands, of which a behaviour has finitely many.

The library's induction theorems take a predicate, which the installed provers cannot
instantiate. `ServiceSessionProofs` and `PagesProofs` need induction all the same, over
the calls of an event and over lists; there the predicate is a set. `NatLess` cites that the
order of the natural numbers is well-founded, `SetInduction` follows from the least
number outside the set, and `SequenceInduction` from that by length.

## Plan

Done: the supervisor with its contract, service client and helper, the profile store,
the proxy, the controller client, the shell with backups, the enhancer, the pages
and the service page. In order of importance, what is left:

1. `HelperLease`: several connections to one helper.
2. Refinements of the parts that `Shell` states as promises: its core by
   `CoreProcess`, its stores by `ProfileStore` and `Enhancer`.

## Not modelled

Parsing and formatting, archives, hashes and WebDAV's requests, the JavaScript engine
of the enhancer, the helper's sanitiser and other calls to the operating system,
hotkeys, autostart and browser launching, the discovery of external controllers,
and what the windows look like: the profiles, settings and home pages, the tray and
the themes keep no state of their own that could be out of step with the
components they show, or it is a text. `PROJECT.json` gives the reason for each
part under `components`.
