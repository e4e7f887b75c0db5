----------------------------- MODULE Controller -----------------------------
(***************************************************************************)
(* core::MihomoClient, its stream sockets, core::ProviderClient and the    *)
(* TUN switch of ui::RoutingControls, against controllers that answer late,*)
(* fail and restart.  A change of epoch aborts the replies, whose slots    *)
(* run inside abort() and drop them, so a reply that is still awaited is   *)
(* of the present epoch; tunChangeId_ is kept as a mark on each reply that *)
(* says whether it is still the one the reply was asked under.             *)
(***************************************************************************)
EXTENDS Naturals

CONSTANTS
    Endpoints,     \* the controllers the client can be pointed at
    Streams,       \* the WebSocket streams that are open
    TunAtStart,    \* those that have TUN enabled at first
    Lists,         \* the lists that are read with every refresh
    MaxEvents      \* bound on calls of the user and failures together

ASSUME StreamAssumption == Streams \subseteq {"traffic", "connections", "logs", "memory"}
ASSUME ListAssumption == Lists \subseteq {"proxies", "rules"}

Tun == {"on", "off"}
Polls == {"version", "proxies", "rules", "configs"}
TunSteps == {"tunRead", "tunPatch", "tunConfirm"}
Operations == {"select", "patch", "geo", "tell"}
ProviderKinds == {"providers", "operate"}
Kinds == Polls \cup TunSteps \cup Operations \cup ProviderKinds

\* reading is the TUN state in the answer ("none" until the controller has
\* read it), and once a PATCH was handled what it asked for; fresh says that
\* tunChangeId_ has not changed, and old that the epoch has.
Request == [kind : Kinds, to : Endpoints, reading : Tun \cup {"none"},
            fresh : BOOLEAN, old : BOOLEAN]

Nothing == [from |-> "nothing", old |-> FALSE]
Panes == {"proxies", "rules", "providers", "connections"}

VARIABLES
    app,        \* the client, its replies and streams, and what is shown
    up,         \* the controllers that run
    tunState,   \* the TUN state of each controller
    wire,       \* PATCHes of TUN that the controller has not handled
    applied,    \* the TUN state that the last change was said to have made,
                \* "late" when a PATCH that was given up came after it began
    events      \* how many of the bounded actions were taken

server == <<up, tunState, wire>>
vars == <<app, server, applied, events>>

Happens == events < MaxEvents /\ events' = events + 1

-----------------------------------------------------------------------------
(* Requests *)

SendAll(s, kinds) ==
    [s EXCEPT !.net = @ \cup [kind : kinds, to : {s.endpoint}, reading : {"none"},
                              fresh : {TRUE}, old : {FALSE}]]

Send(s, kind) == SendAll(s, {kind})

Awaits(s, kinds) == \E r \in s.net : r.kind \in kinds

\* Providers are asked for once at a time.
FetchProviders(s) == IF Awaits(s, {"providers"}) THEN s ELSE Send(s, "providers")

\* The version is the only poll that tells whether the controller is there.
RefreshState(s) == SendAll(s, Lists \cup {"version", "configs"})

\* Mutant: neither epoch nor abort, so that replies of before are applied.
SupersedeNothing(net) == {[r EXCEPT !.old = TRUE] : r \in net}

\* The replies of the MihomoClient end when an epoch does.
Supersede(net) == {r \in net : r.kind \in ProviderKinds}

\* Mutant: the revision is only advanced when a change begins.
FinishTunSameRevision(s, actual) ==
    IF ~s.tunPending THEN s
    ELSE [s EXCEPT !.tunPending = FALSE, !.pending = FALSE, !.tun = actual]

\* The end of a TUN change outdates the configurations read before.
FinishTun(s, actual) ==
    IF ~s.tunPending THEN s
    ELSE [s EXCEPT !.tunPending = FALSE, !.pending = FALSE, !.tun = actual,
                   !.net = {[r EXCEPT !.fresh = FALSE] : r \in @}]

Publish(s, r) == [s EXCEPT !.lastTun = r.reading, !.known = TRUE, !.tun = r.reading]

Show(s, pane, r) == [s EXCEPT !.shown[pane] = [from |-> r.to, old |-> r.old]]

\* Mutant: a TUN change goes on when the controller is lost.
SetConnectedKeepingTun(s, connected) ==
    [s EXCEPT !.connected = connected, !.net = IF connected THEN @ ELSE Supersede(@),
              !.pending = IF connected THEN @ ELSE FALSE]

SetConnected(s, connected) ==
    IF s.connected = connected THEN s
    ELSE IF connected THEN [s EXCEPT !.connected = TRUE]
    ELSE LET t == FinishTun(s, s.lastTun)
         IN [t EXCEPT !.connected = FALSE, !.lastTun = "off", !.net = Supersede(@),
                      !.shown = [p \in Panes |-> IF p = "providers" THEN @[p] ELSE Nothing],
                      !.known = FALSE, !.tun = "off", !.pending = FALSE]

-----------------------------------------------------------------------------
(* Calls *)

StreamRec == [phase : {"connecting", "open", "waiting"}, to : Endpoints]

OpenStream(endpoint) == [phase |-> "connecting", to |-> endpoint]

SetEndpoint(s, e) ==
    IF e = s.endpoint THEN RefreshState(s)
    ELSE LET t == [FinishTun(s, s.lastTun) EXCEPT !.lastTun = "off", !.endpoint = e]
             d == SetConnected([t EXCEPT !.net = Supersede(@)], FALSE)
         IN RefreshState([d EXCEPT
                !.shown = [p \in Panes |-> Nothing], !.known = FALSE, !.tun = "off",
                !.pending = FALSE, !.net = {r \in @ : r.kind \notin ProviderKinds},
                !.streams = [x \in Streams |-> OpenStream(e)]])

CallSetEndpoint(e) ==
    /\ Happens
    /\ app' = SetEndpoint(app, e)
    /\ applied' = IF e = app.endpoint THEN applied ELSE "none"
    /\ UNCHANGED <<server>>

\* The log page opens its stream again when the level changes.
CallOpenStream(x) ==
    /\ Happens
    /\ app' = [app EXCEPT !.streams[x] = OpenStream(app.endpoint)]
    /\ UNCHANGED <<server, applied>>

\* Mutant: the regular poll does not ask for the version.
PollProxies ==
    /\ app' = Send(app, "proxies")
    /\ UNCHANGED <<server, applied, events>>

Poll ==
    /\ app' = SendAll(app, {"version", "proxies"})
    /\ UNCHANGED <<server, applied, events>>

\* A switch that cannot be used, or is where it should be, does nothing.
RequestTunChange(value) ==
    /\ Happens
    /\ app.connected /\ app.known /\ ~app.pending /\ value # app.tun
    /\ app' = Send([app EXCEPT !.pending = TRUE, !.tunPending = TRUE, !.tunRequested = value,
                               !.net = {[r EXCEPT !.fresh = FALSE] : r \in @}], "tunRead")
    /\ applied' = "none"
    /\ UNCHANGED <<server>>

\* One database update and one operation on a provider at a time.
CallOperation(kind) ==
    /\ Happens
    /\ kind \in {"geo", "operate"} => ~Awaits(app, {kind})
    /\ app' = IF kind = "providers" THEN FetchProviders(app) ELSE Send(app, kind)
    /\ UNCHANGED <<server, applied>>

-----------------------------------------------------------------------------
(* Controllers *)

\* Reads and PATCHes of other settings than TUN are answered on arrival.
ControllerReads(r) ==
    /\ r \in app.net /\ r.kind \in {"configs", "tunRead", "tunConfirm"}
    /\ r.reading = "none" /\ r.to \in up
    /\ app' = [app EXCEPT !.net = (@ \ {r}) \cup {[r EXCEPT !.reading = tunState[r.to]]}]
    /\ UNCHANGED <<server, applied, events>>

\* The controller may fail to create the device and still answer.  A PATCH
\* whose reply was given up is handled all the same, whenever it comes.
ControllerPatches(p, works) ==
    /\ p \in wire /\ p.to \in up /\ wire' = wire \ {p}
    /\ tunState' = IF works THEN [tunState EXCEPT ![p.to] = p.tun] ELSE tunState
    /\ LET answered == {r \in app.net : /\ r.kind = "tunPatch" /\ r.to = p.to
                                        /\ p.tun = app.tunRequested}
       IN /\ app' = [app EXCEPT !.net = (@ \ answered) \cup
                                        {[r EXCEPT !.reading = p.tun] : r \in answered}]
          /\ applied' = IF answered = {} /\ p.to = app.endpoint THEN "late" ELSE applied
    /\ UNCHANGED <<up, events>>

\* A controller that restarts comes back with its TUN state.
ControllerStops(e) ==
    /\ Happens
    /\ e \in up /\ up' = up \ {e} /\ wire' = {p \in wire : p.to # e}
    /\ UNCHANGED <<app, tunState, applied>>

ControllerStarts(e) ==
    /\ e \notin up /\ up' = up \cup {e}
    /\ UNCHANGED <<app, tunState, wire, applied, events>>

-----------------------------------------------------------------------------
(* Replies *)

\* A connection fails when its controller is gone, or by a fault of its own.
Fails(lost) == IF lost THEN UNCHANGED events ELSE Happens

\* A PATCH that a controller took with it is never answered.
Lost(r) == \/ r.to \notin up
           \/ /\ r.kind = "tunPatch" /\ r.reading = "none"
              /\ ~ \E p \in wire : p.to = r.to

Succeeds(r) == /\ r.to \in up /\ UNCHANGED events
               /\ r.kind \in {"configs"} \cup TunSteps => r.reading # "none"

Taken(r) == [app EXCEPT !.net = @ \ {r}]

VersionArrives(r, ok) ==
    /\ r.kind = "version"
    /\ app' = SetConnected(Taken(r), ok)
    /\ applied' = IF ok THEN applied ELSE "none"
    /\ UNCHANGED wire

\* What a pane shows is replaced by an answer and left alone by a failure.
SnapshotArrives(r, ok) ==
    /\ r.kind \in {"proxies", "rules", "providers"}
    /\ app' = IF ok THEN Show(Taken(r), r.kind, r) ELSE Taken(r)
    /\ UNCHANGED <<wire, applied>>

\* An ordinary reading is dropped when a TUN change began or ended since.
ConfigsArrive(r, ok) ==
    /\ r.kind = "configs"
    /\ app' = IF ok /\ r.fresh THEN Publish(Taken(r), r) ELSE Taken(r)
    /\ UNCHANGED <<wire, applied>>

\* The step before the PATCH: nothing to do if TUN already is as asked.
TunReadArrives(r, ok) ==
    /\ r.kind = "tunRead"
    /\ LET t == IF ok THEN Publish(Taken(r), r) ELSE Taken(r)
           change == ok /\ r.reading # t.tunRequested
       IN /\ app' = IF change THEN Send(t, "tunPatch") ELSE FinishTun(t, t.lastTun)
          /\ wire' = IF change THEN wire \cup {[to |-> r.to, tun |-> t.tunRequested]} ELSE wire
          /\ applied' = IF ok /\ ~change /\ applied = "none" THEN r.reading ELSE applied

\* Whatever the PATCH says, the state is read back.
TunPatchArrives(r, ok) ==
    /\ r.kind = "tunPatch"
    /\ app' = Send(Taken(r), "tunConfirm")
    /\ UNCHANGED <<wire, applied>>

\* Mutant: a reading that cannot be had leaves the change pending.
TunConfirmArrivesOnlyOk(r, ok) ==
    /\ r.kind = "tunConfirm"
    /\ LET t == IF ok THEN Publish(Taken(r), r) ELSE Taken(r)
       IN /\ app' = IF ok THEN FinishTun(t, t.lastTun) ELSE t
          /\ applied' = IF ok /\ r.reading = t.tunRequested /\ applied = "none"
                        THEN r.reading ELSE applied
    /\ UNCHANGED wire

TunConfirmArrives(r, ok) ==
    /\ r.kind = "tunConfirm"
    /\ LET t == IF ok THEN Publish(Taken(r), r) ELSE Taken(r)
       IN /\ app' = FinishTun(t, t.lastTun)
          /\ applied' = IF ok /\ r.reading = t.tunRequested /\ applied = "none"
                        THEN r.reading ELSE applied
    /\ UNCHANGED wire

\* After an operation the list it concerns is read again: after a choice of
\* node and a setting whatever the outcome, else when it went well.
OperationArrives(r, ok) ==
    /\ r.kind \in Operations \cup {"operate"}
    /\ app' = CASE r.kind = "select"         -> Send(Taken(r), "proxies")
                [] r.kind = "patch"          -> Send(Taken(r), "configs")
                [] r.kind = "geo" /\ ok      -> Send(Taken(r), "rules")
                [] r.kind = "operate" /\ ok  -> FetchProviders(Send(Taken(r), "proxies"))
                [] OTHER                     -> Taken(r)
    /\ UNCHANGED <<wire, applied>>

Arrive(r, ok) ==
    /\ r \in app.net
    /\ IF ok THEN Succeeds(r) ELSE Fails(Lost(r))
    /\ \/ VersionArrives(r, ok) \/ SnapshotArrives(r, ok) \/ ConfigsArrive(r, ok)
       \/ TunReadArrives(r, ok) \/ TunPatchArrives(r, ok) \/ TunConfirmArrives(r, ok)
       \/ OperationArrives(r, ok)
    /\ UNCHANGED <<up, tunState>>

-----------------------------------------------------------------------------
(* Streams *)

\* The traffic stream is back when the controller is: everything is read.
StreamOpens(x) ==
    /\ app.streams[x].phase = "connecting" /\ app.streams[x].to \in up
    /\ LET t == [app EXCEPT !.streams[x].phase = "open"]
       IN app' = IF x = "traffic" THEN RefreshState(t) ELSE t
    /\ UNCHANGED <<server, applied, events>>

\* Mutant: only the end of an established stream asks for a retry.
DropWhileConnecting(s, x) ==
    [s EXCEPT !.streams[x].phase = IF @ = "open" THEN "waiting" ELSE "dead"]

\* Both disconnected() and errorOccurred() may come: the second finds the
\* retry armed and the state set, and changes nothing.
Drop(s, x) ==
    LET t == [s EXCEPT !.streams[x].phase = "waiting"]
    IN CASE x = "traffic"     -> SetConnected(t, FALSE)
         [] x = "connections" -> [t EXCEPT !.shown["connections"] = Nothing]
         [] OTHER             -> t

StreamDrops(x) ==
    /\ app.streams[x].phase # "waiting"
    /\ Fails(app.streams[x].to \notin up)
    /\ app' = Drop(app, x)
    /\ applied' = IF x = "traffic" THEN "none" ELSE applied
    /\ UNCHANGED <<server>>

StreamRetries(x) ==
    /\ app.streams[x].phase = "waiting"
    /\ app' = [app EXCEPT !.streams[x].phase = "connecting"]
    /\ UNCHANGED <<server, applied, events>>

StreamSpeaks ==
    /\ "connections" \in Streams /\ app.streams["connections"].phase = "open"
    /\ app' = [app EXCEPT !.shown["connections"] =
                   [from |-> app.streams["connections"].to, old |-> FALSE]]
    /\ UNCHANGED <<server, applied, events>>

-----------------------------------------------------------------------------
TypeOK ==
    /\ app.endpoint \in Endpoints /\ app.connected \in BOOLEAN
    /\ app.tunPending \in BOOLEAN /\ app.tunRequested \in Tun /\ app.lastTun \in Tun
    /\ app.net \subseteq Request
    /\ app.known \in BOOLEAN /\ app.tun \in Tun /\ app.pending \in BOOLEAN
    /\ app.streams \in [Streams -> StreamRec]
    /\ \A p \in Panes : app.shown[p] = Nothing \/ app.shown[p].from \in Endpoints
    /\ up \subseteq Endpoints /\ tunState \in [Endpoints -> Tun]
    /\ wire \subseteq [to : Endpoints, tun : Tun] /\ applied \in Tun \cup {"none", "late"}

Init ==
    /\ \E e \in Endpoints :
         app = RefreshState([endpoint |-> e, connected |-> FALSE, tunPending |-> FALSE,
                tunRequested |-> "off", lastTun |-> "off", net |-> {},
                known |-> FALSE, tun |-> "off", pending |-> FALSE,
                shown |-> [p \in Panes |-> Nothing],
                streams |-> [x \in Streams |-> OpenStream(e)]])
    /\ up = Endpoints /\ tunState = [e \in Endpoints |-> IF e \in TunAtStart THEN "on" ELSE "off"]
    /\ wire = {} /\ applied = "none"
    /\ events = 0

Next ==
    \/ \E e \in Endpoints : \/ CallSetEndpoint(e) \/ ControllerStops(e) \/ ControllerStarts(e)
    \/ \E x \in Streams : \/ CallOpenStream(x) \/ StreamOpens(x) \/ StreamDrops(x)
                          \/ StreamRetries(x)
    \/ Poll \/ StreamSpeaks
    \/ \E value \in Tun : RequestTunChange(value)
    \/ \E kind \in Operations \cup ProviderKinds : CallOperation(kind)
    \/ \E r \in app.net : ControllerReads(r) \/ \E ok \in BOOLEAN : Arrive(r, ok)
    \/ \E p \in wire, works \in BOOLEAN : ControllerPatches(p, works)

\* Timers and the event loop run, and every request is answered or times
\* out.  A controller that stopped need not be started again.
Fairness ==
    /\ WF_vars(Poll)
    /\ \A x \in Streams : WF_vars(StreamRetries(x)) /\ WF_vars(StreamOpens(x) \/ StreamDrops(x))
    /\ \A kind \in Kinds :
         WF_vars(\E r \in app.net : r.kind = kind /\
                    (ControllerReads(r) \/ \E ok \in BOOLEAN : Arrive(r, ok)))
    /\ WF_vars(\E p \in wire, works \in BOOLEAN : ControllerPatches(p, works))

Spec == Init /\ [][Next]_vars /\ Fairness

-----------------------------------------------------------------------------
(* Properties *)

\* The switch says what the client knows: it waits exactly while a change of
\* the client is pending, and shows the client's last reading when it has one.
SwitchFollowsClient ==
    /\ app.pending = app.tunPending
    /\ app.known => app.tun = app.lastTun
    /\ app.tunPending => Awaits(app, TunSteps)

\* What any page shows was asked of the present controller, and, for the
\* client's own requests, since it was last found offline: a late answer
\* never fills the page that was just cleared (setConnected(), setEndpoint(),
\* ProviderClient).  The streams belong to the present controller too.
NothingOldIsShown ==
    /\ \A p \in Panes : app.shown[p] # Nothing => /\ app.shown[p].from = app.endpoint
                                                  /\ ~app.shown[p].old
    /\ \A x \in Streams : app.streams[x].to = app.endpoint

\* A TUN change that was reported as made stays what the switch shows and
\* what the controller does, until it is changed again or the controller is
\* lost: a poll begun before the report does not undo it on the screen.  Only
\* a PATCH that was given up can, for the client cannot know when it comes.
AppliedStands ==
    applied \in Tun => app.tun = applied /\ tunState[app.endpoint] = applied

\* The TUN switch never says what is not so.
Safety == TypeOK /\ SwitchFollowsClient /\ AppliedStands

\* Every TUN change is answered, however the controller fails.
TunChangeEnds == app.tunPending ~> ~app.tunPending

\* While the controller runs, each stream that dropped comes back.
StreamsReturn ==
    \A x \in Streams : []<>(app.streams[x].phase = "open" \/ app.endpoint \notin up)

\* While the controller runs, the client finds it again after any failure.
ConnectsAgain == []<>(app.connected \/ app.endpoint \notin up)

\* The switch of a connected client that waits "for a connected core's
\* configuration" gets one, or the core is lost.
ConfigArrives == (app.connected /\ ~app.known) ~> (app.known \/ ~app.connected)

-----------------------------------------------------------------------------
(* What makes NothingOldIsShown inductive *)

AppRec == [
    endpoint : Endpoints, connected : BOOLEAN,
    tunPending : BOOLEAN, tunRequested : Tun, lastTun : Tun,
    net : SUBSET Request,
    known : BOOLEAN, tun : Tun, pending : BOOLEAN,
    shown : [Panes -> {Nothing} \cup [from : Endpoints, old : BOOLEAN]],
    streams : [Streams -> StreamRec]]

ServerTypes ==
    /\ up \subseteq Endpoints /\ tunState \in [Endpoints -> Tun]
    /\ wire \subseteq [to : Endpoints, tun : Tun]

\* Every reply that is awaited, every stream and every page are of the
\* present controller.
Awaited(s) == \A r \in s.net : r.to = s.endpoint /\ ~r.old
Shown(s)   == \A p \in Panes : s.shown[p] # Nothing =>
                  s.shown[p].from = s.endpoint /\ ~s.shown[p].old
Joined(s)  == \A x \in Streams : s.streams[x].to = s.endpoint

Current(s) == s \in AppRec /\ Awaited(s) /\ Shown(s) /\ Joined(s)

IInv == ServerTypes /\ Current(app)

-----------------------------------------------------------------------------
(* What makes Safety inductive *)

\* A change is pending exactly while one of its steps is awaited, and only of
\* a client that is connected.
Switch(s) ==
    /\ s.pending = s.tunPending /\ (s.known => s.tun = s.lastTun)
    /\ s.tunPending => s.connected /\ Awaits(s, TunSteps)
    /\ \A r \in s.net : r.kind \in TunSteps =>
           s.tunPending /\ \A q \in s.net : q.kind \in TunSteps => q = r

\* What a step of the change has read is so, unless a PATCH came late; and
\* what the change made is read by all that outlive it.
Told ==
    /\ applied \in Tun \cup {"none", "late"}
    /\ applied = "none" =>
           \A r \in app.net : r.kind \in {"tunRead", "tunConfirm"} /\ r.reading # "none" =>
               r.reading = tunState[r.to]
    /\ applied \in Tun =>
           /\ ~app.tunPending /\ app.tun = applied /\ tunState[app.endpoint] = applied
           /\ \A r \in app.net : r.kind = "configs" /\ r.fresh =>
                  r.reading \in {"none", applied}

TunInv == Switch(app) /\ Told

=============================================================================
