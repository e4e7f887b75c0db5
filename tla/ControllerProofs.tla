--------------------------- MODULE ControllerProofs ---------------------------
(***************************************************************************)
(* No page shows what an earlier controller, or the present one before it  *)
(* was lost, has answered: for any controllers, streams and lists and any  *)
(* number of calls and failures.                                           *)
(***************************************************************************)
EXTENDS Controller, TLAPS

-----------------------------------------------------------------------------
(* Constants *)

\* The kinds of requests that are named by a set.
LEMMA KindsAreKinds ==
    /\ Lists \cup {"version", "configs"} \subseteq Kinds
    /\ {"version", "proxies"} \subseteq Kinds
    /\ Operations \cup ProviderKinds \subseteq Kinds
    /\ {"providers", "tunRead", "tunPatch", "tunConfirm", "proxies", "configs", "rules"} \subseteq Kinds
BY ListAssumption DEF Kinds, Polls, TunSteps, Operations, ProviderKinds

-----------------------------------------------------------------------------
(* What the member functions keep *)

\* What is sent is sent to the present controller.
LEMMA SendAllCurrent ==
    ASSUME NEW s, Current(s), NEW kinds, kinds \subseteq Kinds
    PROVE  Current(SendAll(s, kinds))
<1> DEFINE sent == [kind : kinds, to : {s.endpoint}, reading : {"none"},
                    fresh : {TRUE}, old : {FALSE}]
           t == SendAll(s, kinds)
<1>1. sent \subseteq Request
  BY DEF Request, Current, AppRec
<1>2. s \in AppRec
  BY DEF Current
<1>3. t = [s EXCEPT !.net = @ \cup sent]
  BY DEF SendAll
<1> HIDE DEF sent, t
<1>4. t \in AppRec
  BY <1>1, <1>2, <1>3 DEF AppRec
<1>5. /\ t.net = s.net \cup sent /\ t.endpoint = s.endpoint
      /\ t.shown = s.shown /\ t.streams = s.streams
  BY <1>2, <1>3 DEF AppRec
<1>6. \A r \in sent : r.to = s.endpoint /\ ~r.old
  BY DEF sent
<1>7. Awaited(t)
  BY <1>5, <1>6 DEF Awaited, Current
<1>8. Shown(t) /\ Joined(t)
  BY <1>5 DEF Shown, Joined, Current
<1> QED
  BY <1>4, <1>7, <1>8 DEF Current, t

\* One request is a set of one.
LEMMA SendCurrent ==
    ASSUME NEW s, Current(s), NEW kind \in Kinds
    PROVE  Current(Send(s, kind))
<1>1. {kind} \subseteq Kinds
  OBVIOUS
<1> QED
  BY <1>1, SendAllCurrent DEF Send

\* The lists of the providers are asked for at most once at a time.
LEMMA FetchProvidersCurrent ==
    ASSUME NEW s, Current(s)
    PROVE  Current(FetchProviders(s))
BY SendCurrent, KindsAreKinds DEF FetchProviders

\* A refresh asks for everything.
LEMMA RefreshCurrent ==
    ASSUME NEW s, Current(s)
    PROVE  Current(RefreshState(s))
BY SendAllCurrent, KindsAreKinds DEF RefreshState

\* Fewer requests, with the same controllers and marks, are as current.
LEMMA FewerCurrent ==
    ASSUME NEW s, Current(s), NEW net, net \subseteq s.net
    PROVE  Current([s EXCEPT !.net = net])
<1> DEFINE t == [s EXCEPT !.net = net]
<1>1. s \in AppRec
  BY DEF Current
<1>2. t \in AppRec
  BY <1>1 DEF AppRec
<1>3. /\ t.net = net /\ t.endpoint = s.endpoint
      /\ t.shown = s.shown /\ t.streams = s.streams
  BY <1>1 DEF AppRec
<1> HIDE DEF t
<1>4. Awaited(t) /\ Shown(t) /\ Joined(t)
  BY <1>3 DEF Awaited, Shown, Joined, Current
<1> QED
  BY <1>2, <1>4 DEF Current, t

\* Members that say nothing of pages, streams or the controller may change.
LEMMA OthersCurrent ==
    ASSUME NEW s, Current(s), NEW t \in AppRec,
           t.net \subseteq s.net, t.endpoint = s.endpoint,
           t.shown = s.shown, t.streams = s.streams
    PROVE  Current(t)
BY DEF Current, Awaited, Shown, Joined

\* The end of a TUN change marks the readings, and leaves them where they are.
LEMMA FinishTunCurrent ==
    ASSUME NEW s, Current(s), NEW actual \in Tun
    PROVE  /\ Current(FinishTun(s, actual))
           /\ FinishTun(s, actual).endpoint = s.endpoint
<1>1. CASE ~s.tunPending
  BY <1>1 DEF FinishTun
<1>2. CASE s.tunPending
  <2> DEFINE marked == {[r EXCEPT !.fresh = FALSE] : r \in s.net}
             t == FinishTun(s, actual)
  <2>1. s \in AppRec
    BY DEF Current
  <2>2. t = [s EXCEPT !.tunPending = FALSE, !.pending = FALSE, !.tun = actual, !.net = marked]
    BY <1>2 DEF FinishTun
  <2>3. marked \subseteq Request
    <3> SUFFICES ASSUME NEW r \in s.net PROVE [r EXCEPT !.fresh = FALSE] \in Request
      OBVIOUS
    <3>1. r \in Request
      BY <2>1 DEF AppRec
    <3> QED
      BY <3>1 DEF Request
  <2>4. \A r \in marked : r.to = s.endpoint /\ ~r.old
    BY <2>1 DEF Current, Awaited, AppRec, Request
  <2> HIDE DEF marked, t
  <2>5. t \in AppRec
    BY <2>1, <2>2, <2>3 DEF AppRec
  <2>6. /\ t.net = marked /\ t.endpoint = s.endpoint
        /\ t.shown = s.shown /\ t.streams = s.streams
    BY <2>1, <2>2 DEF AppRec
  <2>7. Awaited(t) /\ Shown(t) /\ Joined(t)
    BY <2>4, <2>6 DEF Awaited, Shown, Joined, Current
  <2> QED
    BY <2>5, <2>6, <2>7 DEF Current, t
<1> QED
  BY <1>1, <1>2 DEF Current, AppRec

\* A reading is published to the switch only.
LEMMA PublishCurrent ==
    ASSUME NEW s, Current(s), NEW r, r.reading \in Tun
    PROVE  Current(Publish(s, r))
<1> DEFINE t == Publish(s, r)
<1>1. s \in AppRec
  BY DEF Current
<1>2. t \in AppRec
  BY <1>1 DEF Publish, AppRec
<1>3. /\ t.net = s.net /\ t.endpoint = s.endpoint
      /\ t.shown = s.shown /\ t.streams = s.streams
  BY <1>1 DEF Publish, AppRec
<1> HIDE DEF t
<1> QED
  BY <1>2, <1>3, OthersCurrent DEF t

\* An answer of the present controller may be shown.
LEMMA ShowCurrent ==
    ASSUME NEW s, Current(s), NEW pane \in Panes, NEW r \in Request,
           r.to = s.endpoint, ~r.old
    PROVE  Current(Show(s, pane, r))
<1> DEFINE t == Show(s, pane, r)
           what == [from |-> r.to, old |-> r.old]
<1>1. s \in AppRec
  BY DEF Current
<1>2. what \in [from : Endpoints, old : BOOLEAN]
  BY DEF Request
<1>3. t = [s EXCEPT !.shown = [s.shown EXCEPT ![pane] = what]]
  BY <1>1 DEF Show, AppRec
<1>4. what.from = s.endpoint /\ ~what.old
  OBVIOUS
<1> HIDE DEF t, what
<1>5. [s.shown EXCEPT ![pane] = what] \in [Panes -> {Nothing} \cup [from : Endpoints, old : BOOLEAN]]
  BY <1>1, <1>2 DEF AppRec
<1>6. t \in AppRec
  BY <1>1, <1>3, <1>5 DEF AppRec
<1>7. /\ t.net = s.net /\ t.endpoint = s.endpoint /\ t.streams = s.streams
      /\ t.shown = [s.shown EXCEPT ![pane] = what]
  BY <1>1, <1>3 DEF AppRec
<1>8. Shown(t)
  <2> SUFFICES ASSUME NEW p \in Panes, t.shown[p] # Nothing
               PROVE  t.shown[p].from = t.endpoint /\ ~t.shown[p].old
    BY DEF Shown
  <2>1. CASE p = pane
    BY <2>1, <1>1, <1>4, <1>7 DEF AppRec
  <2>2. CASE p # pane
    BY <2>2, <1>1, <1>7 DEF AppRec, Current, Shown
  <2> QED
    BY <2>1, <2>2
<1>9. Awaited(t) /\ Joined(t)
  BY <1>7 DEF Awaited, Joined, Current
<1> QED
  BY <1>6, <1>8, <1>9 DEF Current, t

\* A stream that is opened, dropped or retried stays with its controller.
LEMMA StreamCurrent ==
    ASSUME NEW s, Current(s), NEW x \in Streams,
           NEW phase \in {"connecting", "open", "waiting"}
    PROVE  /\ Current([s EXCEPT !.streams[x].phase = phase])
           /\ Current([s EXCEPT !.streams[x] = [phase |-> phase, to |-> s.endpoint]])
<1>1. s \in AppRec
  BY DEF Current
<1>2. s.streams[x] \in StreamRec /\ s.streams[x].to = s.endpoint
  BY <1>1 DEF AppRec, Current, Joined
<1>3. [s.streams[x] EXCEPT !.phase = phase] = [phase |-> phase, to |-> s.endpoint]
  BY <1>2 DEF StreamRec
<1> DEFINE new == [phase |-> phase, to |-> s.endpoint]
           t == [s EXCEPT !.streams[x] = new]
<1>4. [s EXCEPT !.streams[x].phase = phase] = t
  BY <1>1, <1>3 DEF AppRec
<1>5. new \in StreamRec /\ new.to = s.endpoint
  BY <1>1 DEF AppRec, StreamRec
<1> HIDE DEF new
<1>6. [s.streams EXCEPT ![x] = new] \in [Streams -> StreamRec]
  BY <1>1, <1>5 DEF AppRec
<1>7. t = [s EXCEPT !.streams = [s.streams EXCEPT ![x] = new]]
  BY <1>1 DEF AppRec
<1> HIDE DEF t
<1>8. t \in AppRec
  BY <1>1, <1>6, <1>7 DEF AppRec
<1>9. /\ t.net = s.net /\ t.endpoint = s.endpoint /\ t.shown = s.shown
      /\ t.streams = [s.streams EXCEPT ![x] = new]
  BY <1>1, <1>7 DEF AppRec
<1>10. Joined(t)
  BY <1>1, <1>5, <1>9 DEF Joined, Current, AppRec
<1>11. Awaited(t) /\ Shown(t)
  BY <1>9 DEF Awaited, Shown, Current
<1>12. Current(t)
  BY <1>8, <1>10, <1>11 DEF Current
<1> QED
  BY <1>4, <1>12 DEF t, new

\* Losing the controller empties the pages that were its own.
LEMMA SetConnectedCurrent ==
    ASSUME NEW s, Current(s), NEW connected \in BOOLEAN
    PROVE  Current(SetConnected(s, connected))
<1>1. CASE s.connected = connected
  BY <1>1 DEF SetConnected
<1>2. CASE s.connected # connected /\ connected
  <2> DEFINE t == [s EXCEPT !.connected = TRUE]
  <2>1. s \in AppRec
    BY DEF Current
  <2>2. /\ t \in AppRec /\ t.net = s.net /\ t.endpoint = s.endpoint
        /\ t.shown = s.shown /\ t.streams = s.streams
    BY <2>1 DEF AppRec
  <2>3. SetConnected(s, connected) = t
    BY <1>2 DEF SetConnected
  <2> HIDE DEF t
  <2> QED
    BY <2>2, <2>3, OthersCurrent
<1>3. CASE s.connected # connected /\ ~connected
  <2> DEFINE f == FinishTun(s, s.lastTun)
             shown == [p \in Panes |-> IF p = "providers" THEN f.shown[p] ELSE Nothing]
             t == [f EXCEPT !.connected = FALSE, !.lastTun = "off", !.net = Supersede(f.net),
                      !.shown = shown, !.known = FALSE, !.tun = "off", !.pending = FALSE]
  <2>1. Current(f)
    BY FinishTunCurrent DEF Current, AppRec
  <2>2. SetConnected(s, connected) = t
    <3>1. connected = FALSE
      BY <1>3
    <3> QED
      BY <1>3, <3>1, <2>1 DEF SetConnected, Current, AppRec
  <2> HIDE DEF f
  <2>3. f \in AppRec
    BY <2>1 DEF Current
  <2>4. Supersede(f.net) \subseteq f.net
    BY DEF Supersede
  <2>5. shown \in [Panes -> {Nothing} \cup [from : Endpoints, old : BOOLEAN]]
    BY <2>3 DEF AppRec
  <2>6. \A p \in Panes : shown[p] = Nothing \/ shown[p] = f.shown[p]
    OBVIOUS
  <2> HIDE DEF shown
  <2>7. t \in AppRec
    BY <2>3, <2>4, <2>5 DEF AppRec, Tun
  <2>8. /\ t.net = Supersede(f.net) /\ t.endpoint = f.endpoint
        /\ t.shown = shown /\ t.streams = f.streams
    BY <2>3 DEF AppRec
  <2> HIDE DEF t
  <2>9. Awaited(t) /\ Joined(t)
    BY <2>1, <2>4, <2>8 DEF Awaited, Joined, Current
  <2>10. Shown(t)
    BY <2>1, <2>6, <2>8 DEF Shown, Current
  <2> QED
    BY <2>2, <2>7, <2>9, <2>10 DEF Current
<1> QED
  BY <1>1, <1>2, <1>3

\* The end of a TUN change is typed, and sends nothing of another kind.
LEMMA FinishTunTyped ==
    ASSUME NEW s \in AppRec, NEW actual \in Tun
    PROVE  /\ FinishTun(s, actual) \in AppRec
           /\ FinishTun(s, actual).endpoint = s.endpoint
           /\ \A r \in FinishTun(s, actual).net : \E q \in s.net : r.kind = q.kind
<1>1. CASE ~s.tunPending
  BY <1>1 DEF FinishTun
<1>2. CASE s.tunPending
  <2> DEFINE marked == {[r EXCEPT !.fresh = FALSE] : r \in s.net}
             t == FinishTun(s, actual)
  <2>1. t = [s EXCEPT !.tunPending = FALSE, !.pending = FALSE, !.tun = actual, !.net = marked]
    BY <1>2 DEF FinishTun
  <2>2. \A r \in s.net : /\ [r EXCEPT !.fresh = FALSE] \in Request
                         /\ [r EXCEPT !.fresh = FALSE].kind = r.kind
    <3> TAKE r \in s.net
    <3>1. r \in Request
      BY DEF AppRec
    <3> QED
      BY <3>1 DEF Request
  <2>3. marked \subseteq Request /\ \A r \in marked : \E q \in s.net : r.kind = q.kind
    BY <2>2
  <2> HIDE DEF marked, t
  <2>4. t \in AppRec /\ t.net = marked /\ t.endpoint = s.endpoint
    BY <2>1, <2>3 DEF AppRec
  <2> QED
    BY <2>3, <2>4 DEF t
<1> QED
  BY <1>1, <1>2

\* To be found offline is typed, and sends nothing of another kind either.
LEMMA OfflineTyped ==
    ASSUME NEW s \in AppRec
    PROVE  /\ SetConnected(s, FALSE) \in AppRec
           /\ SetConnected(s, FALSE).endpoint = s.endpoint
           /\ \A r \in SetConnected(s, FALSE).net : \E q \in s.net : r.kind = q.kind
<1>1. CASE s.connected = FALSE
  BY <1>1 DEF SetConnected
<1>2. CASE s.connected # FALSE
  <2> DEFINE f == FinishTun(s, s.lastTun)
             shown == [p \in Panes |-> IF p = "providers" THEN f.shown[p] ELSE Nothing]
             t == [f EXCEPT !.connected = FALSE, !.lastTun = "off", !.net = Supersede(f.net),
                      !.shown = shown, !.known = FALSE, !.tun = "off", !.pending = FALSE]
  <2>1. s.lastTun \in Tun
    BY DEF AppRec
  <2>2. /\ f \in AppRec /\ f.endpoint = s.endpoint
        /\ \A r \in f.net : \E q \in s.net : r.kind = q.kind
    BY <2>1, FinishTunTyped
  <2>3. SetConnected(s, FALSE) = t
    BY <1>2, <2>2 DEF SetConnected, AppRec
  <2> HIDE DEF f
  <2>4. Supersede(f.net) \subseteq f.net
    BY DEF Supersede
  <2>5. shown \in [Panes -> {Nothing} \cup [from : Endpoints, old : BOOLEAN]]
    BY <2>2 DEF AppRec
  <2> HIDE DEF shown
  <2>6. t \in AppRec /\ t.net = Supersede(f.net) /\ t.endpoint = f.endpoint
    BY <2>2, <2>4, <2>5 DEF AppRec, Tun
  <2> HIDE DEF t
  <2> QED
    BY <2>2, <2>3, <2>4, <2>6
<1> QED
  BY <1>1, <1>2

\* Another controller: nothing of the last one is awaited, shown or joined.
LEMMA SetEndpointCurrent ==
    ASSUME NEW s, Current(s), NEW e \in Endpoints
    PROVE  Current(SetEndpoint(s, e))
<1>1. s \in AppRec /\ s.lastTun \in Tun
  BY DEF Current, AppRec
<1>2. CASE e = s.endpoint
  BY <1>2, RefreshCurrent DEF SetEndpoint
<1>3. CASE e # s.endpoint
  <2> DEFINE f == FinishTun(s, s.lastTun)
             t == [f EXCEPT !.lastTun = "off", !.endpoint = e]
             u == [t EXCEPT !.net = Supersede(t.net)]
             d == SetConnected(u, FALSE)
             net == {r \in d.net : r.kind \notin ProviderKinds}
             shown == [p \in Panes |-> Nothing]
             streams == [x \in Streams |-> OpenStream(e)]
             n == [d EXCEPT !.shown = shown, !.known = FALSE, !.tun = "off",
                      !.pending = FALSE, !.net = net, !.streams = streams]
  <2>1. f \in AppRec
    BY <1>1, FinishTunTyped
  <2> HIDE DEF f
  <2>2. t \in AppRec /\ t.endpoint = e
    BY <2>1 DEF AppRec, Tun
  <2> HIDE DEF t
  <2>3. Supersede(t.net) \subseteq t.net /\ \A r \in Supersede(t.net) : r.kind \in ProviderKinds
    BY DEF Supersede
  <2>4. u \in AppRec /\ u.endpoint = e /\ u.net = Supersede(t.net)
    BY <2>2, <2>3 DEF AppRec
  <2>5. u = [t EXCEPT !.net = Supersede(@)]
    BY <2>2 DEF AppRec
  <2> HIDE DEF u
  <2>6. d \in AppRec /\ d.endpoint = e /\ \A r \in d.net : r.kind \in ProviderKinds
    BY <2>3, <2>4, OfflineTyped
  <2>7. SetEndpoint(s, e) = RefreshState(n)
    <3>1. SetEndpoint(s, e) = RefreshState([d EXCEPT
                !.shown = [p \in Panes |-> Nothing], !.known = FALSE, !.tun = "off",
                !.pending = FALSE, !.net = {r \in @ : r.kind \notin ProviderKinds},
                !.streams = [x \in Streams |-> OpenStream(e)]])
      BY <1>3, <2>5 DEF SetEndpoint, d, t, f
    <3>2. n = [d EXCEPT
                !.shown = [p \in Panes |-> Nothing], !.known = FALSE, !.tun = "off",
                !.pending = FALSE, !.net = {r \in @ : r.kind \notin ProviderKinds},
                !.streams = [x \in Streams |-> OpenStream(e)]]
      BY <2>6 DEF AppRec
    <3> QED
      BY <3>1, <3>2
  <2> HIDE DEF d
  <2>8. net = {}
    BY <2>6
  <2>9. /\ shown \in [Panes -> {Nothing} \cup [from : Endpoints, old : BOOLEAN]]
        /\ \A p \in Panes : shown[p] = Nothing
    OBVIOUS
  <2>10. /\ streams \in [Streams -> StreamRec]
         /\ \A x \in Streams : streams[x].to = e
    BY DEF OpenStream, StreamRec
  <2> HIDE DEF net, shown, streams
  <2>11. n \in AppRec
    BY <2>6, <2>8, <2>9, <2>10 DEF AppRec, Tun
  <2>12. n.net = {} /\ n.endpoint = e /\ n.shown = shown /\ n.streams = streams
    BY <2>6, <2>8 DEF AppRec
  <2> HIDE DEF n
  <2>13. Current(n)
    BY <2>9, <2>10, <2>11, <2>12 DEF Current, Awaited, Shown, Joined
  <2> QED
    BY <2>7, <2>13, RefreshCurrent
<1> QED
  BY <1>2, <1>3

\* Requests of the present controller may take the place of others.
LEMMA NetCurrent ==
    ASSUME NEW s, Current(s), NEW net, net \subseteq Request,
           \A r \in net : r.to = s.endpoint /\ ~r.old
    PROVE  Current([s EXCEPT !.net = net])
<1> DEFINE t == [s EXCEPT !.net = net]
<1>1. s \in AppRec
  BY DEF Current
<1>2. /\ t \in AppRec /\ t.net = net /\ t.endpoint = s.endpoint
      /\ t.shown = s.shown /\ t.streams = s.streams
  BY <1>1 DEF AppRec
<1> HIDE DEF t
<1>3. Awaited(t) /\ Shown(t) /\ Joined(t)
  BY <1>2 DEF Awaited, Shown, Joined, Current
<1> QED
  BY <1>2, <1>3 DEF Current, t

\* A stream that is lost takes along what it had brought.
LEMMA DropCurrent ==
    ASSUME NEW s, Current(s), NEW x \in Streams
    PROVE  Current(Drop(s, x))
<1> DEFINE t == [s EXCEPT !.streams[x].phase = "waiting"]
           c == [t EXCEPT !.shown["connections"] = Nothing]
<1>1. Current(t)
  BY StreamCurrent
<1> HIDE DEF t
<1>2. Current(c)
  <2>1. t \in AppRec /\ "connections" \in Panes
    BY <1>1 DEF Current, Panes
  <2> DEFINE shown == [t.shown EXCEPT !["connections"] = Nothing]
  <2>2. shown \in [Panes -> {Nothing} \cup [from : Endpoints, old : BOOLEAN]]
    BY <2>1 DEF AppRec
  <2>3. \A p \in Panes : shown[p] = Nothing \/ shown[p] = t.shown[p]
    BY <2>1 DEF AppRec
  <2>4. c = [t EXCEPT !.shown = shown]
    BY <2>1 DEF AppRec
  <2> HIDE DEF shown, c
  <2>5. /\ c \in AppRec /\ c.net = t.net /\ c.endpoint = t.endpoint
        /\ c.shown = shown /\ c.streams = t.streams
    BY <2>1, <2>2, <2>4 DEF AppRec
  <2>6. Awaited(c) /\ Shown(c) /\ Joined(c)
    BY <1>1, <2>3, <2>5 DEF Awaited, Shown, Joined, Current
  <2> QED
    BY <2>5, <2>6 DEF Current
<1>3. Current(SetConnected(t, FALSE))
  BY <1>1, SetConnectedCurrent
<1> HIDE DEF c
<1>4. Drop(s, x) \in {SetConnected(t, FALSE), c, t}
  BY DEF Drop, t, c
<1> QED
  BY <1>1, <1>2, <1>3, <1>4

\* A switch that is moved outdates the readings and asks for one of its own.
LEMMA TunChangeCurrent ==
    ASSUME NEW value \in Tun, Current(app), RequestTunChange(value)
    PROVE  Current(app')
<1> DEFINE Mark(r) == [r EXCEPT !.fresh = FALSE]
           marked == {Mark(r) : r \in app.net}
           t == [app EXCEPT !.pending = TRUE, !.tunPending = TRUE, !.tunRequested = value,
                            !.net = marked]
<1>1. app \in AppRec
  BY DEF Current
<1>2. \A r \in app.net : Mark(r) \in Request /\ Mark(r).to = app.endpoint /\ ~Mark(r).old
  <2> TAKE r \in app.net
  <2>1. r \in Request /\ r.to = app.endpoint /\ ~r.old
    BY <1>1 DEF AppRec, Current, Awaited
  <2> QED
    BY <2>1 DEF Request
<1>3. app' = Send(t, "tunRead")
  BY <1>1 DEF RequestTunChange, AppRec
<1> HIDE DEF Mark
<1>4. marked \subseteq Request /\ \A r \in marked : r.to = app.endpoint /\ ~r.old
  BY <1>2
<1> HIDE DEF marked
<1>5. /\ t \in AppRec /\ t.net = marked /\ t.endpoint = app.endpoint
      /\ t.shown = app.shown /\ t.streams = app.streams
  BY <1>1, <1>4 DEF AppRec
<1> HIDE DEF t
<1>6. Current(t)
  BY <1>4, <1>5 DEF Current, Awaited, Shown, Joined
<1> QED
  BY <1>3, <1>6, SendCurrent, KindsAreKinds

-----------------------------------------------------------------------------
(* What the controllers and their answers keep *)

\* A controller that reads or patches answers for itself.
LEMMA ControllersCurrent ==
    ASSUME IInv
    PROVE  /\ \A r \in app.net : ControllerReads(r) => Current(app')
           /\ \A p \in wire, works \in BOOLEAN : ControllerPatches(p, works) => Current(app')
<1>1. /\ app \in AppRec /\ Current(app)
      /\ \A r \in app.net : r \in Request /\ r.to = app.endpoint /\ ~r.old
  BY DEF IInv, Current, AppRec, Awaited
<1>2. \A r \in app.net, v \in Tun :
         LET q == [r EXCEPT !.reading = v]
         IN q \in Request /\ q.to = app.endpoint /\ ~q.old
  <2> TAKE r \in app.net, v \in Tun
  <2>1. r \in Request /\ r.to = app.endpoint /\ ~r.old
    BY <1>1
  <2> QED
    BY <2>1 DEF Request
<1>3. ASSUME NEW r \in app.net, ControllerReads(r)
      PROVE  Current(app')
  <2> DEFINE q == [r EXCEPT !.reading = tunState[r.to]]
             net == (app.net \ {r}) \cup {q}
  <2>1. tunState[r.to] \in Tun
    BY <1>1 DEF IInv, ServerTypes, Request
  <2>2. q \in Request /\ q.to = app.endpoint /\ ~q.old
    BY <1>2, <2>1
  <2>3. app' = [app EXCEPT !.net = net]
    BY <1>1, <1>3 DEF ControllerReads, AppRec
  <2> HIDE DEF q
  <2>4. net \subseteq Request /\ \A k \in net : k.to = app.endpoint /\ ~k.old
    BY <1>1, <2>2
  <2> HIDE DEF net
  <2> QED
    BY <1>1, <2>3, <2>4, NetCurrent
<1>4. ASSUME NEW p \in wire, NEW works \in BOOLEAN, ControllerPatches(p, works)
      PROVE  Current(app')
  <2> DEFINE answered == {r \in app.net : /\ r.kind = "tunPatch" /\ r.to = p.to
                                         /\ p.tun = app.tunRequested}
             Read(r) == [r EXCEPT !.reading = p.tun]
             read == {Read(r) : r \in answered}
             net == (app.net \ answered) \cup read
  <2>1. p.tun \in Tun
    BY DEF IInv, ServerTypes
  <2>2. answered \subseteq app.net
    OBVIOUS
  <2>3. app' = [app EXCEPT !.net = net]
    BY <1>1, <1>4 DEF ControllerPatches, AppRec
  <2> HIDE DEF answered
  <2>4. \A r \in answered : Read(r) \in Request /\ Read(r).to = app.endpoint /\ ~Read(r).old
    BY <1>2, <2>1, <2>2
  <2> HIDE DEF Read
  <2>5. read \subseteq Request /\ \A k \in read : k.to = app.endpoint /\ ~k.old
    BY <2>4
  <2> HIDE DEF read
  <2>6. net \subseteq Request /\ \A k \in net : k.to = app.endpoint /\ ~k.old
    BY <1>1, <2>5
  <2> HIDE DEF net
  <2> QED
    BY <1>1, <2>3, <2>6, NetCurrent
<1> QED
  BY <1>3, <1>4

\* Whatever arrives, and however it went.
LEMMA ArriveCurrent ==
    ASSUME IInv, NEW r \in app.net, NEW ok \in BOOLEAN, Arrive(r, ok)
    PROVE  Current(app')
<1> DEFINE t == Taken(r)
           u == IF ok THEN Publish(t, r) ELSE t
<1>1. /\ app \in AppRec /\ r \in Request /\ r.to = app.endpoint /\ ~r.old
  BY DEF IInv, Current, AppRec, Awaited
<1>2. Current(t) /\ t.endpoint = app.endpoint
  BY <1>1, FewerCurrent DEF Taken, IInv, AppRec
<1>3. ok /\ r.kind \in {"configs"} \cup TunSteps => r.reading \in Tun
  BY <1>1 DEF Arrive, Succeeds, Request
<1> HIDE DEF t
<1>4. r.kind \in {"configs"} \cup TunSteps => Current(u)
  BY <1>2, <1>3, PublishCurrent
<1>5. \A a \in {t, u} : Current(a) => Current(FinishTun(a, a.lastTun))
  BY FinishTunCurrent DEF Current, AppRec
<1>6. CASE VersionArrives(r, ok)
  BY <1>2, <1>6, SetConnectedCurrent DEF VersionArrives, t
<1>7. CASE SnapshotArrives(r, ok)
  BY <1>1, <1>2, <1>7, ShowCurrent DEF SnapshotArrives, Panes, t
<1>8. CASE ConfigsArrive(r, ok)
  BY <1>2, <1>3, <1>8, PublishCurrent DEF ConfigsArrive, t
<1>9. CASE TunReadArrives(r, ok)
  <2>1. Current(u)
    BY <1>4, <1>9 DEF TunReadArrives, TunSteps
  <2>2. app' = Send(u, "tunPatch") \/ app' = FinishTun(u, u.lastTun)
    BY <1>9 DEF TunReadArrives, t
  <2> HIDE DEF u
  <2> QED
    BY <1>5, <2>1, <2>2, SendCurrent, KindsAreKinds
<1>10. CASE TunPatchArrives(r, ok)
  BY <1>2, <1>10, SendCurrent, KindsAreKinds DEF TunPatchArrives, t
<1>11. CASE TunConfirmArrives(r, ok)
  <2>1. Current(u)
    BY <1>4, <1>11 DEF TunConfirmArrives, TunSteps
  <2>2. app' = FinishTun(u, u.lastTun)
    BY <1>11 DEF TunConfirmArrives, t
  <2> HIDE DEF u
  <2> QED
    BY <1>5, <2>1, <2>2
<1>12. CASE OperationArrives(r, ok)
  <2>1. Current(Send(t, "proxies")) /\ Current(Send(t, "configs")) /\ Current(Send(t, "rules"))
    BY <1>2, SendCurrent, KindsAreKinds
  <2>2. Current(FetchProviders(Send(t, "proxies")))
    BY <2>1, FetchProvidersCurrent
  <2>3. app' \in {Send(t, "proxies"), Send(t, "configs"), Send(t, "rules"),
                  FetchProviders(Send(t, "proxies")), t}
    BY <1>12 DEF OperationArrives, t
  <2> QED
    BY <1>2, <2>1, <2>2, <2>3
<1> QED
  BY <1>6, <1>7, <1>8, <1>9, <1>10, <1>11, <1>12 DEF Arrive

\* The state and the PATCHes of the controllers keep their types.
LEMMA ServerTyped ==
    ASSUME IInv, [Next]_vars
    PROVE  ServerTypes'
<1> USE DEF ServerTypes
<1>1. ServerTypes /\ app \in AppRec
  BY DEF IInv, Current
<1>2. ASSUME NEW r \in app.net, NEW ok \in BOOLEAN, Arrive(r, ok)
      PROVE  ServerTypes'
  <2>1. /\ up' = up /\ tunState' = tunState
    BY <1>2 DEF Arrive
  <2>2. r.to \in Endpoints
    BY <1>1 DEF AppRec, Request
  <2>3. CASE TunReadArrives(r, ok)
    <3> DEFINE t == IF ok THEN Publish(Taken(r), r) ELSE Taken(r)
    <3>1. t.tunRequested = app.tunRequested
      BY <1>1 DEF Publish, Taken, AppRec
    <3>2. wire' = wire \/ wire' = wire \cup {[to |-> r.to, tun |-> t.tunRequested]}
      BY <2>3 DEF TunReadArrives
    <3>3. app.tunRequested \in Tun
      BY <1>1 DEF AppRec
    <3> QED
      BY <1>1, <2>1, <2>2, <3>1, <3>2, <3>3
  <2>4. CASE ~TunReadArrives(r, ok)
    BY <1>1, <1>2, <2>1, <2>4
       DEF Arrive, VersionArrives, SnapshotArrives, ConfigsArrive, TunPatchArrives,
           TunConfirmArrives, OperationArrives
  <2> QED
    BY <2>3, <2>4
<1>3. ASSUME NEW p \in wire, NEW works \in BOOLEAN, ControllerPatches(p, works)
      PROVE  ServerTypes'
  BY <1>1, <1>3 DEF ControllerPatches
<1>4. ASSUME NEW e \in Endpoints, ControllerStops(e) \/ ControllerStarts(e)
      PROVE  ServerTypes'
  BY <1>1, <1>4 DEF ControllerStops, ControllerStarts
<1>5. ASSUME UNCHANGED server
      PROVE  ServerTypes'
  BY <1>1, <1>5 DEF server
<1> QED
  BY <1>2, <1>3, <1>4, <1>5
     DEF Next, vars, server, CallSetEndpoint, CallOpenStream, StreamOpens, StreamDrops,
         StreamRetries, Poll, StreamSpeaks, RequestTunChange, CallOperation, ControllerReads

-----------------------------------------------------------------------------
(* The theorem *)

\* Init: nothing is shown and everything has just been asked for.
LEMMA InitIInv == Init => IInv
<1> SUFFICES ASSUME Init PROVE IInv
  OBVIOUS
<1>1. ServerTypes
  BY DEF Init, ServerTypes, Tun
<1>2. PICK e \in Endpoints :
         app = RefreshState([endpoint |-> e, connected |-> FALSE, tunPending |-> FALSE,
                tunRequested |-> "off", lastTun |-> "off", net |-> {},
                known |-> FALSE, tun |-> "off", pending |-> FALSE,
                shown |-> [p \in Panes |-> Nothing],
                streams |-> [x \in Streams |-> OpenStream(e)]])
  BY DEF Init
<1> DEFINE shown == [p \in Panes |-> Nothing]
           streams == [x \in Streams |-> OpenStream(e)]
           s == [endpoint |-> e, connected |-> FALSE, tunPending |-> FALSE,
                 tunRequested |-> "off", lastTun |-> "off", net |-> {},
                 known |-> FALSE, tun |-> "off", pending |-> FALSE,
                 shown |-> shown, streams |-> streams]
<1>3. app = RefreshState(s)
  BY <1>2
<1>4. /\ shown \in [Panes -> {Nothing} \cup [from : Endpoints, old : BOOLEAN]]
      /\ \A p \in Panes : shown[p] = Nothing
  OBVIOUS
<1>5. /\ streams \in [Streams -> StreamRec]
      /\ \A x \in Streams : streams[x].to = e
  BY DEF OpenStream, StreamRec
<1> HIDE DEF shown, streams
<1>6. s \in AppRec
  BY <1>4, <1>5 DEF AppRec, Tun
<1>7. Current(s)
  BY <1>4, <1>5, <1>6 DEF Current, Awaited, Shown, Joined
<1> HIDE DEF s
<1>8. Current(app)
  BY <1>3, <1>7, RefreshCurrent
<1> QED
  BY <1>1, <1>8 DEF IInv

\* Next: one step per action, each by what its member function keeps.
LEMMA NextIInv == IInv /\ [Next]_vars => IInv'
<1> SUFFICES ASSUME IInv, [Next]_vars PROVE IInv'
  OBVIOUS
<1>1. Current(app) /\ app \in AppRec
  BY DEF IInv, Current
<1>2. ASSUME NEW e \in Endpoints, CallSetEndpoint(e) PROVE Current(app')
  BY <1>1, <1>2, SetEndpointCurrent DEF CallSetEndpoint
<1>3. ASSUME NEW x \in Streams, CallOpenStream(x) PROVE Current(app')
  BY <1>1, <1>3, StreamCurrent DEF CallOpenStream, OpenStream
<1>4. ASSUME NEW x \in Streams, StreamOpens(x) PROVE Current(app')
  <2> DEFINE t == [app EXCEPT !.streams[x].phase = "open"]
  <2>1. Current(t)
    BY <1>1, StreamCurrent
  <2>2. app' = RefreshState(t) \/ app' = t
    BY <1>4 DEF StreamOpens
  <2> HIDE DEF t
  <2> QED
    BY <2>1, <2>2, RefreshCurrent
<1>5. ASSUME NEW x \in Streams, StreamDrops(x) PROVE Current(app')
  BY <1>1, <1>5, DropCurrent DEF StreamDrops
<1>6. ASSUME NEW x \in Streams, StreamRetries(x) PROVE Current(app')
  BY <1>1, <1>6, StreamCurrent DEF StreamRetries
<1>7. ASSUME StreamSpeaks PROVE Current(app')
  <2> DEFINE r == [from |-> app.streams["connections"].to, old |-> FALSE]
             shown == [app.shown EXCEPT !["connections"] = r]
  <2>1. /\ r \in [from : Endpoints, old : BOOLEAN]
        /\ r.from = app.endpoint /\ ~r.old /\ "connections" \in Panes
    BY <1>1, <1>7 DEF StreamSpeaks, Current, Joined, AppRec, Panes
  <2> HIDE DEF r
  <2>2. /\ shown \in [Panes -> {Nothing} \cup [from : Endpoints, old : BOOLEAN]]
        /\ \A p \in Panes : shown[p] = r \/ shown[p] = app.shown[p]
    BY <1>1, <2>1 DEF AppRec
  <2>3. app' = [app EXCEPT !.shown = shown]
    BY <1>1, <1>7 DEF StreamSpeaks, AppRec, r
  <2> HIDE DEF shown
  <2>4. /\ app' \in AppRec /\ app'.net = app.net /\ app'.endpoint = app.endpoint
        /\ app'.shown = shown /\ app'.streams = app.streams
    BY <1>1, <2>2, <2>3 DEF AppRec
  <2> QED
    BY <1>1, <2>1, <2>2, <2>4 DEF Current, Awaited, Shown, Joined
<1>8. ASSUME Poll PROVE Current(app')
  BY <1>1, <1>8, SendAllCurrent, KindsAreKinds DEF Poll
<1>9. ASSUME NEW value \in Tun, RequestTunChange(value) PROVE Current(app')
  BY <1>1, <1>9, TunChangeCurrent
<1>10. ASSUME NEW kind \in Operations \cup ProviderKinds, CallOperation(kind) PROVE Current(app')
  BY <1>1, <1>10, SendCurrent, FetchProvidersCurrent, KindsAreKinds DEF CallOperation
<1>11. ASSUME NEW r \in app.net, ControllerReads(r) PROVE Current(app')
  BY <1>11, ControllersCurrent
<1>12. ASSUME NEW p \in wire, NEW works \in BOOLEAN, ControllerPatches(p, works) PROVE Current(app')
  BY <1>12, ControllersCurrent
<1>13. ASSUME NEW r \in app.net, NEW ok \in BOOLEAN, Arrive(r, ok) PROVE Current(app')
  BY <1>13, ArriveCurrent
<1>14. ASSUME UNCHANGED app PROVE Current(app')
  BY <1>1, <1>14
<1>15. Current(app')
  BY <1>2, <1>3, <1>4, <1>5, <1>6, <1>7, <1>8, <1>9, <1>10, <1>11, <1>12, <1>13, <1>14
     DEF Next, vars, ControllerStops, ControllerStarts
<1> QED
  BY <1>15, ServerTyped DEF IInv, Current, Awaited, Shown, Joined

\* What any page shows is of the present controller, and of its present
\* epoch: no answer that was on its way when the controller was lost or
\* exchanged fills a page that was cleared (MihomoClient::setConnected(),
\* MihomoClient::setEndpoint(), ProviderClient::setEndpoint()).
THEOREM PagesAreCurrent == Spec => []NothingOldIsShown
<1>1. IInv => NothingOldIsShown
  BY DEF IInv, Current, Shown, Joined, NothingOldIsShown
<1> QED
  BY <1>1, InitIInv, NextIInv, PTL DEF Spec

-----------------------------------------------------------------------------
(* The TUN switch: what leaves a change alone *)

\* From s to t no change of TUN begins, goes on or ends, and nothing that
\* was read is added.
Calm(s, t) ==
    /\ t.tunPending = s.tunPending /\ t.pending = s.pending /\ t.tun = s.tun
    /\ t.lastTun = s.lastTun /\ t.known = s.known /\ t.endpoint = s.endpoint
    /\ s.connected => t.connected
    /\ \A r \in t.net : r \in s.net \/ (r.kind \notin TunSteps /\ r.reading = "none")
    /\ \A r \in s.net : r.kind \in TunSteps => r \in t.net

\* No change is pending and none of its steps is awaited.
Idle(s) ==
    /\ s.tunPending = FALSE /\ s.pending = FALSE /\ (s.known => s.tun = s.lastTun)
    /\ \A r \in s.net : r.kind \notin TunSteps

\* Calm steps follow each other.
LEMMA CalmTransitive ==
    ASSUME NEW s, NEW t, NEW u, Calm(s, t), Calm(t, u)
    PROVE  Calm(s, u)
BY DEF Calm

\* A calm step keeps the switch in line with the client.
LEMMA CalmSwitch ==
    ASSUME NEW s, NEW t, Switch(s), Calm(s, t)
    PROVE  Switch(t)
BY DEF Switch, Calm, Awaits

\* A calm step, of which the controllers take no notice, keeps the invariant.
LEMMA CalmTun ==
    ASSUME TunInv, Calm(app, app'), applied' = applied, tunState' = tunState
    PROVE  TunInv'
<1>1. Switch(app')
  BY CalmSwitch DEF TunInv
<1>2. Switch(app)'
  BY <1>1 DEF Switch, Awaits
<1>3. Told'
  BY DEF Told, TunInv, Calm, TunSteps
<1> QED
  BY <1>2, <1>3 DEF TunInv

\* An idle client of which nothing was said is in line with anything.
LEMMA IdleTun ==
    ASSUME Idle(app'), applied' = "none"
    PROVE  TunInv'
<1>1. Switch(app)'
  BY DEF Idle, Switch, Awaits
<1>2. Told'
  BY DEF Idle, Told, TunSteps, Tun
<1> QED
  BY <1>1, <1>2 DEF TunInv

\* What is sent besides the steps of a change is calm, and idle when it was.
LEMMA SendAllCalm ==
    ASSUME NEW s \in AppRec, NEW kinds, kinds \subseteq Kinds, kinds \cap TunSteps = {}
    PROVE  /\ Calm(s, SendAll(s, kinds))
           /\ Idle(s) => Idle(SendAll(s, kinds))
           /\ SendAll(s, kinds) \in AppRec
<1> DEFINE sent == [kind : kinds, to : {s.endpoint}, reading : {"none"},
                    fresh : {TRUE}, old : {FALSE}]
           t == SendAll(s, kinds)
<1>1. sent \subseteq Request
  BY DEF Request, AppRec
<1>2. \A r \in sent : r.kind \notin TunSteps /\ r.reading = "none"
  OBVIOUS
<1>3. t = [s EXCEPT !.net = @ \cup sent]
  BY DEF SendAll
<1> HIDE DEF sent, t
<1>4. /\ t \in AppRec /\ t.net = s.net \cup sent /\ t.endpoint = s.endpoint
      /\ t.tunPending = s.tunPending /\ t.pending = s.pending /\ t.tun = s.tun
      /\ t.lastTun = s.lastTun /\ t.known = s.known /\ t.connected = s.connected
  BY <1>1, <1>3 DEF AppRec
<1>5. Calm(s, t) /\ (Idle(s) => Idle(t))
  BY <1>2, <1>4 DEF Calm, Idle
<1> QED
  BY <1>4, <1>5 DEF t

\* The kinds that are not steps of a change.
LEMMA OtherKinds ==
    /\ (Lists \cup {"version", "configs"}) \cap TunSteps = {}
    /\ {"version", "proxies"} \cap TunSteps = {}
    /\ \A kind \in Operations \cup {"operate", "providers", "proxies", "configs", "rules"} :
           {kind} \cap TunSteps = {} /\ {kind} \subseteq Kinds
BY ListAssumption DEF TunSteps, Operations, ProviderKinds, Kinds, Polls

\* One request, a refresh, and the lists of the providers.
LEMMA SendCalm ==
    ASSUME NEW s \in AppRec,
           NEW kind \in Operations \cup {"operate", "providers", "proxies", "configs", "rules"}
    PROVE  Calm(s, Send(s, kind)) /\ Send(s, kind) \in AppRec
BY SendAllCalm, OtherKinds DEF Send

LEMMA RefreshCalm ==
    ASSUME NEW s \in AppRec
    PROVE  Calm(s, RefreshState(s)) /\ (Idle(s) => Idle(RefreshState(s)))
BY SendAllCalm, OtherKinds, KindsAreKinds DEF RefreshState

LEMMA FetchProvidersCalm ==
    ASSUME NEW s \in AppRec
    PROVE  Calm(s, FetchProviders(s))
<1>1. Calm(s, s)
  BY DEF Calm
<1> QED
  BY <1>1, SendCalm DEF FetchProviders

\* To take a reply that is no step of a change is calm.
LEMMA TakenCalm ==
    ASSUME app \in AppRec, NEW r \in app.net
    PROVE  /\ Taken(r) \in AppRec
           /\ r.kind \notin TunSteps => Calm(app, Taken(r))
<1> DEFINE t == Taken(r)
<1>1. /\ t \in AppRec /\ t.net = app.net \ {r} /\ t.endpoint = app.endpoint
      /\ t.tunPending = app.tunPending /\ t.pending = app.pending /\ t.tun = app.tun
      /\ t.lastTun = app.lastTun /\ t.known = app.known /\ t.connected = app.connected
  BY DEF Taken, AppRec
<1> HIDE DEF t
<1>2. r.kind \notin TunSteps => Calm(app, t)
  BY <1>1 DEF Calm
<1> QED
  BY <1>1, <1>2 DEF t

\* The members that only pages and streams are about.
LEMMA ViewsCalm ==
    ASSUME NEW s \in AppRec, NEW shown, NEW streams
    PROVE  /\ Calm(s, [s EXCEPT !.shown = shown])
           /\ Calm(s, [s EXCEPT !.streams = streams])
BY DEF Calm, AppRec

-----------------------------------------------------------------------------
(* The TUN switch: how a change ends *)

\* FinishTun() sets the switch to the last reading and outdates the rest.
LEMMA FinishTunIdle ==
    ASSUME NEW s \in AppRec, s.pending = s.tunPending, s.known => s.tun = s.lastTun
    PROVE  LET f == FinishTun(s, s.lastTun)
           IN /\ f \in AppRec /\ ~f.tunPending /\ ~f.pending
              /\ f.known = s.known /\ f.lastTun = s.lastTun /\ (f.known => f.tun = f.lastTun)
              /\ f.endpoint = s.endpoint
              /\ s.tunPending => f.tun = s.lastTun /\ \A r \in f.net : ~r.fresh
              /\ \A r \in f.net : \E q \in s.net : r.kind = q.kind
<1> DEFINE f == FinishTun(s, s.lastTun)
           marked == {[r EXCEPT !.fresh = FALSE] : r \in s.net}
<1>1. s.lastTun \in Tun
  BY DEF AppRec
<1>2. f \in AppRec /\ f.endpoint = s.endpoint /\ \A r \in f.net : \E q \in s.net : r.kind = q.kind
  BY <1>1, FinishTunTyped
<1>3. CASE ~s.tunPending
  BY <1>2, <1>3 DEF FinishTun
<1>4. CASE s.tunPending
  <2>1. f = [s EXCEPT !.tunPending = FALSE, !.pending = FALSE, !.tun = s.lastTun, !.net = marked]
    BY <1>4 DEF FinishTun
  <2>2. \A r \in s.net : [r EXCEPT !.fresh = FALSE].fresh = FALSE
    <3> TAKE r \in s.net
    <3>1. r \in Request
      BY DEF AppRec
    <3> QED
      BY <3>1 DEF Request
  <2>3. \A r \in marked : ~r.fresh
    BY <2>2
  <2> HIDE DEF marked, f
  <2>4. /\ f.net = marked /\ ~f.tunPending /\ ~f.pending /\ f.tun = s.lastTun
        /\ f.lastTun = s.lastTun /\ f.known = s.known
    BY <2>1 DEF AppRec
  <2> QED
    BY <1>2, <2>3, <2>4 DEF f
<1> QED
  BY <1>3, <1>4

\* A client that is found offline is idle.
LEMMA OfflineIdle ==
    ASSUME NEW s \in AppRec, Switch(s)
    PROVE  Idle(SetConnected(s, FALSE))
<1>1. CASE s.connected = FALSE
  BY <1>1 DEF SetConnected, Switch, Idle, AppRec
<1>2. CASE s.connected # FALSE
  <2> DEFINE f == FinishTun(s, s.lastTun)
             shown == [p \in Panes |-> IF p = "providers" THEN f.shown[p] ELSE Nothing]
             t == [f EXCEPT !.connected = FALSE, !.lastTun = "off", !.net = Supersede(f.net),
                      !.shown = shown, !.known = FALSE, !.tun = "off", !.pending = FALSE]
  <2>1. f \in AppRec /\ ~f.tunPending
    BY FinishTunIdle DEF Switch
  <2>2. SetConnected(s, FALSE) = t
    BY <1>2, <2>1 DEF SetConnected, AppRec
  <2> HIDE DEF f
  <2>3. \A r \in Supersede(f.net) : r.kind \notin TunSteps
    BY DEF Supersede, ProviderKinds, TunSteps
  <2> HIDE DEF shown
  <2>4. t.net = Supersede(f.net) /\ t.tunPending = FALSE /\ t.pending = FALSE /\ ~t.known
    BY <2>1 DEF AppRec
  <2> HIDE DEF t
  <2> QED
    BY <2>2, <2>3, <2>4 DEF Idle
<1> QED
  BY <1>1, <1>2

\* To be found offline begins no change.
LEMMA OfflineEndsChange ==
    ASSUME NEW s \in AppRec, ~s.tunPending
    PROVE  ~SetConnected(s, FALSE).tunPending
<1>1. CASE s.connected = FALSE
  BY <1>1 DEF SetConnected
<1>2. CASE s.connected # FALSE
  <2> DEFINE shown == [p \in Panes |-> IF p = "providers" THEN s.shown[p] ELSE Nothing]
             t == [s EXCEPT !.connected = FALSE, !.lastTun = "off", !.net = Supersede(s.net),
                      !.shown = shown, !.known = FALSE, !.tun = "off", !.pending = FALSE]
  <2>1. FinishTun(s, s.lastTun) = s
    BY DEF FinishTun
  <2>2. SetConnected(s, FALSE) = t
    BY <1>2, <2>1 DEF SetConnected, AppRec
  <2> HIDE DEF shown
  <2>3. ~t.tunPending
    BY DEF AppRec
  <2> QED
    BY <2>2, <2>3
<1> QED
  BY <1>1, <1>2

\* A client that is pointed elsewhere is idle.
LEMMA ElsewhereIdle ==
    ASSUME NEW s \in AppRec, Switch(s), NEW e \in Endpoints, e # s.endpoint
    PROVE  Idle(SetEndpoint(s, e))
<1> DEFINE f == FinishTun(s, s.lastTun)
           t == [f EXCEPT !.lastTun = "off", !.endpoint = e]
           u == [t EXCEPT !.net = Supersede(t.net)]
           d == SetConnected(u, FALSE)
           net == {r \in d.net : r.kind \notin ProviderKinds}
           shown == [p \in Panes |-> Nothing]
           streams == [x \in Streams |-> OpenStream(e)]
           n == [d EXCEPT !.shown = shown, !.known = FALSE, !.tun = "off",
                    !.pending = FALSE, !.net = net, !.streams = streams]
<1>1. f \in AppRec /\ ~f.tunPending
  BY FinishTunIdle DEF Switch
<1> HIDE DEF f
<1>2. t \in AppRec /\ ~t.tunPending
  BY <1>1 DEF AppRec, Tun
<1> HIDE DEF t
<1>3. Supersede(t.net) \subseteq t.net /\ \A r \in Supersede(t.net) : r.kind \in ProviderKinds
  BY DEF Supersede
<1>4. u \in AppRec /\ ~u.tunPending /\ u.net = Supersede(t.net)
  BY <1>2, <1>3 DEF AppRec
<1>5. u = [t EXCEPT !.net = Supersede(@)]
  BY <1>2 DEF AppRec
<1> HIDE DEF u
<1>6. d \in AppRec /\ ~d.tunPending /\ \A r \in d.net : r.kind \in ProviderKinds
  BY <1>3, <1>4, OfflineTyped, OfflineEndsChange
<1>7. SetEndpoint(s, e) = RefreshState(n)
  <2>1. SetEndpoint(s, e) = RefreshState([d EXCEPT
              !.shown = [p \in Panes |-> Nothing], !.known = FALSE, !.tun = "off",
              !.pending = FALSE, !.net = {r \in @ : r.kind \notin ProviderKinds},
              !.streams = [x \in Streams |-> OpenStream(e)]])
    BY <1>5 DEF SetEndpoint, d, t, f
  <2>2. n = [d EXCEPT
              !.shown = [p \in Panes |-> Nothing], !.known = FALSE, !.tun = "off",
              !.pending = FALSE, !.net = {r \in @ : r.kind \notin ProviderKinds},
              !.streams = [x \in Streams |-> OpenStream(e)]]
    BY <1>6 DEF AppRec
  <2> QED
    BY <2>1, <2>2
<1> HIDE DEF d
<1>8. net = {}
  BY <1>6
<1>9. shown \in [Panes -> {Nothing} \cup [from : Endpoints, old : BOOLEAN]]
  OBVIOUS
<1>10. streams \in [Streams -> StreamRec]
  BY DEF OpenStream, StreamRec
<1> HIDE DEF net, shown, streams
<1>11. n \in AppRec
  BY <1>6, <1>8, <1>9, <1>10 DEF AppRec, Tun
<1>12. n.net = {} /\ n.tunPending = FALSE /\ n.pending = FALSE /\ ~n.known
  BY <1>6, <1>8 DEF AppRec
<1> HIDE DEF n
<1>13. Idle(n)
  BY <1>12 DEF Idle
<1> QED
  BY <1>7, <1>11, <1>13, RefreshCalm

-----------------------------------------------------------------------------
(* The TUN switch: the steps of a change *)

\* A step is sent when no other is awaited, and has read nothing yet.
LEMMA StepSent ==
    ASSUME NEW s \in AppRec, NEW kind \in TunSteps,
           s.tunPending = TRUE, s.pending = TRUE, s.connected,
           s.known => s.tun = s.lastTun, \A q \in s.net : q.kind \notin TunSteps,
           app' = Send(s, kind), applied' \in {"none", "late"}
    PROVE  TunInv'
<1> DEFINE new == [kind |-> kind, to |-> s.endpoint, reading |-> "none",
                   fresh |-> TRUE, old |-> FALSE]
           sent == [kind : {kind}, to : {s.endpoint}, reading : {"none"},
                    fresh : {TRUE}, old : {FALSE}]
<1>1. sent = {new}
  <2>1. new \in sent
    OBVIOUS
  <2>2. ASSUME NEW r \in sent PROVE r = new
    <3>1. /\ r.kind = kind /\ r.to = s.endpoint /\ r.reading = "none"
          /\ r.fresh = TRUE /\ r.old = FALSE
      OBVIOUS
    <3>2. r = [kind |-> r.kind, to |-> r.to, reading |-> r.reading,
               fresh |-> r.fresh, old |-> r.old]
      OBVIOUS
    <3> QED
      BY <3>1, <3>2
  <2> HIDE DEF new, sent
  <2> QED
    BY <2>1, <2>2
<1>2. app' = [s EXCEPT !.net = @ \cup sent]
  BY DEF Send, SendAll
<1>3. new.kind = kind /\ new.reading = "none"
  OBVIOUS
<1> HIDE DEF sent, new
<1>4. /\ app'.net = s.net \cup {new}
      /\ app'.tunPending = TRUE /\ app'.pending = TRUE /\ app'.connected = s.connected
      /\ app'.tun = s.tun /\ app'.lastTun = s.lastTun /\ app'.known = s.known
  BY <1>1, <1>2 DEF AppRec
<1>5. \A r \in app'.net : r.kind \in TunSteps => r = new
  BY <1>4
<1>6. Switch(app)'
  BY <1>3, <1>4, <1>5 DEF Switch, Awaits
<1>7. Told'
  BY <1>3, <1>5 DEF Told, TunSteps, Tun
<1> QED
  BY <1>6, <1>7 DEF TunInv

\* The change ends, and what is said of it has been read and is so.
LEMMA ChangeEnds ==
    ASSUME IInv, TunInv, NEW r \in app.net, r.kind \in {"tunRead", "tunConfirm"},
           NEW u \in AppRec, u.net = app.net \ {r}, u.tunPending = TRUE, u.pending = TRUE,
           u.known => u.tun = u.lastTun, u.endpoint = app.endpoint,
           app' = FinishTun(u, u.lastTun), tunState' = tunState,
           \/ applied' = applied
           \/ /\ applied = "none" /\ applied' = r.reading
              /\ r.reading \in Tun /\ u.lastTun = r.reading
    PROVE  TunInv'
<1>1. /\ app'.tunPending = FALSE /\ app'.pending = FALSE
      /\ app'.known => app'.tun = app'.lastTun
      /\ app'.endpoint = app.endpoint /\ app'.tun = u.lastTun
      /\ \A q \in app'.net : ~q.fresh
      /\ \A q \in app'.net : \E k \in u.net : q.kind = k.kind
  BY FinishTunIdle DEF AppRec
<1>2. /\ app.tunPending /\ \A q \in u.net : q.kind \notin TunSteps
  BY DEF TunInv, Switch, TunSteps
<1>3. r.to = app.endpoint
  BY DEF IInv, Current, Awaited
<1>4. Switch(app)'
  BY <1>1, <1>2 DEF Switch, Awaits
<1>5. applied \in {"none", "late"}
  BY <1>2 DEF TunInv, Told
<1>6. CASE applied' = applied
  BY <1>1, <1>2, <1>4, <1>5, <1>6 DEF TunInv, Told, TunSteps, Tun
<1>7. CASE applied = "none" /\ applied' = r.reading /\ r.reading \in Tun /\ u.lastTun = r.reading
  <2>1. r.reading = tunState[r.to]
    BY <1>7 DEF TunInv, Told, Tun
  <2> QED
    BY <1>1, <1>3, <1>4, <1>7, <2>1 DEF TunInv, Told, Tun
<1> QED
  BY <1>6, <1>7

\* What Taken() and Publish() leave alone.
LEMMA PublishFields ==
    ASSUME app \in AppRec, NEW r \in app.net
    PROVE  /\ LET t == Taken(r)
              IN /\ t.net = app.net \ {r} /\ t.tunPending = app.tunPending
                 /\ t.pending = app.pending /\ t.connected = app.connected
                 /\ t.known = app.known /\ t.tun = app.tun /\ t.lastTun = app.lastTun
                 /\ t.endpoint = app.endpoint /\ t \in AppRec
           /\ r.reading \in Tun =>
                LET t == Publish(Taken(r), r)
                IN /\ t.net = app.net \ {r} /\ t.tunPending = app.tunPending
                   /\ t.pending = app.pending /\ t.connected = app.connected
                   /\ t.known = TRUE /\ t.tun = r.reading /\ t.lastTun = r.reading
                   /\ t.endpoint = app.endpoint /\ t \in AppRec
<1> DEFINE t == Taken(r)
           p == Publish(t, r)
<1>1. /\ t.net = app.net \ {r} /\ t.tunPending = app.tunPending
      /\ t.pending = app.pending /\ t.connected = app.connected
      /\ t.known = app.known /\ t.tun = app.tun /\ t.lastTun = app.lastTun
      /\ t.endpoint = app.endpoint /\ t \in AppRec
  BY DEF Taken, AppRec
<1> HIDE DEF t
<1>2. r.reading \in Tun =>
         /\ p.net = t.net /\ p.tunPending = t.tunPending
         /\ p.pending = t.pending /\ p.connected = t.connected
         /\ p.known = TRUE /\ p.tun = r.reading /\ p.lastTun = r.reading
         /\ p.endpoint = t.endpoint /\ p \in AppRec
  BY <1>1 DEF Publish, AppRec
<1> QED
  BY <1>1, <1>2 DEF t

\* The switch is moved: the first step is sent.
LEMMA RequestKeepsTun ==
    ASSUME IInv, TunInv, NEW value \in Tun, RequestTunChange(value)
    PROVE  TunInv'
<1> DEFINE Mark(r) == [r EXCEPT !.fresh = FALSE]
           marked == {Mark(r) : r \in app.net}
           t == [app EXCEPT !.pending = TRUE, !.tunPending = TRUE, !.tunRequested = value,
                            !.net = marked]
<1>1. app \in AppRec /\ app.connected /\ ~app.tunPending
      /\ \A r \in app.net : r.kind \notin TunSteps
  BY DEF IInv, Current, TunInv, Switch, RequestTunChange
<1>2. app' = Send(t, "tunRead") /\ applied' = "none"
  BY <1>1 DEF RequestTunChange, AppRec
<1>3. \A r \in app.net : Mark(r) \in Request /\ Mark(r).kind \notin TunSteps
  <2> TAKE r \in app.net
  <2>1. r \in Request /\ r.kind \notin TunSteps
    BY <1>1 DEF AppRec
  <2> QED
    BY <2>1 DEF Request
<1> HIDE DEF Mark
<1>4. marked \subseteq Request /\ \A r \in marked : r.kind \notin TunSteps
  BY <1>3
<1> HIDE DEF marked
<1>5. /\ t \in AppRec /\ t.net = marked /\ t.tunPending = TRUE /\ t.pending = TRUE
      /\ t.connected = app.connected /\ t.known = app.known
      /\ t.tun = app.tun /\ t.lastTun = app.lastTun
  BY <1>1, <1>4 DEF AppRec
<1> HIDE DEF t
<1>6. t.known => t.tun = t.lastTun
  BY <1>5 DEF TunInv, Switch
<1> QED
  BY <1>1, <1>2, <1>4, <1>5, <1>6, StepSent DEF TunSteps

\* A step that was awaited: the change is pending, and no other step is.
LEMMA StepAwaited ==
    ASSUME IInv, TunInv, NEW r \in app.net, r.kind \in TunSteps
    PROVE  /\ app.tunPending = TRUE /\ app.pending = TRUE /\ app.connected
           /\ \A q \in app.net \ {r} : q.kind \notin TunSteps
           /\ applied \in {"none", "late"} /\ r.to = app.endpoint
<1>1. app \in AppRec /\ r.to = app.endpoint
  BY DEF IInv, Current, Awaited
<1>2. app.tunPending = TRUE /\ app.pending = TRUE /\ app.connected
  BY <1>1 DEF TunInv, Switch, AppRec
<1>3. \A q \in app.net \ {r} : q.kind \notin TunSteps
  BY DEF TunInv, Switch
<1>4. applied \in {"none", "late"}
  BY <1>2 DEF TunInv, Told
<1> QED
  BY <1>1, <1>2, <1>3, <1>4

\* TUN was read before the change: it is patched, or nothing is to be done.
LEMMA TunReadKeepsTun ==
    ASSUME IInv, TunInv, NEW r \in app.net, NEW ok \in BOOLEAN,
           Arrive(r, ok), TunReadArrives(r, ok)
    PROVE  TunInv'
<1> DEFINE u == IF ok THEN Publish(Taken(r), r) ELSE Taken(r)
           change == ok /\ r.reading # u.tunRequested
<1>1. /\ r.kind = "tunRead" /\ r.kind \in TunSteps /\ app \in AppRec /\ tunState' = tunState
  BY DEF TunReadArrives, TunSteps, IInv, Current, Arrive
<1>2. ok => r.reading \in Tun
  <2>1. r \in Request
    BY <1>1 DEF AppRec
  <2> QED
    BY <1>1, <2>1 DEF Arrive, Succeeds, Request
<1>3. /\ app.tunPending = TRUE /\ app.pending = TRUE /\ app.connected
      /\ \A q \in app.net \ {r} : q.kind \notin TunSteps
      /\ applied \in {"none", "late"} /\ r.to = app.endpoint
  BY <1>1, StepAwaited
<1>4. /\ u \in AppRec /\ u.net = app.net \ {r} /\ u.tunPending = TRUE /\ u.pending = TRUE
      /\ u.connected /\ u.endpoint = app.endpoint /\ (ok => u.lastTun = r.reading)
      /\ u.known => u.tun = u.lastTun
  BY <1>1, <1>2, <1>3, PublishFields DEF TunInv, Switch
<1>5. /\ app' = IF change THEN Send(u, "tunPatch") ELSE FinishTun(u, u.lastTun)
      /\ applied' = IF ok /\ ~change /\ applied = "none" THEN r.reading ELSE applied
  BY DEF TunReadArrives
<1> HIDE DEF u
<1>6. CASE change
  <2>1. app' = Send(u, "tunPatch") /\ applied' \in {"none", "late"} /\ "tunPatch" \in TunSteps
    BY <1>3, <1>5, <1>6 DEF TunSteps
  <2> QED
    BY <1>3, <1>4, <2>1, StepSent
<1>7. CASE ~change
  <2>1. app' = FinishTun(u, u.lastTun)
    BY <1>5, <1>7
  <2>2. \/ applied' = applied
        \/ /\ applied = "none" /\ applied' = r.reading
           /\ r.reading \in Tun /\ u.lastTun = r.reading
    BY <1>2, <1>4, <1>5
  <2> QED
    BY <1>1, <1>4, <2>1, <2>2, ChangeEnds
<1> QED
  BY <1>6, <1>7

\* The PATCH was answered, or was not: TUN is read again.
LEMMA TunPatchKeepsTun ==
    ASSUME IInv, TunInv, NEW r \in app.net, NEW ok \in BOOLEAN, TunPatchArrives(r, ok)
    PROVE  TunInv'
<1> DEFINE t == Taken(r)
<1>1. r.kind \in TunSteps /\ app \in AppRec /\ "tunConfirm" \in TunSteps
  BY DEF TunPatchArrives, TunSteps, IInv, Current
<1>2. /\ app.tunPending = TRUE /\ app.pending = TRUE /\ app.connected
      /\ \A q \in app.net \ {r} : q.kind \notin TunSteps
      /\ applied \in {"none", "late"}
  BY <1>1, StepAwaited
<1>3. /\ t \in AppRec /\ t.net = app.net \ {r} /\ t.tunPending = TRUE /\ t.pending = TRUE
      /\ t.connected /\ (t.known => t.tun = t.lastTun)
  BY <1>1, <1>2, PublishFields DEF TunInv, Switch
<1>4. app' = Send(t, "tunConfirm") /\ applied' = applied
  BY DEF TunPatchArrives
<1> HIDE DEF t
<1> QED
  BY <1>1, <1>2, <1>3, <1>4, StepSent

\* What the change has made is known, or cannot be.
LEMMA TunConfirmKeepsTun ==
    ASSUME IInv, TunInv, NEW r \in app.net, NEW ok \in BOOLEAN,
           Arrive(r, ok), TunConfirmArrives(r, ok)
    PROVE  TunInv'
<1> DEFINE u == IF ok THEN Publish(Taken(r), r) ELSE Taken(r)
<1>1. /\ r.kind = "tunConfirm" /\ r.kind \in TunSteps /\ app \in AppRec /\ tunState' = tunState
  BY DEF TunConfirmArrives, TunSteps, IInv, Current, Arrive
<1>2. ok => r.reading \in Tun
  <2>1. r \in Request
    BY <1>1 DEF AppRec
  <2> QED
    BY <1>1, <2>1 DEF Arrive, Succeeds, Request
<1>3. app.tunPending = TRUE /\ app.pending = TRUE
  BY <1>1, StepAwaited
<1>4. /\ u \in AppRec /\ u.net = app.net \ {r} /\ u.tunPending = TRUE /\ u.pending = TRUE
      /\ u.endpoint = app.endpoint /\ (ok => u.lastTun = r.reading)
      /\ u.known => u.tun = u.lastTun
  BY <1>1, <1>2, <1>3, PublishFields DEF TunInv, Switch
<1>5. /\ app' = FinishTun(u, u.lastTun)
      /\ applied' = IF ok /\ r.reading = u.tunRequested /\ applied = "none"
                    THEN r.reading ELSE applied
  BY DEF TunConfirmArrives
<1> HIDE DEF u
<1>6. \/ applied' = applied
      \/ /\ applied = "none" /\ applied' = r.reading
         /\ r.reading \in Tun /\ u.lastTun = r.reading
  BY <1>2, <1>4, <1>5
<1> QED
  BY <1>1, <1>4, <1>5, <1>6, ChangeEnds

\* An ordinary reading is published if no change outdates it.
LEMMA ConfigsKeepTun ==
    ASSUME IInv, TunInv, NEW r \in app.net, NEW ok \in BOOLEAN,
           Arrive(r, ok), ConfigsArrive(r, ok)
    PROVE  TunInv'
<1> DEFINE t == Taken(r)
           u == Publish(t, r)
<1>1. /\ r.kind = "configs" /\ r.kind \notin TunSteps /\ app \in AppRec
      /\ tunState' = tunState /\ applied' = applied
  BY DEF ConfigsArrive, TunSteps, IInv, Current, Arrive
<1>2. Calm(app, t)
  BY <1>1, TakenCalm
<1>3. CASE ~(ok /\ r.fresh)
  <2>1. app' = t
    BY <1>3 DEF ConfigsArrive
  <2> HIDE DEF t
  <2> QED
    BY <1>1, <1>2, <2>1, CalmTun
<1>4. CASE ok /\ r.fresh
  <2>1. app' = u
    BY <1>4 DEF ConfigsArrive
  <2>2. r.reading \in Tun
    <3>1. r \in Request
      BY <1>1 DEF AppRec
    <3> QED
      BY <1>1, <1>4, <3>1 DEF Arrive, Succeeds, Request
  <2>3. /\ u.net = app.net \ {r} /\ u.tunPending = app.tunPending
        /\ u.pending = app.pending /\ u.connected = app.connected
        /\ u.tun = r.reading /\ u.lastTun = r.reading /\ u.endpoint = app.endpoint
    BY <1>1, <2>2, PublishFields
  <2> HIDE DEF t, u
  <2>4. Switch(app)'
    <3>1. app'.tunPending => Awaits(app', TunSteps)
      BY <1>1, <2>1, <2>3 DEF TunInv, Switch, Awaits
    <3> QED
      BY <2>1, <2>3, <3>1 DEF TunInv, Switch, Awaits
  <2>5. applied \in Tun => r.reading = applied
    BY <1>1, <1>4, <2>2 DEF TunInv, Told, Tun
  <2>6. Told'
    BY <1>1, <2>1, <2>3, <2>5 DEF TunInv, Told
  <2> QED
    BY <2>4, <2>6 DEF TunInv
<1> QED
  BY <1>3, <1>4

\* Whatever else arrives: nothing of a change, or the end of all.
LEMMA OthersKeepTun ==
    ASSUME IInv, TunInv, NEW r \in app.net, NEW ok \in BOOLEAN, Arrive(r, ok),
           VersionArrives(r, ok) \/ SnapshotArrives(r, ok) \/ OperationArrives(r, ok)
    PROVE  TunInv'
<1> DEFINE t == Taken(r)
<1>1. /\ app \in AppRec /\ tunState' = tunState /\ r.kind \notin TunSteps
  BY DEF IInv, Current, Arrive, VersionArrives, SnapshotArrives, OperationArrives,
         TunSteps, Operations
<1>2. t \in AppRec /\ Calm(app, t)
  BY <1>1, TakenCalm
<1> HIDE DEF t
<1>3. CASE VersionArrives(r, ok)
  <2>1. app' = SetConnected(t, ok) /\ applied' = IF ok THEN applied ELSE "none"
    BY <1>3 DEF VersionArrives, t
  <2>2. CASE ok
    <3>1. Calm(t, SetConnected(t, ok))
      BY <1>2, <2>2 DEF SetConnected, Calm, AppRec
    <3>2. Calm(app, app')
      BY <1>2, <2>1, <3>1, CalmTransitive
    <3> QED
      BY <1>1, <2>1, <2>2, <3>2, CalmTun
  <2>3. CASE ~ok
    <3>1. Switch(t)
      BY <1>2, CalmSwitch DEF TunInv
    <3>2. ok = FALSE
      BY <2>3
    <3>3. Idle(app')
      BY <1>2, <2>1, <3>1, <3>2, OfflineIdle
    <3> QED
      BY <2>1, <2>3, <3>3, IdleTun
  <2> QED
    BY <2>2, <2>3
<1>4. CASE SnapshotArrives(r, ok)
  <2>1. (app' = Show(t, r.kind, r) \/ app' = t) /\ applied' = applied
    BY <1>4 DEF SnapshotArrives, t
  <2>2. Calm(t, Show(t, r.kind, r))
    BY <1>2 DEF Show, Calm, AppRec
  <2>3. Calm(app, app')
    BY <1>2, <2>1, <2>2, CalmTransitive
  <2> QED
    BY <1>1, <2>1, <2>3, CalmTun
<1>5. CASE OperationArrives(r, ok)
  <2>1. /\ app' \in {Send(t, "proxies"), Send(t, "configs"), Send(t, "rules"),
                     FetchProviders(Send(t, "proxies")), t}
        /\ applied' = applied
    BY <1>5 DEF OperationArrives, t
  <2>2. /\ Calm(t, Send(t, "proxies")) /\ Calm(t, Send(t, "configs"))
        /\ Calm(t, Send(t, "rules")) /\ Send(t, "proxies") \in AppRec
    BY <1>2, SendCalm
  <2>3. Calm(t, FetchProviders(Send(t, "proxies")))
    BY <2>2, FetchProvidersCalm, CalmTransitive
  <2>4. Calm(app, app')
    BY <1>2, <2>1, <2>2, <2>3, CalmTransitive
  <2> QED
    BY <1>1, <2>1, <2>4, CalmTun
<1> QED
  BY <1>3, <1>4, <1>5

\* A controller reads TUN as it is.
LEMMA ReadKeepsTun ==
    ASSUME IInv, TunInv, NEW r \in app.net, ControllerReads(r)
    PROVE  TunInv'
<1> DEFINE q == [r EXCEPT !.reading = tunState[r.to]]
<1>1. /\ app \in AppRec /\ r \in Request /\ r.to = app.endpoint
      /\ applied' = applied /\ tunState' = tunState
  BY DEF IInv, Current, AppRec, Awaited, ControllerReads, server
<1>2. /\ q.kind = r.kind /\ q.reading = tunState[r.to] /\ q.to = r.to /\ q.fresh = r.fresh
  BY <1>1 DEF Request
<1> HIDE DEF q
<1>3. /\ app'.net = (app.net \ {r}) \cup {q} /\ app'.endpoint = app.endpoint
      /\ app'.tunPending = app.tunPending /\ app'.pending = app.pending
      /\ app'.connected = app.connected /\ app'.known = app.known
      /\ app'.tun = app.tun /\ app'.lastTun = app.lastTun
  BY <1>1 DEF ControllerReads, AppRec, q
<1>4. Switch(app)'
  <2>1. app'.tunPending => Awaits(app', TunSteps)
    BY <1>2, <1>3 DEF TunInv, Switch, Awaits
  <2>2. ASSUME NEW k \in app'.net, k.kind \in TunSteps
        PROVE  app'.tunPending /\ \A j \in app'.net : j.kind \in TunSteps => j = k
    BY <1>2, <1>3, <2>2 DEF TunInv, Switch
  <2> QED
    BY <1>3, <2>1, <2>2 DEF TunInv, Switch
<1>5. Told'
  BY <1>1, <1>2, <1>3 DEF TunInv, Told
<1> QED
  BY <1>4, <1>5 DEF TunInv

\* A PATCH is handled: that of the change, or one that comes late, or one at
\* a controller that is not the present one.
LEMMA PatchKeepsTun ==
    ASSUME IInv, TunInv, NEW p \in wire, NEW works \in BOOLEAN, ControllerPatches(p, works)
    PROVE  TunInv'
<1> DEFINE answered == {r \in app.net : /\ r.kind = "tunPatch" /\ r.to = p.to
                                       /\ p.tun = app.tunRequested}
           Read(r) == [r EXCEPT !.reading = p.tun]
           read == {Read(r) : r \in answered}
<1>1. /\ app \in AppRec /\ \A r \in app.net : r \in Request /\ r.to = app.endpoint
      /\ tunState \in [Endpoints -> Tun]
  BY DEF IInv, Current, AppRec, Awaited, ServerTypes
<1>2. \A r \in answered : r \in app.net /\ r.kind = "tunPatch" /\ r.to = p.to
  OBVIOUS
<1>3. \A r \in app.net : Read(r).kind = r.kind
  <2> TAKE r \in app.net
  <2>1. r \in Request
    BY <1>1
  <2> QED
    BY <2>1 DEF Request
<1>4. /\ app'.net = (app.net \ answered) \cup read /\ app'.endpoint = app.endpoint
      /\ app'.tunPending = app.tunPending /\ app'.pending = app.pending
      /\ app'.connected = app.connected /\ app'.known = app.known
      /\ app'.tun = app.tun /\ app'.lastTun = app.lastTun
  BY <1>1 DEF ControllerPatches, AppRec
<1>5. applied' = IF answered = {} /\ p.to = app.endpoint THEN "late" ELSE applied
  BY DEF ControllerPatches
<1>6. \A e \in Endpoints : e # p.to => tunState'[e] = tunState[e]
  BY <1>1 DEF ControllerPatches
<1> HIDE DEF answered, Read
<1>7. \A k \in read : k.kind = "tunPatch" /\ k.kind \in TunSteps
  BY <1>2, <1>3 DEF TunSteps
<1>8. CASE answered = {}
  <2>1. read = {}
    BY <1>8
  <2>2. app'.net = app.net
    BY <1>4, <1>8, <2>1
  <2>3. Switch(app)'
    BY <1>4, <2>2 DEF TunInv, Switch, Awaits
  <2>4. app.endpoint \in Endpoints
    BY <1>1 DEF AppRec
  <2>5. Told'
    <3>1. CASE p.to = app.endpoint
      BY <1>5, <1>8, <3>1 DEF Told, Tun
    <3>2. CASE p.to # app.endpoint
      <4>1. applied' = applied /\ tunState'[app.endpoint] = tunState[app.endpoint]
        BY <1>5, <1>6, <2>4, <3>2
      <4> QED
        BY <1>1, <1>4, <2>2, <4>1 DEF TunInv, Told
    <3> QED
      BY <3>1, <3>2
  <2> QED
    BY <2>3, <2>5 DEF TunInv
<1>9. CASE answered # {}
  <2>1. PICK a \in answered : TRUE
    BY <1>9
  <2>2. a \in app.net /\ a.kind \in TunSteps
    BY <1>2, <2>1 DEF TunSteps
  <2>3. /\ app.tunPending /\ \A q \in app.net : q.kind \in TunSteps => q = a
    BY <2>2 DEF TunInv, Switch
  <2>4. answered = {a}
    BY <1>2, <2>1, <2>3 DEF TunSteps
  <2>5. read = {Read(a)}
    BY <2>4
  <2>6. app'.net = (app.net \ {a}) \cup {Read(a)}
    BY <1>4, <2>4, <2>5
  <2>7. Read(a).kind \in TunSteps /\ Read(a).kind = "tunPatch"
    BY <1>7, <2>5
  <2>8. \A q \in app'.net : q.kind \in TunSteps => q = Read(a)
    BY <2>3, <2>6
  <2> HIDE DEF read
  <2>9. Switch(app)'
    <3>1. Awaits(app', TunSteps)
      BY <2>6, <2>7 DEF Awaits
    <3> QED
      BY <1>4, <2>3, <2>8, <3>1 DEF TunInv, Switch
  <2>10. applied' = applied /\ applied \in {"none", "late"}
    BY <1>5, <1>9, <2>3 DEF TunInv, Told
  <2>11. Told'
    BY <2>7, <2>8, <2>10 DEF Told, TunSteps, Tun
  <2> QED
    BY <2>9, <2>11 DEF TunInv
<1> QED
  BY <1>8, <1>9

-----------------------------------------------------------------------------
(* The TUN switch: the theorem *)

\* A stream that opens, drops or is opened again has no part in a change,
\* but for the traffic stream, whose end is the end of the connection.
LEMMA StreamsKeepTun ==
    ASSUME IInv, TunInv, NEW x \in Streams,
           CallOpenStream(x) \/ StreamOpens(x) \/ StreamDrops(x) \/ StreamRetries(x)
    PROVE  TunInv'
<1>1. app \in AppRec /\ Current(app) /\ tunState' = tunState
  BY DEF IInv, Current, CallOpenStream, StreamOpens, StreamDrops, StreamRetries, server
<1>2. /\ Calm(app, [app EXCEPT !.streams[x] = OpenStream(app.endpoint)])
      /\ \A phase \in {"connecting", "open", "waiting"} :
             Calm(app, [app EXCEPT !.streams[x].phase = phase])
  BY <1>1 DEF Calm, AppRec
<1>3. CASE CallOpenStream(x)
  BY <1>1, <1>2, <1>3, CalmTun DEF CallOpenStream
<1>4. CASE StreamRetries(x)
  BY <1>1, <1>2, <1>4, CalmTun DEF StreamRetries
<1>5. CASE StreamOpens(x)
  <2> DEFINE t == [app EXCEPT !.streams[x].phase = "open"]
  <2>1. t \in AppRec /\ Calm(app, t)
    BY <1>1, <1>2, StreamCurrent DEF Current
  <2>2. (app' = RefreshState(t) \/ app' = t) /\ applied' = applied
    BY <1>5 DEF StreamOpens
  <2> HIDE DEF t
  <2>3. Calm(app, app')
    BY <2>1, <2>2, RefreshCalm, CalmTransitive
  <2> QED
    BY <1>1, <2>2, <2>3, CalmTun
<1>6. CASE StreamDrops(x)
  <2> DEFINE t == [app EXCEPT !.streams[x].phase = "waiting"]
             c == [t EXCEPT !.shown["connections"] = Nothing]
  <2>1. t \in AppRec /\ Calm(app, t)
    BY <1>1, <1>2, StreamCurrent DEF Current
  <2>2. /\ x = "traffic" => app' = SetConnected(t, FALSE)
        /\ x # "traffic" => app' = c \/ app' = t
        /\ applied' = IF x = "traffic" THEN "none" ELSE applied
    BY <1>6 DEF StreamDrops, Drop
  <2> HIDE DEF t
  <2>3. CASE x = "traffic"
    <3>1. Switch(t)
      BY <2>1, CalmSwitch DEF TunInv
    <3> QED
      BY <2>1, <2>2, <2>3, <3>1, OfflineIdle, IdleTun
  <2>4. CASE x # "traffic"
    <3>1. Calm(t, c)
      BY <2>1 DEF Calm, AppRec
    <3>2. Calm(app, app')
      BY <2>1, <2>2, <2>4, <3>1, CalmTransitive
    <3> QED
      BY <1>1, <2>2, <2>4, <3>2, CalmTun
  <2> QED
    BY <2>3, <2>4
<1> QED
  BY <1>3, <1>4, <1>5, <1>6

\* What else the user asks for, and the poll: nothing of a change, but that
\* the client may be pointed elsewhere.
LEMMA CallsKeepTun ==
    ASSUME IInv, TunInv,
           \/ \E e \in Endpoints : CallSetEndpoint(e)
           \/ \E kind \in Operations \cup ProviderKinds : CallOperation(kind)
           \/ Poll \/ StreamSpeaks
    PROVE  TunInv'
<1>1. /\ app \in AppRec /\ tunState' = tunState
  BY DEF IInv, Current, CallSetEndpoint, CallOperation, Poll, StreamSpeaks, server
<1>2. ASSUME NEW e \in Endpoints, CallSetEndpoint(e)
      PROVE  TunInv'
  <2>1. CASE e = app.endpoint
    <3>1. app' = RefreshState(app) /\ applied' = applied
      BY <1>2, <2>1 DEF CallSetEndpoint, SetEndpoint
    <3> QED
      BY <1>1, <3>1, RefreshCalm, CalmTun
  <2>2. CASE e # app.endpoint
    <3>1. app' = SetEndpoint(app, e) /\ applied' = "none"
      BY <1>2, <2>2 DEF CallSetEndpoint
    <3> QED
      BY <1>1, <2>2, <3>1, ElsewhereIdle, IdleTun DEF TunInv
  <2> QED
    BY <2>1, <2>2
<1>3. ASSUME NEW kind \in Operations \cup ProviderKinds, CallOperation(kind)
      PROVE  TunInv'
  <2>1. /\ app' = IF kind = "providers" THEN FetchProviders(app) ELSE Send(app, kind)
        /\ applied' = applied
    BY <1>3 DEF CallOperation
  <2>2. Calm(app, app')
    BY <1>1, <2>1, FetchProvidersCalm, SendCalm DEF ProviderKinds
  <2> QED
    BY <1>1, <2>1, <2>2, CalmTun
<1>4. ASSUME Poll
      PROVE  TunInv'
  <2>1. Calm(app, app') /\ applied' = applied
    BY <1>1, <1>4, SendAllCalm, OtherKinds, KindsAreKinds DEF Poll
  <2> QED
    BY <1>1, <2>1, CalmTun
<1>5. ASSUME StreamSpeaks
      PROVE  TunInv'
  <2>1. Calm(app, app') /\ applied' = applied
    BY <1>1, <1>5 DEF StreamSpeaks, Calm, AppRec
  <2> QED
    BY <1>1, <2>1, CalmTun
<1> QED
  BY <1>2, <1>3, <1>4, <1>5

\* Init: the client has asked for everything, and no change was.
LEMMA InitTun == Init => TunInv
<1> SUFFICES ASSUME Init PROVE TunInv
  OBVIOUS
<1>1. PICK e \in Endpoints :
         app = RefreshState([endpoint |-> e, connected |-> FALSE, tunPending |-> FALSE,
                tunRequested |-> "off", lastTun |-> "off", net |-> {},
                known |-> FALSE, tun |-> "off", pending |-> FALSE,
                shown |-> [p \in Panes |-> Nothing],
                streams |-> [x \in Streams |-> OpenStream(e)]])
  BY DEF Init
<1> DEFINE shown == [p \in Panes |-> Nothing]
           streams == [x \in Streams |-> OpenStream(e)]
           s == [endpoint |-> e, connected |-> FALSE, tunPending |-> FALSE,
                 tunRequested |-> "off", lastTun |-> "off", net |-> {},
                 known |-> FALSE, tun |-> "off", pending |-> FALSE,
                 shown |-> shown, streams |-> streams]
<1>2. app = RefreshState(s)
  BY <1>1
<1>3. /\ shown \in [Panes -> {Nothing} \cup [from : Endpoints, old : BOOLEAN]]
      /\ streams \in [Streams -> StreamRec]
  BY DEF OpenStream, StreamRec
<1> HIDE DEF shown, streams
<1>4. s \in AppRec /\ Idle(s)
  BY <1>3 DEF AppRec, Tun, Idle
<1> HIDE DEF s
<1>5. Idle(app) /\ applied = "none"
  BY <1>2, <1>4, RefreshCalm DEF Init
<1>6. Switch(app)
  BY <1>5 DEF Idle, Switch, Awaits
<1>7. Told
  BY <1>5 DEF Idle, Told, TunSteps, Tun
<1> QED
  BY <1>6, <1>7 DEF TunInv

\* Next: every action keeps what the switch relies on.
LEMMA NextTun == IInv /\ TunInv /\ [Next]_vars => TunInv'
<1> SUFFICES ASSUME IInv, TunInv, [Next]_vars PROVE TunInv'
  OBVIOUS
<1>1. ASSUME NEW r \in app.net, NEW ok \in BOOLEAN, Arrive(r, ok)
      PROVE  TunInv'
  BY <1>1, ConfigsKeepTun, TunReadKeepsTun, TunPatchKeepsTun, TunConfirmKeepsTun, OthersKeepTun
     DEF Arrive
<1>2. ASSUME UNCHANGED <<app, tunState, applied>>
      PROVE  TunInv'
  BY <1>2 DEF TunInv, Switch, Told, Awaits
<1>3. ASSUME NEW e \in Endpoints, ControllerStops(e) \/ ControllerStarts(e)
      PROVE  TunInv'
  BY <1>2, <1>3 DEF ControllerStops, ControllerStarts
<1> QED
  BY <1>1, <1>2, <1>3, CallsKeepTun, StreamsKeepTun, RequestKeepsTun, ReadKeepsTun, PatchKeepsTun
     DEF Next, vars, server

\* The types are those of the client, of the controllers and of what was said.
LEMMA TypesHold == IInv /\ TunInv => TypeOK
<1> SUFFICES ASSUME IInv, TunInv PROVE TypeOK
  OBVIOUS
<1>1. app \in AppRec
  BY DEF IInv, Current
<1>2. \A p \in Panes : app.shown[p] = Nothing \/ app.shown[p].from \in Endpoints
  BY <1>1 DEF AppRec
<1> QED
  BY <1>1, <1>2 DEF TypeOK, AppRec, IInv, ServerTypes, TunInv, Told

\* The TUN switch never says what is not so: it waits exactly while a change
\* is pending, of which a step is then awaited; it shows the last reading; and
\* what a change was reported to have made is what the controller does and the
\* switch shows, whatever poll was under way (requestTunChange(),
\* finishTunChange(), RoutingControls).
THEOREM SwitchIsTrue == Spec => []Safety
<1>1. Init => IInv /\ TunInv
  BY InitIInv, InitTun
<1>2. IInv /\ TunInv /\ [Next]_vars => (IInv /\ TunInv)'
  BY NextIInv, NextTun
<1>3. IInv /\ TunInv => Safety
  <2>1. IInv /\ TunInv => SwitchFollowsClient
    BY DEF TunInv, Switch, SwitchFollowsClient
  <2>2. IInv /\ TunInv => AppliedStands
    BY DEF TunInv, Told, AppliedStands
  <2> QED
    BY <2>1, <2>2, TypesHold DEF Safety
<1> QED
  BY <1>1, <1>2, <1>3, PTL DEF Spec
=============================================================================
