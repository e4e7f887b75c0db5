-------------------------------- MODULE Pages --------------------------------
(***************************************************************************)
(* The pages that keep what the controller's streams and polls report: the *)
(* connections, the proxies, the providers, the logs and the traffic graph *)
(* with its core::TrafficHistory.  Each draws late: while it is hidden it  *)
(* only notes that its view is out of date, and while it is visible it     *)
(* gathers changes until a timer draws them.  The pages share no state;    *)
(* a behaviour is about one of them, chosen at its start.                  *)
(***************************************************************************)
EXTENDS Naturals, Sequences, SequencesExt

CONSTANTS
    Ids,          \* connections, each known by an id of its own
    HistoryLimit, \* the closed connections that are kept (500)
    Names,        \* names of proxy groups
    MaxGroups,    \* bound on the groups there are at once
    Revision,     \* versions of what a group, the nodes or a provider list hold
    EntryLimit,   \* log entries at which the oldest are dropped (5500)
    EntriesKept,  \* log entries that stay then (5000); also the view's limit
    Retention,    \* age up to which samples are kept (FifteenMinutes)
    MaxSamples,   \* TrafficHistory::MaxSamples
    Windows,      \* the spans that the graph offers
    MaxRate,      \* bound on the rate of a sample
    ShrinkDelay,  \* headroom that lasts this long shrinks the scale (10 s)
    MaxTime       \* bound on the clock

NoGroup == "none"

ASSUME PagesAssumption ==
    /\ IsFiniteSet(Ids) /\ HistoryLimit \in Nat \ {0}
    /\ NoGroup \notin Names /\ MaxGroups \in Nat /\ 0 \in Revision
    /\ EntryLimit \in Nat /\ EntriesKept \in 1 .. EntryLimit
    /\ Retention \in Nat /\ Windows # {} /\ Windows \subseteq 0 .. Retention
    /\ MaxSamples \in Nat \ {0} /\ MaxRate \in Nat \ {0}
    /\ ShrinkDelay \in Nat /\ MaxTime \in Nat

VARIABLES page, connections, proxies, providers, logs, graph

pageVars == <<page, connections, proxies, providers, logs, graph>>

Tabs == {"active", "closed"}
ProviderKinds == {"proxy", "rule"}
Least(a, b) == IF a <= b THEN a ELSE b

\* The elements of s that are in S, in their order.
Only(s, S) ==
    LET upto[n \in 0 .. Len(s)] ==
            IF n = 0 THEN <<>>
            ELSE IF s[n] \in S THEN Append(upto[n - 1], s[n]) ELSE upto[n - 1]
    IN upto[Len(s)]

\* The last n elements of s, or all.
Newest(s, n) == SubSeq(s, IF Len(s) > n THEN Len(s) - n + 1 ELSE 1, Len(s))

-----------------------------------------------------------------------------
(* ConnectionsPage.  previous_ holds what current does, by id; gone are the *)
(* ids that the controller will not use again, ended those that ended since *)
(* the history was last emptied. *)

NewConnections ==
    [visible |-> FALSE, timer |-> FALSE, tab |-> "active", dirty |-> {}, rows |-> <<>>,
     current |-> <<>>, closed |-> <<>>, gone |-> {}, ended |-> {}]

Wanted(c) == IF c.tab = "active" THEN c.current ELSE c.closed

RenderConnections(c) ==
    IF ~c.visible THEN c
    ELSE IF c.tab \notin c.dirty THEN [c EXCEPT !.timer = FALSE]
    ELSE [c EXCEPT !.timer = FALSE, !.rows = Wanted(c), !.dirty = @ \ {c.tab}]

\* Those that ended last come first, in the order of a hash table.
Remember(newest, closed) ==
    newest \o SubSeq(closed, 1, Least(Len(closed), HistoryLimit - Len(newest)))

OnConnectionsUpdated(ids) ==
    LET c == connections
        ended == ToSet(c.current) \ ids
    IN \E kept \in SUBSET ended : \E newest \in SetToSeqs(kept) :
         /\ Len(newest) <= HistoryLimit /\ (kept = ended \/ Len(newest) = HistoryLimit)
         /\ connections' =
              [c EXCEPT !.current = SetToSeq(ids), !.timer = @ \/ c.visible,
                        !.closed = IF ended = {} THEN @ ELSE Remember(newest, @),
                        !.dirty = @ \cup (IF ended = {} THEN {"active"} ELSE Tabs),
                        !.gone = @ \cup ended, !.ended = @ \cup ended]

\* Another controller, or none.
ResetConnections ==
    connections' = RenderConnections([connections EXCEPT
        !.current = <<>>, !.closed = <<>>, !.ended = {}, !.dirty = Tabs])

ChooseTab ==
    /\ connections.visible
    /\ connections' = RenderConnections([connections EXCEPT
            !.tab = CHOOSE t \in Tabs : t # @, !.dirty = Tabs])

ClearHistory ==
    /\ connections.visible /\ connections.tab = "closed"
    /\ connections' = RenderConnections([connections EXCEPT
            !.closed = <<>>, !.ended = {}, !.dirty = @ \cup {"closed"}])

ShowConnections ==
    connections' = IF connections.visible THEN [connections EXCEPT !.visible = FALSE]
                   ELSE RenderConnections([connections EXCEPT !.visible = TRUE])

ConnectionsTimer ==
    connections.timer /\ connections' = RenderConnections([connections EXCEPT !.timer = FALSE])

ConnectionsNext ==
    \/ \E ids \in SUBSET (Ids \ connections.gone) : OnConnectionsUpdated(ids)
    \/ ResetConnections \/ ChooseTab \/ ClearHistory \/ ShowConnections \/ ConnectionsTimer

-----------------------------------------------------------------------------
(* ProxiesPage.  A group's revision stands for its type, its members and    *)
(* the one it uses; delays is the revision of the nodes. *)

Group == [name : Names, revision : Revision]
NoNodes == [group |-> NoGroup]

NewProxies ==
    [visible |-> FALSE, timer |-> FALSE, filterTimer |-> FALSE, filter |-> FALSE, byName |-> FALSE,
     groups |-> <<>>, delays |-> 0, active |-> NoGroup,
     groupsDirty |-> FALSE, nodesDirty |-> FALSE, list |-> <<>>, nodes |-> NoNodes]

Named(groups, name) == Only(groups, {g \in Group : g.name = name})

NodesOf(p) ==
    LET found == Named(p.groups, p.active)
    IN IF found = <<>> THEN NoNodes
       ELSE [group |-> Head(found), delays |-> p.delays, filter |-> p.filter, byName |-> p.byName]

\* The chosen group stays if it is still there.
RenderGroups(p) ==
    [p EXCEPT !.list = p.groups, !.groupsDirty = FALSE,
              !.active = IF p.groups = <<>> THEN NoGroup
                         ELSE IF Named(p.groups, @) # <<>> THEN @ ELSE Head(p.groups).name]

RenderNodes(p) == [p EXCEPT !.nodes = NodesOf(p), !.nodesDirty = FALSE]

RenderPending(p) ==
    LET stopped == [p EXCEPT !.timer = FALSE]
        grouped == IF p.groupsDirty THEN RenderGroups(stopped) ELSE stopped
    IN IF ~p.visible THEN p ELSE IF p.nodesDirty THEN RenderNodes(grouped) ELSE grouped

\* Mutant: an update that leaves the groups alone clears what an earlier one noted.
OnProxiesUpdatedForgetting(groups, delays) ==
    /\ <<groups, delays>> # <<proxies.groups, proxies.delays>>
    /\ proxies' = [proxies EXCEPT !.groups = groups, !.delays = delays, !.nodesDirty = TRUE,
                                  !.groupsDirty = groups # proxies.groups,
                                  !.timer = @ \/ proxies.visible]

\* An update that changes nothing is not looked at.
OnProxiesUpdated(groups, delays) ==
    /\ <<groups, delays>> # <<proxies.groups, proxies.delays>>
    /\ proxies' = [proxies EXCEPT !.groups = groups, !.delays = delays, !.nodesDirty = TRUE,
                                  !.groupsDirty = @ \/ groups # proxies.groups,
                                  !.timer = @ \/ proxies.visible]

\* The list may still show groups that are gone.
OnGroupRowChanged ==
    /\ proxies.visible
    /\ \E g \in ToSet(proxies.list) :
         /\ g.name # proxies.active
         /\ proxies' = RenderPending([proxies EXCEPT !.active = g.name, !.nodesDirty = TRUE])

FilterNodes ==
    /\ proxies.visible
    /\ proxies' = [proxies EXCEPT !.filter = ~@, !.filterTimer = TRUE]

FilterTimer ==
    /\ proxies.filterTimer
    /\ proxies' = RenderPending([proxies EXCEPT !.filterTimer = FALSE, !.nodesDirty = TRUE])

SortNodes ==
    /\ proxies.visible
    /\ proxies' = RenderPending([proxies EXCEPT !.byName = ~@, !.nodesDirty = TRUE])

ShowProxies ==
    proxies' = IF proxies.visible THEN [proxies EXCEPT !.visible = FALSE]
               ELSE RenderPending([proxies EXCEPT !.visible = TRUE])

ProxiesTimer == proxies.timer /\ proxies' = RenderPending([proxies EXCEPT !.timer = FALSE])

GroupLists == {s \in SeqOf(Group, MaxGroups) : \A i, j \in DOMAIN s : s[i].name = s[j].name => i = j}

ProxiesNext ==
    \/ \E groups \in GroupLists, delays \in Revision : OnProxiesUpdated(groups, delays)
    \/ OnGroupRowChanged \/ FilterNodes \/ FilterTimer \/ SortNodes \/ ShowProxies \/ ProxiesTimer

-----------------------------------------------------------------------------
(* ProvidersPage with its ProviderClient.  Revision 0 is the empty list;    *)
(* pending are the kinds whose lists were asked for, operating the kind of  *)
(* the providers that are updated or tested.  The abort that a new endpoint *)
(* brings ends every reply at once. *)

NewProviders ==
    [visible |-> FALSE, timer |-> FALSE, kind |-> "proxy", cachedKind |-> "proxy", cached |-> 0,
     dirty |-> TRUE, rows |-> [kind |-> "proxy", revision |-> 0], loading |-> FALSE,
     pending |-> {}, operating |-> {}]

IsBusy(v) == v.pending # {} \/ v.operating # {}

Fetch(v, kind) == [v EXCEPT !.pending = @ \cup {kind}]
RefreshProviders(v) == Fetch([v EXCEPT !.loading = TRUE], v.kind)

Populate(v, kind, revision) ==
    IF kind # v.kind THEN v
    ELSE IF v.cachedKind = kind /\ v.cached = revision /\ ~v.dirty THEN [v EXCEPT !.loading = FALSE]
    ELSE [v EXCEPT !.loading = FALSE, !.cachedKind = kind, !.cached = revision,
                   !.dirty = TRUE, !.timer = @ \/ v.visible]

RenderProviders(v) ==
    IF ~v.visible \/ ~v.dirty THEN v
    ELSE [v EXCEPT !.timer = FALSE, !.dirty = FALSE,
                   !.rows = [kind |-> v.cachedKind, revision |-> v.cached]]

ShowProviders ==
    providers' = IF providers.visible THEN [providers EXCEPT !.visible = FALSE]
                 ELSE RefreshProviders(RenderProviders([providers EXCEPT !.visible = TRUE]))

ClickRefresh ==
    providers.visible /\ ~IsBusy(providers) /\ providers' = RefreshProviders(providers)

ChooseKind ==
    /\ providers.visible
    /\ LET other == CHOOSE k \in ProviderKinds : k # providers.kind
       IN providers' = RefreshProviders(Populate([providers EXCEPT !.kind = other], other, 0))

ProvidersReply(kind) ==
    /\ kind \in providers.pending
    /\ LET v == [providers EXCEPT !.pending = @ \ {kind}]
       IN \/ \E revision \in Revision : providers' = Populate(v, kind, revision)
          \/ providers' = [v EXCEPT !.loading = FALSE]   \* errorOccurred

\* Update selected, update all, health check: one operation or several.
OperateProvider ==
    /\ providers.visible /\ ~IsBusy(providers) /\ providers.rows.revision # 0
    /\ providers' = [providers EXCEPT !.operating = {providers.kind}]

\* The reply of the last operation, or of one of several.
OperationReply(kind) ==
    /\ kind \in providers.operating
    /\ \E operating \in {{}, providers.operating} :
         LET v == [providers EXCEPT !.operating = operating, !.loading = FALSE]
         IN providers' = v \/ providers' = Fetch(v, kind)

ProvidersEndpoint ==
    LET v == Populate([providers EXCEPT !.pending = {}, !.operating = {}], providers.kind, 0)
    IN providers' = IF v.visible THEN RefreshProviders(v) ELSE v

ProvidersTimer ==
    providers.timer /\ providers' = RenderProviders([providers EXCEPT !.timer = FALSE])

ProvidersNext ==
    \/ ShowProviders \/ ClickRefresh \/ ChooseKind \/ OperateProvider
    \/ \E kind \in ProviderKinds : ProvidersReply(kind) \/ OperationReply(kind)
    \/ ProvidersEndpoint \/ ProvidersTimer

-----------------------------------------------------------------------------
(* LogsPage.  A line of the core itself passes every level, as an error     *)
(* does; matching is whether the text typed in the filter occurs in it. *)

Entry == [level : {1, 2}, matching : BOOLEAN]

NewLogs ==
    [level |-> 1, filter |-> FALSE, filterTimer |-> FALSE, paused |-> FALSE,
     entries |-> <<>>, view |-> <<>>]

Matching(l) == {e \in Entry : e.level >= l.level /\ (l.filter => e.matching)}

VisibleLogs(l) == Newest(Only(l.entries, Matching(l)), EntriesKept)

RenderEntries(l) == [l EXCEPT !.view = VisibleLogs(l)]

AppendEntry(entry) ==
    /\ ~logs.paused
    /\ LET l == [logs EXCEPT !.entries = Append(@, entry)]
       IN logs' = IF Len(l.entries) > EntryLimit
                  THEN RenderEntries([l EXCEPT !.entries = Newest(@, EntriesKept)])
                  ELSE IF entry \in Matching(l)
                  THEN [l EXCEPT !.view = Newest(Append(@, entry), EntriesKept)] ELSE l

PauseLogs == logs' = [logs EXCEPT !.paused = ~@]
ClearLogs == logs' = [logs EXCEPT !.entries = <<>>, !.view = <<>>]   \* also endpointChanged
ChooseLevel == logs' = RenderEntries([logs EXCEPT !.level = 3 - @])
FilterLogs == logs' = [logs EXCEPT !.filter = ~@, !.filterTimer = TRUE]
LogsTimer == logs.filterTimer /\ logs' = RenderEntries([logs EXCEPT !.filterTimer = FALSE])
RenderTheme == logs' = RenderEntries(logs)

LogsNext ==
    \/ \E entry \in Entry : AppendEntry(entry)
    \/ PauseLogs \/ ClearLogs \/ ChooseLevel \/ FilterLogs \/ LogsTimer \/ RenderTheme

-----------------------------------------------------------------------------
(* TrafficGraph and TrafficHistory.  all is the history as it would be if   *)
(* nothing were ever dropped from it. *)

Rates == 1 .. MaxRate
Sample == [at : Nat, rate : Rates]

NewGraph ==
    [visible |-> FALSE, now |-> 0, window |-> CHOOSE w \in Windows : TRUE,
     paused |-> FALSE, pausedAt |-> 0, history |-> <<>>, frozen |-> <<>>, all |-> <<>>,
     shown |-> <<>>, scale |-> 1, headroom |-> FALSE, since |-> 0]

WithSample(samples, sample) ==
    IF samples # <<>> /\ Last(samples).at = sample.at
    THEN Append(Front(samples), sample) ELSE Append(samples, sample)

\* Mutant: a sample as old as the retention is dropped.
RetainedYounger(samples, now) ==
    Newest(Only(samples, {p \in Sample : p.at + Retention > now}), MaxSamples)

\* What has expired goes, and what is too much.
Retained(samples, now) ==
    Newest(Only(samples, {p \in Sample : p.at + Retention >= now}), MaxSamples)

Snapshot(samples, window, now) ==
    Only(samples, {p \in Sample : p.at + window >= now /\ p.at <= now})

Peak(samples) == Max({1} \cup {p.rate : p \in ToSet(samples)})

\* The scale grows at once and shrinks after it was too large for a while.
Refresh(g, reset) ==
    LET reference == IF g.paused THEN g.pausedAt ELSE g.now
        shown == Snapshot(IF g.paused THEN g.frozen ELSE g.history, g.window, reference)
        t == [g EXCEPT !.shown = shown]
        since == IF g.headroom THEN g.since ELSE reference
    IN IF reset \/ Peak(shown) > g.scale \/ shown = <<>>
       THEN [t EXCEPT !.scale = Peak(shown), !.headroom = FALSE]
       ELSE IF 10 * Peak(shown) >= 6 * g.scale THEN [t EXCEPT !.headroom = FALSE]
       ELSE IF reference - since >= ShrinkDelay
       THEN [t EXCEPT !.scale = Peak(shown), !.headroom = FALSE]
       ELSE [t EXCEPT !.headroom = TRUE, !.since = since]

Live(g) == g.visible /\ ~g.paused
RefreshLive(g) == IF Live(g) THEN Refresh(g, FALSE) ELSE g

AppendSample(rate) ==
    LET sample == [at |-> graph.now, rate |-> rate]
        h == WithSample(graph.history, sample)
        g == [graph EXCEPT !.all = WithSample(@, sample),
                           !.history = IF Len(h) = Len(@) THEN h ELSE Retained(h, graph.now)]
    IN graph' = RefreshLive(g)

ClearGraph ==
    graph' = Refresh([graph EXCEPT !.history = <<>>, !.frozen = <<>>, !.all = <<>>,
                                   !.pausedAt = graph.now], TRUE)

PauseGraph ==
    graph' = IF graph.paused THEN Refresh([graph EXCEPT !.paused = FALSE], TRUE)
             ELSE Refresh([graph EXCEPT !.paused = TRUE, !.pausedAt = graph.now,
                                        !.frozen = graph.history], TRUE)

ChooseWindow == \E w \in Windows : w # graph.window /\ graph' = Refresh([graph EXCEPT !.window = w], TRUE)

ShowGraph ==
    graph' = IF graph.visible THEN [graph EXCEPT !.visible = FALSE]
             ELSE Refresh([graph EXCEPT !.visible = TRUE], FALSE)

GraphTimer == Live(graph) /\ graph' = Refresh(graph, FALSE)

TimePasses == graph.now < MaxTime /\ graph' = [graph EXCEPT !.now = @ + 1]

GraphNext ==
    \/ \E rate \in Rates : AppendSample(rate)
    \/ ClearGraph \/ PauseGraph \/ ChooseWindow \/ ShowGraph \/ GraphTimer \/ TimePasses

-----------------------------------------------------------------------------

PagesInit ==
    /\ connections = NewConnections /\ proxies = NewProxies /\ providers = NewProviders
    /\ logs = NewLogs /\ graph = NewGraph

PagesNext ==
    /\ UNCHANGED page
    /\ \/ page = "connections" /\ ConnectionsNext /\ UNCHANGED <<proxies, providers, logs, graph>>
       \/ page = "proxies" /\ ProxiesNext /\ UNCHANGED <<connections, providers, logs, graph>>
       \/ page = "providers" /\ ProvidersNext /\ UNCHANGED <<connections, proxies, logs, graph>>
       \/ page = "logs" /\ LogsNext /\ UNCHANGED <<connections, proxies, providers, graph>>
       \/ page = "graph" /\ GraphNext /\ UNCHANGED <<connections, proxies, providers, logs>>

-----------------------------------------------------------------------------

PagesTypeOK ==
    /\ connections.tab \in Tabs /\ connections.dirty \subseteq Tabs
    /\ ToSet(connections.rows) \cup ToSet(connections.current) \subseteq Ids
    /\ proxies.groups \in GroupLists /\ proxies.list \in GroupLists
    /\ proxies.active \in Names \cup {NoGroup} /\ proxies.delays \in Revision
    /\ providers.pending \cup providers.operating \subseteq ProviderKinds
    /\ providers.cached \in Revision /\ providers.cachedKind = providers.kind
    /\ ToSet(logs.entries) \cup ToSet(logs.view) \subseteq Entry
    /\ graph.now \in 0 .. MaxTime /\ graph.scale \in Rates /\ graph.since <= graph.now

\* A page that is visible and has no drawing ahead of it shows what it knows:
\* the connections of the chosen tab, the groups, the nodes of a group that
\* exists as they are filtered and sorted, the providers of the chosen kind,
\* and the log lines that pass.  "Loading providers" stands only while their
\* list is on its way.
ShownIsCurrent ==
    /\ connections.visible /\ ~connections.timer => connections.rows = Wanted(connections)
    /\ proxies.visible /\ ~proxies.timer /\ ~proxies.filterTimer =>
         /\ proxies.list = proxies.groups /\ proxies.nodes = NodesOf(proxies)
         /\ (proxies.active = NoGroup) = (proxies.groups = <<>>)
         /\ proxies.groups # <<>> => Named(proxies.groups, proxies.active) # <<>>
    /\ providers.visible /\ ~providers.timer =>
         providers.rows = [kind |-> providers.kind, revision |-> providers.cached]
    /\ providers.loading => providers.kind \in providers.pending
    /\ ~logs.filterTimer => logs.view = VisibleLogs(logs)
    /\ \A i \in DOMAIN graph.shown : graph.shown[i].rate <= graph.scale

\* What is forgotten is only what no view needs: the history of connections is
\* the last that ended, each once and none still open; every span that the
\* graph offers finds all samples that came in it; a paused graph knows
\* nothing of later ones.
HistoriesAreWhole ==
    /\ PagesTypeOK
    /\ IsInjective(connections.closed) /\ ToSet(connections.closed) \subseteq connections.ended
    /\ Len(connections.closed) = Least(HistoryLimit, Cardinality(connections.ended))
    /\ ToSet(connections.closed) \cap ToSet(connections.current) = {}
    /\ Len(logs.entries) <= EntryLimit
    /\ \A w \in Windows :
         Snapshot(graph.history, w, graph.now) = Snapshot(Newest(graph.all, MaxSamples), w, graph.now)
    /\ graph.paused => \A i \in DOMAIN graph.shown : graph.shown[i].at <= graph.pausedAt

-----------------------------------------------------------------------------
(* The inductive invariant, page by page: what each property needs to hold  *)
(* after the next step too. *)

\* The rows are those of the chosen tab unless it is marked, and a mark has a
\* drawing ahead of it; an id that ended is not used again.
ConnectionsIInv ==
    LET c == connections
    IN /\ c \in [visible : BOOLEAN, timer : BOOLEAN, tab : Tabs, dirty : SUBSET Tabs,
                 rows : Seq(Ids), current : Seq(Ids), closed : Seq(Ids),
                 gone : SUBSET Ids, ended : SUBSET Ids]
       /\ c.tab \notin c.dirty => c.rows = Wanted(c)
       /\ c.visible /\ ~c.timer => c.tab \notin c.dirty
       /\ c.ended \subseteq c.gone /\ c.gone \cap ToSet(c.current) = {}
       /\ IsInjective(c.closed) /\ ToSet(c.closed) \subseteq c.ended
       /\ Len(c.closed) = Least(HistoryLimit, Cardinality(c.ended))

NodeViews ==
    {NoNodes} \cup [group : Group, delays : Revision, filter : BOOLEAN, byName : BOOLEAN]

\* Groups that changed leave the nodes to be drawn too.
ProxiesIInv ==
    LET p == proxies
    IN /\ p \in [visible : BOOLEAN, timer : BOOLEAN, filterTimer : BOOLEAN, filter : BOOLEAN,
                 byName : BOOLEAN, groups : GroupLists, delays : Revision,
                 active : Names \cup {NoGroup}, groupsDirty : BOOLEAN,
                 nodesDirty : BOOLEAN, list : GroupLists, nodes : NodeViews]
       /\ p.groupsDirty => p.nodesDirty
       /\ p.visible /\ ~p.timer => ~p.nodesDirty
       /\ ~p.groupsDirty =>
            /\ p.list = p.groups /\ (p.active = NoGroup) = (p.groups = <<>>)
            /\ p.groups # <<>> => Named(p.groups, p.active) # <<>>
       /\ ~p.nodesDirty /\ ~p.filterTimer => p.nodes = NodesOf(p)

ProvidersIInv ==
    LET v == providers
    IN /\ v \in [visible : BOOLEAN, timer : BOOLEAN, kind : ProviderKinds,
                 cachedKind : ProviderKinds, cached : Revision, dirty : BOOLEAN,
                 rows : [kind : ProviderKinds, revision : Revision], loading : BOOLEAN,
                 pending : SUBSET ProviderKinds, operating : SUBSET ProviderKinds]
       /\ v.cachedKind = v.kind
       /\ ~v.dirty => v.rows = [kind |-> v.kind, revision |-> v.cached]
       /\ v.visible /\ ~v.timer => ~v.dirty
       /\ v.loading => v.kind \in v.pending

LogsIInv ==
    /\ logs \in [level : {1, 2}, filter : BOOLEAN, filterTimer : BOOLEAN, paused : BOOLEAN,
                 entries : Seq(Entry), view : Seq(Entry)]
    /\ Len(logs.entries) <= EntryLimit
    /\ ~logs.filterTimer => logs.view = VisibleLogs(logs)

\* The history is the end of all samples: as long as it may be, or up to one
\* that has expired.
GraphIInv ==
    LET g == graph
    IN /\ g \in [visible : BOOLEAN, now : 0 .. MaxTime, window : Windows, paused : BOOLEAN,
                 pausedAt : 0 .. MaxTime, history : Seq(Sample), frozen : Seq(Sample),
                 all : Seq(Sample), shown : Seq(Sample), scale : Rates,
                 headroom : BOOLEAN, since : 0 .. MaxTime]
       /\ g.since <= g.now /\ g.pausedAt <= g.now
       /\ \A i \in 1 .. Len(g.all) : g.all[i].at <= g.now
       /\ \A i, j \in 1 .. Len(g.all) : i < j => g.all[i].at < g.all[j].at
       /\ Len(g.history) <= Least(MaxSamples, Len(g.all))
       /\ g.history = Newest(g.all, Len(g.history)) /\ (g.history = <<>> => g.all = <<>>)
       /\ \/ Len(g.history) = Least(MaxSamples, Len(g.all))
          \/ g.all[Len(g.all) - Len(g.history)].at + Retention < g.now
       /\ \A i \in 1 .. Len(g.shown) : g.shown[i].rate <= g.scale
       /\ g.paused => \A i \in 1 .. Len(g.shown) : g.shown[i].at <= g.pausedAt

PagesIInv == ConnectionsIInv /\ ProxiesIInv /\ ProvidersIInv /\ LogsIInv /\ GraphIInv
=============================================================================
