------------------------------- MODULE Traffic -------------------------------
(***************************************************************************)
(* The byte accounting of traffic.py and the events main.py reports it     *)
(* with.  Every handler runs between two awaits of the receive loop, so an *)
(* action is one thing Chrome does together with the handlers its CDP      *)
(* event runs.  served is what really went over the wire, and blind what   *)
(* of it Chrome had not told us the URL of.  Tabs stand for their CDP      *)
(* session, hosts for the URLs _host_of maps to them.                      *)
(***************************************************************************)
EXTENDS Integers, Sequences, FiniteSets, Functions

CONSTANTS Tab,               \* CDP session ids
          Request,           \* request ids, unique in the browser
          Host,
          UnknownHost, OverflowHost,
          MaxTrackedHosts,   \* _MAX_TRACKED_HOSTS
          ClosedTabHistory,  \* _CLOSED_TAB_HISTORY
          MaxBody, MaxHeader, \* bounds: bytes of one hop's body and header
          MaxHops,           \* bound: hops of one request
          CanReconnect,      \* whether pages outlive the CDP connection
          NoTab

ASSUME TrafficAssumption ==
    /\ IsFiniteSet(Tab) /\ IsFiniteSet(Request) /\ IsFiniteSet(Host)
    /\ UnknownHost \notin Host /\ OverflowHost \notin Host \cup {UnknownHost}
    /\ NoTab \notin Tab
    /\ {MaxBody, MaxHeader, MaxHops} \subseteq Nat
    /\ {MaxTrackedHosts, ClosedTabHistory} \subseteq Nat \ {0}
    /\ CanReconnect \in BOOLEAN

VARIABLES
    tabState,    \* none, open (in _tab_by_session) or closed
    url,         \* tab.url: the host it names
    bytes, requests, byHost, reported,  \* the other fields of TabTraffic
    closedTabs,  \* _closed_tabs
    inflight,    \* _inflight
    hostTotals, totalBytes, totalRequests,  \* the process-wide rollups
    deltas,      \* deltas[t]: sum of bytes_delta over t's events
    enabled,     \* tabs whose Network.enable has reached Chrome
    req,         \* req[r]: what Chrome is doing for request r
    served,      \* served[h]: bytes h has put on the wire
    blind        \* those of them that came to hops not seen

tabVars == <<tabState, url, closedTabs>>
sumVars == <<bytes, requests, byHost, hostTotals, totalBytes, totalRequests>>
eventVars == <<reported, deltas>>
chromeVars == <<enabled, req, served, blind>>
vars == <<tabVars, sumVars, inflight, eventVars, chromeVars>>

AnyHost == Host \cup {UnknownHost, OverflowHost}
Zero == [bytes |-> 0, requests |-> 0]
NoEntry == [session |-> NoTab, host |-> UnknownHost, counted |-> 0]
Idle == [state |-> "idle", tab |-> NoTab, host |-> UnknownHost, body |-> 0,
         hops |-> 0, seen |-> FALSE]  \* seen: the hop's URL was reported
Over == [Idle EXCEPT !.state = "over"]

Init == /\ tabState = [t \in Tab |-> "none"]
        /\ url = [t \in Tab |-> UnknownHost]
        /\ bytes = [t \in Tab |-> 0] /\ requests = [t \in Tab |-> 0]
        /\ byHost = [t \in Tab |-> <<>>]
        /\ reported = [t \in Tab |-> 0] /\ deltas = [t \in Tab |-> 0]
        /\ closedTabs = <<>>
        /\ inflight = [r \in Request |-> NoEntry]
        /\ hostTotals = <<>> /\ totalBytes = 0 /\ totalRequests = 0
        /\ enabled = {}
        /\ req = [r \in Request |-> Idle]
        /\ served = [h \in Host |-> 0] /\ blind = 0

-----------------------------------------------------------------------------
(* Totals                                                                  *)

(* The key _bucket files host under.                                       *)
Bucket(totals, h) ==
    IF h \in DOMAIN totals \/ Cardinality(DOMAIN totals) < MaxTrackedHosts
    THEN h ELSE OverflowHost

At(totals, h) == IF h \in DOMAIN totals THEN totals[h] ELSE Zero

FreshOverflow(totals, h, b, n) ==                                 \* mutant
    LET k == Bucket(totals, h)
    IN  [x \in DOMAIN totals \cup {k} |->
            IF x # k THEN totals[x]
            ELSE [bytes |-> (IF k = h THEN At(totals, k).bytes ELSE 0) + b,
                  requests |-> (IF k = h THEN At(totals, k).requests ELSE 0) + n]]
Added(totals, h, b, n) ==
    LET k == Bucket(totals, h)
    IN  [x \in DOMAIN totals \cup {k} |->
            IF x = k THEN [bytes |-> At(totals, k).bytes + b,
                           requests |-> At(totals, k).requests + n]
                     ELSE totals[x]]

(* _add_bytes of b, which does nothing for zero bytes, followed by         *)
(* _count_request when n is 1.                                             *)
Credit(t, h, b, n) ==
    IF b + n = 0 THEN UNCHANGED sumVars
    ELSE /\ bytes' = [bytes EXCEPT ![t] = @ + b]
         /\ requests' = [requests EXCEPT ![t] = @ + n]
         /\ byHost' = [byHost EXCEPT ![t] = Added(@, h, b, n)]
         /\ hostTotals' = Added(hostTotals, h, b, n)
         /\ totalBytes' = totalBytes + b
         /\ totalRequests' = totalRequests + n

(* A request whose URL never reached us counts for the tab's own host.     *)
FallbackHost(t) == url[t]

HostFor(r, t) == IF inflight[r] = NoEntry THEN FallbackHost(t) ELSE inflight[r].host

-----------------------------------------------------------------------------
(* The handlers of Network events.                                         *)

(* bind_request_host: a redirect re-binds the request it already knows.    *)
BindFirst(r, t, h) == inflight' = [inflight EXCEPT ![r] =         \* mutant
    IF @ = NoEntry THEN [session |-> t, host |-> h, counted |-> 0] ELSE @]
BindRequestHost(r, t, h) == inflight' = [inflight EXCEPT ![r] =
    IF @ = NoEntry THEN [session |-> t, host |-> h, counted |-> 0]
                   ELSE [@ EXCEPT !.host = h]]

OnDataReceived(r, t, n) ==
    /\ inflight' = [inflight EXCEPT ![r] =
           [session |-> IF @ = NoEntry THEN t ELSE @.session,
            host |-> HostFor(r, t),
            counted |-> @.counted + n]]
    /\ Credit(t, HostFor(r, t), n, 0)

(* loadingFinished tells the total of the last hop, chunks included.       *)
Remainder(r, total) ==
    IF total > inflight[r].counted THEN total - inflight[r].counted ELSE 0

Retire(r) == inflight' = [inflight EXCEPT ![r] = NoEntry]

OnLoadingFinished(r, t, total) ==
    /\ Credit(t, HostFor(r, t), Remainder(r, total), 1)
    /\ Retire(r)

OnLoadingFailed(r, t) == Credit(t, HostFor(r, t), 0, 1) /\ Retire(r)

-----------------------------------------------------------------------------
(* Reporting and closing                                                   *)

(* emit_tab_traffic for the tabs in S.                                     *)
EmitTotal(S) == /\ deltas' = [t \in Tab |->                       \* mutant
                        IF t \in S THEN deltas[t] + bytes[t] ELSE deltas[t]]
                /\ reported' = [t \in Tab |->
                        IF t \in S THEN bytes[t] ELSE reported[t]]
Emit(S) == /\ deltas' = [t \in Tab |->
                   IF t \in S THEN deltas[t] + bytes[t] - reported[t] ELSE deltas[t]]
           /\ reported' = [t \in Tab |-> IF t \in S THEN bytes[t] ELSE reported[t]]

Open == {t \in Tab : tabState[t] = "open"}

(* One round of report_traffic: tabs that pulled something since.          *)
ReportTraffic ==
    /\ \E t \in Open : bytes[t] # reported[t]
    /\ Emit({t \in Open : bytes[t] # reported[t]})
    /\ UNCHANGED <<tabVars, sumVars, inflight, chromeVars>>

(* _closed_tabs is a deque that forgets the oldest.                        *)
Appended(s, ts) == LET all == s \o ts
                       n == Len(all)
                   IN  SubSeq(all, IF n > ClosedTabHistory
                                   THEN n - ClosedTabHistory + 1 ELSE 1, n)

(* close_tab for the tabs of ts; flush_closed_tabs.                        *)
KeepInflight(S) == UNCHANGED inflight                             \* mutant
DropInflight(S) == inflight' = [r \in Request |->
    IF inflight[r].session \in S THEN NoEntry ELSE inflight[r]]

CloseTabs(ts) ==
    LET S == {ts[i] : i \in DOMAIN ts}
    IN  /\ tabState' = [t \in Tab |-> IF t \in S THEN "closed" ELSE tabState[t]]
        /\ closedTabs' = Appended(closedTabs, ts)
        /\ DropInflight(S)
        /\ Emit({t \in S : bytes[t] > 0})
        /\ enabled' = enabled \ S
        /\ UNCHANGED <<url, sumVars>>

-----------------------------------------------------------------------------
(* What Chrome does                                                        *)

Loading(r) == req[r].state = "loading"

(* attachedToTarget; open_tab does nothing for a session it knows.  After  *)
(* a reconnect the page may have requests under way.                       *)
Attach(t, u) ==
    /\ tabState[t] = "none"
    /\ tabState' = [tabState EXCEPT ![t] = "open"]
    /\ url' = [url EXCEPT ![t] = u]
    /\ \E A \in SUBSET {r \in Request : Loading(r) /\ req[r].tab = NoTab} :
           req' = [r \in Request |-> IF r \in A THEN [req[r] EXCEPT !.tab = t]
                                     ELSE req[r]]
    /\ UNCHANGED <<closedTabs, sumVars, inflight, eventVars, enabled, served, blind>>

Enable(t) ==
    /\ tabState[t] = "open" /\ t \notin enabled
    /\ enabled' = enabled \cup {t}
    /\ UNCHANGED <<tabVars, sumVars, inflight, eventVars, req, served, blind>>

(* requestWillBeSent is seen once Network is enabled.  What a page asks    *)
(* for before that, its document and all that the document loads, goes on. *)
Start(r, t, h) ==
    /\ req[r].state = "idle" /\ tabState[t] = "open"
    /\ req' = [req EXCEPT ![r] = [state |-> "loading", tab |-> t, host |-> h, body |-> 0,
                               hops |-> 1, seen |-> t \in enabled]]
    /\ IF t \in enabled THEN BindRequestHost(r, t, h) ELSE UNCHANGED inflight
    /\ UNCHANGED <<tabVars, sumVars, eventVars, enabled, served, blind>>

(* A redirect: the next hop, under the same request id.                    *)
Redirect(r, h) ==
    /\ Loading(r) /\ req[r].hops < MaxHops
    /\ req' = [req EXCEPT ![r].host = h, ![r].body = 0, ![r].hops = @ + 1,
                         ![r].seen = req[r].tab \in enabled]
    /\ IF req[r].tab \in enabled THEN BindRequestHost(r, req[r].tab, h)
                                 ELSE UNCHANGED inflight
    /\ UNCHANGED <<tabVars, sumVars, eventVars, enabled, served, blind>>

(* responseReceived, ahead of the body.                                    *)
Respond(r) ==
    /\ Loading(r) /\ req[r].tab \in enabled /\ req[r].body = 0
    /\ req' = [req EXCEPT ![r].seen = TRUE]
    /\ BindRequestHost(r, req[r].tab, req[r].host)
    /\ UNCHANGED <<tabVars, sumVars, eventVars, enabled, served, blind>>

(* n bytes of r come over the wire.                                        *)
Receive(r, n) ==
    /\ served' = [served EXCEPT ![req[r].host] = @ + n]
    /\ blind' = IF req[r].seen THEN blind ELSE blind + n

Data(r) ==
    /\ Loading(r) /\ req[r].body < MaxBody
    /\ req' = [req EXCEPT ![r].body = @ + 1]
    /\ Receive(r, 1)
    /\ IF req[r].tab \in enabled THEN OnDataReceived(r, req[r].tab, 1)
                                 ELSE UNCHANGED <<inflight, sumVars>>
    /\ UNCHANGED <<tabVars, eventVars, enabled>>

(* The total covers the hop's header, which no chunk had.                  *)
Finish(r, header) ==
    /\ Loading(r) /\ req[r].tab # NoTab
    /\ req' = [req EXCEPT ![r] = Over]
    /\ Receive(r, header)
    /\ IF req[r].tab \in enabled
       THEN OnLoadingFinished(r, req[r].tab, req[r].body + header)
       ELSE UNCHANGED <<inflight, sumVars>>
    /\ UNCHANGED <<tabVars, eventVars, enabled>>

Fail(r) ==
    /\ Loading(r) /\ req[r].tab # NoTab
    /\ req' = [req EXCEPT ![r] = Over]
    /\ IF req[r].tab \in enabled THEN OnLoadingFailed(r, req[r].tab)
                                 ELSE UNCHANGED <<inflight, sumVars>>
    /\ UNCHANGED <<tabVars, eventVars, enabled, served, blind>>

(* The tab commits another document (emit_navigation sets tab.url).        *)
Navigate(t, h) ==
    /\ t \in enabled /\ h # url[t]
    /\ url' = [url EXCEPT ![t] = h]
    /\ UNCHANGED <<tabState, closedTabs, sumVars, inflight, eventVars, chromeVars>>

(* detachedFromTarget: the page is gone.                                   *)
Detach(t) ==
    /\ tabState[t] = "open"
    /\ CloseTabs(<<t>>)
    /\ req' = [r \in Request |-> IF req[r].tab = t THEN Over ELSE req[r]]
    /\ UNCHANGED <<served, blind>>

(* The connection drops and drop_session_state closes every tab, in the    *)
(* order of the dictionary; the pages may live on.                         *)
Drop ==
    /\ Open # {}
    /\ \E ts \in [1..Cardinality(Open) -> Open] :
           {ts[i] : i \in DOMAIN ts} = Open /\ CloseTabs(ts)
    /\ req' = [r \in Request |->
                  CASE req[r].tab = NoTab -> req[r]
                    [] CanReconnect -> [req[r] EXCEPT !.tab = NoTab, !.seen = FALSE]
                    [] OTHER -> Over]
    /\ UNCHANGED <<served, blind>>

Next == \/ ReportTraffic \/ Drop
        \/ \E t \in Tab : \/ Enable(t) \/ Detach(t)
                          \/ \E u \in Host \cup {UnknownHost} : Attach(t, u)
                          \/ \E h \in Host : Navigate(t, h)
                          \/ \E r \in Request, h \in Host : Start(r, t, h)
        \/ \E r \in Request : \/ Respond(r) \/ Data(r) \/ Fail(r)
                              \/ \E n \in 0..MaxHeader : Finish(r, n)
                              \/ \E h \in Host : Redirect(r, h)

Spec == Init /\ [][Next]_vars

-----------------------------------------------------------------------------
Bytes(totals) == SumFunction([h \in DOMAIN totals |-> totals[h].bytes])
Requests(totals) == SumFunction([h \in DOMAIN totals |-> totals[h].requests])

(* Every variable keeps its type, and a host table has at most one entry   *)
(* more than the cap, the overflow bucket (traffic.py:43-47, 311-322).     *)
IsTotals(f) == /\ DOMAIN f \subseteq AnyHost
               /\ \A h \in DOMAIN f : f[h] \in [bytes : Nat, requests : Nat]
               /\ Cardinality(DOMAIN f \ {OverflowHost}) <= MaxTrackedHosts

TypeOK ==
    /\ tabState \in [Tab -> {"none", "open", "closed"}]
    /\ url \in [Tab -> Host \cup {UnknownHost}]
    /\ {bytes, requests, reported, deltas} \subseteq [Tab -> Nat]
    /\ DOMAIN byHost = Tab /\ \A t \in Tab : IsTotals(byHost[t])
    /\ IsTotals(hostTotals) /\ {totalBytes, totalRequests} \subseteq Nat
    /\ closedTabs \in Seq(Tab) /\ Len(closedTabs) <= ClosedTabHistory
    /\ \A r \in Request :
          inflight[r] \in {NoEntry} \cup
              [session : Tab, host : Host \cup {UnknownHost}, counted : Nat]
    /\ enabled \subseteq Open
    /\ served \in [Host -> Nat] /\ blind \in Nat

(* A host the rollup names has all its bytes there: no tab saw more of it  *)
(* than the rollup did, whatever either has folded (traffic.py:294-295).   *)
RollupCoversTabs ==
    \A h \in DOMAIN hostTotals \ {OverflowHost} :
        SumFunction([t \in Tab |-> At(byHost[t], h).bytes]) <= hostTotals[h].bytes

(* Three counts are kept of the same bytes and never disagree, although    *)
(* each folds hosts into its own overflow bucket: a tab's total is the sum *)
(* of its hosts, and the process total that of the host rollup and that of *)
(* all tabs, evicted ones included (traffic.py:92-97, 288-322, 346-347).   *)
Conservation ==
    /\ \A t \in Tab : /\ bytes[t] = Bytes(byHost[t])
                      /\ requests[t] = Requests(byHost[t])
    /\ totalBytes = Bytes(hostTotals)
    /\ totalRequests = Requests(hostTotals)
    /\ totalBytes = SumFunction(bytes)
    /\ totalRequests = SumFunction(requests)
    /\ RollupCoversTabs

(* Summing a tab's deltas gives what it pulled, however the periodic       *)
(* rollups interleave with its closing (main.py:314-356).                  *)
DeltasAddUp ==
    \A t \in Tab : /\ deltas[t] = reported[t]
                   /\ tabState[t] = "closed" => deltas[t] = bytes[t]

(* _inflight does not grow across tab churn (traffic.py:183-188).          *)
InflightScoped ==
    \A r \in Request : inflight[r] # NoEntry => inflight[r].session \in Open

(* traffic.py:6-7, "They are a floor, not the bill."  It does not hold     *)
(* where pages outlive the connection.                                     *)
Floor == totalBytes <= SumFunction(served)

(* Bytes land on the host that served them, across redirects (traffic.py:  *)
(* 118-139), unless their URL never reached us: what a page asked for, or  *)
(* was redirected to, before Network.enable goes to the tab's own host     *)
(* (325-337), so a host is credited with more than it served by no more    *)
(* than those bytes.  No byte is counted twice, seen or not.               *)
HostFloor == /\ \A h \in Host : At(hostTotals, h).bytes <= served[h] + blind
             /\ CanReconnect \/ Floor
=============================================================================
