---------------------------- MODULE MonitorHub -----------------------------
(***************************************************************************)
(* The live feed of the Monitoring page: the hub the gateway's handlers tell *)
(* about their requests, the handler that serves a page its events, and the  *)
(* feed the page folds them into.                                            *)
(*                                                                         *)
(* The hub takes its mutex once to update the table of active requests and   *)
(* once more to publish the event; a page subscribes, with a copy of that    *)
(* table, before it reads the recent records from the database. What is on   *)
(* the wire counts as still in the channel. A page's next connection starts  *)
(* when the handler of the last one has returned.                            *)
(***************************************************************************)
EXTENDS Integers, Sequences, FiniteSets

CONSTANTS
    Requests,    \* gateway requests
    Pages,       \* open Monitoring pages
    SubBuffer,   \* subBuffer: events a subscriber's channel holds
    FeedCap,     \* FEED_CAP: entries a page keeps
    RecentCap,   \* RecentRecords(40)
    MaxMishaps   \* bound: failed database calls, lost connections and restarts

ASSUME MonitorHubAssumption ==
    /\ {SubBuffer, FeedCap} \subseteq Nat \ {0}
    /\ {RecentCap, MaxMishaps} \subseteq Nat

VARIABLES
    req,       \* where each request's handler is
    row,       \* telemetry_requests: its status
    started,   \* the requests in the order of started_at
    active,    \* monitorHub.active: whether each has been routed
    subs,      \* monitorHub.subs: pages whose channel is registered
    queue,     \* the channels' contents
    closed,    \* the channels that are closed
    page,      \* where the handler of each page's connection is
    copied,    \* the active requests its subscribe returned
    feed,      \* MonitoringStore.feed of each page
    panicked,  \* a channel was closed twice, or sent to after its close
    faults, drops, crashes

hub == <<active, subs, queue, closed, panicked>>
bounds == <<faults, drops, crashes>>
vars == <<req, row, started, hub, page, copied, feed, bounds>>

-----------------------------------------------------------------------------
(* The feed, monitor.svelte.ts *)

Ids(f) == {f[i].id : i \in 1..Len(f)}
IsActive(e) == e.state \in {"active", "streaming"}
Cut(f) == SubSeq(f, 1, IF Len(f) < FeedCap THEN Len(f) ELSE FeedCap)
FirstOf(f, r) == CHOOSE i \in 1..Len(f) : f[i].id = r /\ \A j \in 1..(i - 1) : f[j].id # r

Started(r, routed) == [id |-> r, state |-> "active", routed |-> routed]
Ended(r) == [id |-> r, state |-> "finished", routed |-> TRUE]

\* Mutation: an entry that is already there is added again.
OnStartedAgain(f, ev) == Cut(<<Started(ev.id, ev.routed)>> \o f)

OnStarted(f, ev) ==
    IF ev.id \in Ids(f) THEN f ELSE Cut(<<Started(ev.id, ev.routed)>> \o f)

OnRouted(f, ev) ==
    IF ev.id \notin Ids(f) THEN f ELSE [f EXCEPT ![FirstOf(f, ev.id)].routed = TRUE]

OnStreaming(f, ev) ==
    IF ev.id \notin Ids(f) THEN f
    ELSE [f EXCEPT ![FirstOf(f, ev.id)].state = IF @ = "active" THEN "streaming" ELSE @]

\* The entry, or a fresh one, goes between the active and the finished ones; a
\* fresh one is not trimmed.
OnFinished(f, ev) ==
    LET i == IF ev.id \in Ids(f) THEN FirstOf(f, ev.id) ELSE 0
        rest == [k \in 1..(Len(f) - IF i = 0 THEN 0 ELSE 1) |->
                    IF i # 0 /\ k >= i THEN f[k + 1] ELSE f[k]]
        firstFinished == CHOOSE k \in 1..(Len(rest) + 1) :
                            /\ k = Len(rest) + 1 \/ ~IsActive(rest[k])
                            /\ \A j \in 1..(k - 1) : IsActive(rest[j])
    IN  IF i # 0
        THEN SelectSeq(rest, IsActive) \o <<Ended(ev.id)>>
               \o SelectSeq(rest, LAMBDA e : ~IsActive(e))
        ELSE SubSeq(f, 1, firstFinished - 1) \o <<Ended(ev.id)>>
               \o SubSeq(f, firstFinished, Len(f))

Applied(f, ev) ==
    CASE ev.kind = "started" -> OnStarted(f, ev)
      [] ev.kind = "routed" -> OnRouted(f, ev)
      [] ev.kind = "streaming" -> OnStreaming(f, ev)
      [] ev.kind = "finished" -> OnFinished(f, ev)

-----------------------------------------------------------------------------
(* The hub *)

\* Mutation: a subscriber whose channel is full only misses the event.
PublishSkips(ev) ==
    LET full == {v \in subs : Len(queue[v]) = SubBuffer} IN
    /\ panicked' = (panicked \/ \E v \in subs : closed[v])
    /\ queue' = [v \in Pages |-> IF v \in subs \ full THEN Append(queue[v], ev) ELSE queue[v]]
    /\ UNCHANGED <<subs, closed>>

\* publish: a subscriber whose channel is full is dropped, its channel closed.
Publish(ev) ==
    LET full == {v \in subs : Len(queue[v]) = SubBuffer} IN
    /\ panicked' = (panicked \/ \E v \in subs : closed[v])
    /\ queue' = [v \in Pages |-> IF v \in subs \ full THEN Append(queue[v], ev) ELSE queue[v]]
    /\ subs' = subs \ full
    /\ closed' = [v \in Pages |-> closed[v] \/ v \in full]

Event(kind, r, routed) == [kind |-> kind, id |-> r, routed |-> routed]

\* One more failure is within the bound
Mishap == faults + drops + crashes < MaxMishaps

Fault == Mishap /\ faults' = faults + 1 /\ UNCHANGED <<drops, crashes>>
At(r, pc) == req[r] = pc
Go(r, pc) == req' = [req EXCEPT ![r] = pc]

-----------------------------------------------------------------------------
(* A request's handler: gateway_telemetry.go and the hub's publish methods *)

\* Mutation: publishFinished tells the pages first and tidies up afterwards.
AfterSwapped == [read |-> "publish", publish |-> "remove", remove |-> "over"]

\* publishFinished: what follows reading the record, and so on.
After == [read |-> "remove", remove |-> "publish", publish |-> "over"]

\* newGatewayTelemetry: the row; a failure is only logged.
StartRequest(r) ==
    /\ At(r, "idle") /\ Go(r, "add")
    /\ \/ row' = [row EXCEPT ![r] = "in_progress"] /\ UNCHANGED bounds
       \/ Fault /\ UNCHANGED row
    /\ started' = Append(started, r)
    /\ UNCHANGED <<hub, page, copied, feed>>

\* publishStarted, both parts.
AddActive(r) ==
    /\ At(r, "add") /\ Go(r, "announce")
    /\ active' = [x \in DOMAIN active \cup {r} |-> IF x = r THEN FALSE ELSE active[x]]
    /\ UNCHANGED <<row, started, subs, queue, closed, panicked, page, copied, feed, bounds>>

PublishStarted(r) ==
    /\ At(r, "announce") /\ Go(r, "route")
    /\ Publish(Event("started", r, FALSE))
    /\ UNCHANGED <<row, started, active, page, copied, feed, bounds>>

\* publishRouted, both parts.
RouteActive(r) ==
    /\ At(r, "route") /\ Go(r, "routed")
    /\ active' = [x \in DOMAIN active |-> active[x] \/ x = r]
    /\ UNCHANGED <<row, started, subs, queue, closed, panicked, page, copied, feed, bounds>>

PublishRouted(r) ==
    /\ At(r, "routed") /\ Go(r, "serve")
    /\ Publish(Event("routed", r, TRUE))
    /\ UNCHANGED <<row, started, active, page, copied, feed, bounds>>

\* The first bytes reach the client.
PublishStreaming(r) ==
    /\ At(r, "serve") /\ Go(r, "streamed")
    /\ Publish(Event("streaming", r, TRUE))
    /\ UNCHANGED <<row, started, active, page, copied, feed, bounds>>

\* FinishRequest; a failure is only logged.
FinishRequest(r) ==
    /\ req[r] \in {"serve", "streamed"} /\ Go(r, "read")
    /\ \/ row' = [row EXCEPT ![r] = IF @ = "none" THEN @ ELSE "finished"] /\ UNCHANGED bounds
       \/ Fault /\ UNCHANGED row
    /\ UNCHANGED <<started, hub, page, copied, feed>>

\* publishFinished reads the record; without one it tells nobody.
ReadRecord(r) ==
    /\ At(r, "read")
    /\ \/ row[r] # "none" /\ Go(r, After.read) /\ UNCHANGED bounds
       \/ row[r] = "none" /\ Go(r, "over") /\ UNCHANGED bounds
       \/ Fault /\ Go(r, "over")
    /\ UNCHANGED <<row, started, hub, page, copied, feed>>

RemoveActive(r) ==
    /\ At(r, "remove") /\ Go(r, After.remove)
    /\ active' = [x \in DOMAIN active \ {r} |-> active[x]]
    /\ UNCHANGED <<row, started, subs, queue, closed, panicked, page, copied, feed, bounds>>

PublishFinished(r) ==
    /\ At(r, "publish") /\ Go(r, After.publish)
    /\ Publish(Event("finished", r, TRUE))
    /\ UNCHANGED <<row, started, active, page, copied, feed, bounds>>

-----------------------------------------------------------------------------
(* A page's connection: monitoringEvents *)

Subscribe(v) ==
    /\ page[v] = "off"
    /\ page' = [page EXCEPT ![v] = "subscribed"]
    /\ subs' = subs \cup {v}
    /\ queue' = [queue EXCEPT ![v] = <<>>]
    /\ closed' = [closed EXCEPT ![v] = FALSE]
    /\ copied' = [copied EXCEPT ![v] = active]
    /\ UNCHANGED <<req, row, started, active, panicked, feed, bounds>>

\* RecentRecords: the latest finished rows, the latest first.
Recent ==
    LET done == SelectSeq(started, LAMBDA r : row[r] = "finished")
        n == IF Len(done) < RecentCap THEN Len(done) ELSE RecentCap
    IN  [i \in 1..n |-> Ended(done[Len(done) + 1 - i])]

\* Go ranges over a map in any order.
Listings(f) == {s \in [1..Cardinality(DOMAIN f) -> DOMAIN f] :
                   \A i, j \in DOMAIN s : s[i] = s[j] => i = j}

\* The hello event replaces the page's feed.
Hello(v) ==
    /\ page[v] = "subscribed"
    /\ page' = [page EXCEPT ![v] = "live"]
    /\ copied' = [copied EXCEPT ![v] = <<>>]
    /\ \E s \in Listings(copied[v]) :
          LET now == [i \in DOMAIN s |-> Started(s[i], copied[v][s[i]])] IN
          \/ feed' = [feed EXCEPT ![v] = Cut(now \o Recent)] /\ UNCHANGED bounds
          \/ feed' = [feed EXCEPT ![v] = Cut(now)] /\ Fault
    /\ UNCHANGED <<req, row, started, hub>>

Deliver(v) ==
    /\ page[v] = "live" /\ queue[v] # <<>>
    /\ feed' = [feed EXCEPT ![v] = Applied(@, Head(queue[v]))]
    /\ queue' = [queue EXCEPT ![v] = Tail(@)]
    /\ UNCHANGED <<req, row, started, active, subs, closed, panicked, page, copied, bounds>>

\* A closed channel is read to its end before the handler returns.
SeeClosed(v) ==
    /\ page[v] = "live" /\ queue[v] = <<>> /\ closed[v]
    /\ page' = [page EXCEPT ![v] = "leaving"]
    /\ UNCHANGED <<req, row, started, hub, copied, feed, bounds>>

\* The browser is gone: a write fails, or the request's context ends.
LoseConnection(v) ==
    /\ page[v] \in {"subscribed", "live"} /\ Mishap
    /\ page' = [page EXCEPT ![v] = "leaving"]
    /\ drops' = drops + 1
    /\ UNCHANGED <<req, row, started, hub, copied, feed, faults, crashes>>

\* Mutation: the deferred unsubscribe does not look whether publish was first.
UnsubscribeAgain(v) ==
    /\ page[v] = "leaving"
    /\ page' = [page EXCEPT ![v] = "off"]
    /\ subs' = subs \ {v}
    /\ panicked' = (panicked \/ closed[v])
    /\ closed' = [closed EXCEPT ![v] = TRUE]
    /\ UNCHANGED <<req, row, started, active, queue, copied, feed, bounds>>

\* The deferred unsubscribe.
Unsubscribe(v) ==
    /\ page[v] = "leaving"
    /\ page' = [page EXCEPT ![v] = "off"]
    /\ subs' = subs \ {v}
    /\ panicked' = (panicked \/ (v \in subs /\ closed[v]))
    /\ closed' = [closed EXCEPT ![v] = @ \/ v \in subs]
    /\ UNCHANGED <<req, row, started, active, queue, copied, feed, bounds>>

\* The daemon is killed and started again: the hub is empty, the handlers are
\* gone, ReapStale ends the rows left in progress. Pages keep what they show.
Crash ==
    /\ Mishap /\ crashes' = crashes + 1
    /\ req' = [r \in Requests |-> IF req[r] = "idle" THEN "idle" ELSE "over"]
    /\ row' = [r \in Requests |-> IF row[r] = "in_progress" THEN "finished" ELSE row[r]]
    /\ active' = <<>> /\ subs' = {}
    /\ queue' = [v \in Pages |-> <<>>]
    /\ closed' = [v \in Pages |-> FALSE]
    /\ page' = [v \in Pages |-> "off"]
    /\ copied' = [v \in Pages |-> <<>>]
    /\ UNCHANGED <<started, panicked, feed, faults, drops>>

-----------------------------------------------------------------------------
(* Specification *)

Init ==
    /\ req = [r \in Requests |-> "idle"]
    /\ row = [r \in Requests |-> "none"]
    /\ started = <<>>
    /\ active = <<>> /\ subs = {}
    /\ queue = [v \in Pages |-> <<>>]
    /\ closed = [v \in Pages |-> FALSE]
    /\ page = [v \in Pages |-> "off"]
    /\ copied = [v \in Pages |-> <<>>]
    /\ feed = [v \in Pages |-> <<>>]
    /\ panicked = FALSE
    /\ faults = 0 /\ drops = 0 /\ crashes = 0

Handler(r) ==
    \/ StartRequest(r) \/ AddActive(r) \/ PublishStarted(r) \/ RouteActive(r) \/ PublishRouted(r)
    \/ PublishStreaming(r) \/ FinishRequest(r) \/ ReadRecord(r) \/ RemoveActive(r)
    \/ PublishFinished(r)

Connection(v) == Subscribe(v) \/ Hello(v) \/ Deliver(v) \/ SeeClosed(v) \/ Unsubscribe(v)

Next ==
    \/ \E r \in Requests : Handler(r)
    \/ \E v \in Pages : Connection(v) \/ LoseConnection(v)
    \/ Crash

Spec == Init /\ [][Next]_vars

\* An EventSource connects again by itself, and the connection's handler and the
\* browser run on. publishFinished, once begun, runs to its end. How long a
\* request is served is up to the upstream.
FairSpec ==
    /\ Spec
    /\ \A v \in Pages : WF_vars(Connection(v))
    /\ \A r \in Requests : WF_vars(ReadRecord(r) \/ RemoveActive(r) \/ PublishFinished(r))

-----------------------------------------------------------------------------
(* Properties *)

\* publish drops a slow subscriber and the deferred unsubscribe ends every
\* connection, in either order: a channel is closed once and never sent to again
\* (either would panic and take the daemon down).
NoPanic == ~panicked

\* The handlers that are between two calls of the hub.
Settled(r) == req[r] \in {"idle", "serve", "streamed", "over"}

\* A page that has received everything shows exactly the requests in flight as
\* active, each with its route once it has one: whenever it connected, whatever
\* was published while it did, and after every drop and restart.
FeedAgrees ==
    \A v \in Pages :
        /\ faults = 0
        /\ page[v] = "live" /\ queue[v] = <<>> /\ ~closed[v]
        /\ \A r \in Requests : Settled(r)
        /\ Cardinality(Requests) <= FeedCap
        => /\ {feed[v][i].id : i \in {j \in 1..Len(feed[v]) : IsActive(feed[v][j])}}
                = {r \in Requests : req[r] \in {"serve", "streamed"}}
           /\ \A i \in 1..Len(feed[v]) : feed[v][i].routed

Over(v, r) == \E i \in 1..Len(feed[v]) : feed[v][i] = Ended(r)
Shown(v, r) == \E i \in 1..Len(feed[v]) : feed[v][i].id = r /\ IsActive(feed[v][i])

\* A request a page shows as finished does not become active again, except that
\* a hello may start the page over.
NeverRevived ==
    [][\A v \in Pages, r \in Requests :
          Over(v, r) /\ ~Shown(v, r) /\ Shown(v, r)' => page[v] = "subscribed"]_vars

\* When no database call fails, a request whose row is final does not stay active
\* on any page: publishFinished reaches it, and when the page's channel overflowed,
\* closing it makes the page connect again.
EndsAreSeen ==
    \A v \in Pages, r \in Requests : row[r] = "finished" ~> ~Shown(v, r) \/ faults > 0

=============================================================================
