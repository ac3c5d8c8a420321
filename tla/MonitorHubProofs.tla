-------------------------- MODULE MonitorHubProofs --------------------------
(***************************************************************************)
(* NoPanic of module MonitorHub for any number of requests and pages and any *)
(* buffer size, faults, lost connections and restarts. The two sides that    *)
(* close a channel, publish and unsubscribe, both take it off the subscribers *)
(* in the same step, so whoever is subscribed has an open channel; and a new  *)
(* channel is only made for a page that has no subscription left.            *)
(***************************************************************************)
EXTENDS MonitorHub, TLAPS

\* closed and page are functions on the pages.
Functional ==
    /\ closed \in [Pages -> BOOLEAN]
    /\ page \in [Pages -> {"off", "subscribed", "live", "leaving"}]

\* A subscriber is a page that is being served, with an open channel.
OpenToSubscribers == \A v \in subs : v \in Pages /\ page[v] # "off" /\ ~closed[v]

IInv == Functional /\ OpenToSubscribers /\ NoPanic

\* publish, whatever the event: it keeps the invariant by itself.
LEMMA PublishStep ==
    ASSUME IInv, NEW ev, Publish(ev), page' = page
    PROVE  IInv'
<1>1. ~panicked' /\ subs' \subseteq subs
  BY DEF IInv, NoPanic, OpenToSubscribers, Publish
<1>2. closed' \in [Pages -> BOOLEAN]
  <2>1. \A v \in Pages : closed[v] \in BOOLEAN
    BY DEF IInv, Functional
  <2> QED
    BY <2>1 DEF Publish
<1>3. \A v \in subs' : v \in Pages /\ ~closed'[v]
  <2> SUFFICES ASSUME NEW v \in subs'
               PROVE  v \in Pages /\ ~closed'[v]
    OBVIOUS
  <2>1. v \in subs /\ v \notin {w \in subs : Len(queue[w]) = SubBuffer}
    BY DEF Publish
  <2>2. v \in Pages /\ ~closed[v]
    BY <2>1 DEF IInv, OpenToSubscribers
  <2> QED
    BY <2>1, <2>2 DEF Publish
<1> QED
  BY <1>1, <1>2, <1>3 DEF IInv, Functional, OpenToSubscribers, NoPanic

\* A step that leaves the channels and the connections alone.
LEMMA QuietStep ==
    ASSUME IInv, UNCHANGED <<subs, closed, panicked, page>>
    PROVE  IInv'
BY DEF IInv, Functional, OpenToSubscribers, NoPanic

\* A request's handler.
LEMMA HandlerStep ==
    ASSUME IInv, NEW r \in Requests, Handler(r)
    PROVE  IInv'
<1>1. CASE \/ StartRequest(r) \/ AddActive(r) \/ RouteActive(r) \/ FinishRequest(r)
           \/ ReadRecord(r) \/ RemoveActive(r)
  BY <1>1, QuietStep
     DEF StartRequest, AddActive, RouteActive, FinishRequest, ReadRecord, RemoveActive, hub
<1>2. CASE \/ PublishStarted(r) \/ PublishRouted(r) \/ PublishStreaming(r)
           \/ PublishFinished(r)
  <2>1. page' = page /\ \E ev : Publish(ev)
    BY <1>2 DEF PublishStarted, PublishRouted, PublishStreaming, PublishFinished
  <2> QED
    BY <2>1, PublishStep
<1> QED
  BY <1>1, <1>2 DEF Handler

\* A page's connection. Only subscribe makes a channel, and only for a page
\* without a connection, which by the invariant has no subscription; only
\* unsubscribe closes one, and takes it off the subscribers with it.
LEMMA ConnectionStep ==
    ASSUME IInv, NEW v \in Pages, Connection(v) \/ LoseConnection(v)
    PROVE  IInv'
<1>1. CASE Subscribe(v)
  <2>1. Functional' /\ ~panicked'
    BY <1>1 DEF Subscribe, IInv, Functional, NoPanic
  <2>2. \A w \in subs' : w \in Pages /\ page'[w] # "off" /\ ~closed'[w]
    BY <1>1 DEF Subscribe, IInv, Functional, OpenToSubscribers
  <2> QED
    BY <2>1, <2>2 DEF IInv, OpenToSubscribers, NoPanic
<1>2. CASE Hello(v) \/ SeeClosed(v) \/ LoseConnection(v)
  <2>1. /\ UNCHANGED <<subs, closed, panicked>>
        /\ \E s \in {"live", "leaving"} : page' = [page EXCEPT ![v] = s]
    BY <1>2 DEF Hello, SeeClosed, LoseConnection, hub
  <2> QED
    BY <2>1 DEF IInv, Functional, OpenToSubscribers, NoPanic
<1>3. CASE Deliver(v)
  BY <1>3, QuietStep DEF Deliver
<1>4. CASE Unsubscribe(v)
  <2>1. ~(v \in subs /\ closed[v])
    BY DEF IInv, OpenToSubscribers
  <2>2. Functional' /\ ~panicked'
    BY <1>4, <2>1 DEF Unsubscribe, IInv, Functional, NoPanic
  <2>3. \A w \in subs' : w \in Pages /\ page'[w] # "off" /\ ~closed'[w]
    BY <1>4 DEF Unsubscribe, IInv, Functional, OpenToSubscribers
  <2> QED
    BY <2>2, <2>3 DEF IInv, OpenToSubscribers, NoPanic
<1> QED
  BY <1>1, <1>2, <1>3, <1>4 DEF Connection

\* A restart leaves no subscriber.
LEMMA CrashStep == IInv /\ Crash => IInv'
BY DEF IInv, Crash, Functional, OpenToSubscribers, NoPanic

\* Every connected page with a registered channel has an open one, and no
\* channel was closed twice or sent to after its close: in every reachable state.
THEOREM SubscribersInvariant == Spec => []IInv
<1>1. Init => IInv
  BY DEF Init, IInv, Functional, OpenToSubscribers, NoPanic
<1>2. IInv /\ [Next]_vars => IInv'
  <2> SUFFICES ASSUME IInv, [Next]_vars
               PROVE  IInv'
    OBVIOUS
  <2>1. ASSUME NEW r \in Requests, Handler(r)
        PROVE  IInv'
    BY <2>1, HandlerStep
  <2>2. ASSUME NEW v \in Pages, Connection(v) \/ LoseConnection(v)
        PROVE  IInv'
    BY <2>2, ConnectionStep
  <2>3. CASE Crash
    BY <2>3, CrashStep
  <2>4. CASE UNCHANGED vars
    BY <2>4, QuietStep DEF vars, hub
  <2> QED
    BY <2>1, <2>2, <2>3, <2>4 DEF Next
<1> QED
  BY <1>1, <1>2, PTL DEF Spec

\* publish and unsubscribe never close a channel twice, nor does publish send
\* to a closed one, in whatever order they reach the hub's mutex.
THEOREM NoDoubleClose == Spec => []NoPanic
<1>1. IInv => NoPanic
  BY DEF IInv
<1> QED
  BY <1>1, SubscribersInvariant, PTL
=============================================================================
