------------------------ MODULE GatewayRecordProofs ------------------------
(***************************************************************************)
(* More about module Gateway, for any number of requests and crashes: a     *)
(* request's record tells what its client got, is read the same way by both *)
(* sides of the monitoring page, and is written once. The three follow from *)
(* one invariant on top of the one of GatewayProofs: Records.               *)
(***************************************************************************)
EXTENDS GatewayProofs

\* An attempt has ended, and the request goes the same way.
Ending == {"closing", "finishing", "publishing"}

\* The handler x and its client c: the answer is whole exactly when the attempt
\* succeeded, no upstream's bytes count as the gateway's, and an outcome that is
\* no success has a category.
Told(x, c) ==
    /\ x.pc \in {"secret", "proxy", "reading", "relay"} => x.num # 0
    /\ x.pc \notin Settled =>
          /\ 0 \notin c.from
          /\ c.whole <=> x.pc \in Ending /\ x.res.kind = "success"
    /\ x.pc \in Ending /\ x.res.kind \in {"error", "local"} => x.res.cat # ""

\* The request row q has its final state.
Final(q) == q # None /\ q.status # "in_progress"

\* Only FinishRequest and ReapStale give a row its final state, and a row that
\* FinishRequest wrote (boot 0) tells the outcome.
Closed(x, c, q) ==
    /\ x.pc = "idle" => q = None
    /\ Final(q) =>
          /\ x.pc \in {"publishing", "respond"} \cup Settled
          /\ TotalsClass(q) = FilterClass(q)
          /\ q.boot = 0 =>
                /\ x.pc = "publishing" => (q.status = "success" <=> x.res.kind = "success")
                /\ x.pc = "respond" => q.status # "success"
                /\ x.pc = "done" => (q.status = "success" <=> c.whole /\ 0 \notin c.from)

Record(x, c, q) == Told(x, c) /\ Closed(x, c, q)

\* A daemon that is down, or reaping, runs no handler and has crashed.
Down == daemon # "up" => /\ crashes # 0
                         /\ \A r \in Requests : h[r].pc \notin Running

Records == Down /\ \A r \in Requests : Record(h[r], client[r], reqRow[r])

RInv == IInv /\ Records

-----------------------------------------------------------------------------
(* Steps of one handler *)

\* A step of one handler has to keep Record for its own request only.
Advance(r) ==
    /\ daemon = "up" /\ daemon' = daemon
    /\ \A o \in Requests \ {r} :
          h'[o] = h[o] /\ client'[o] = client[o] /\ reqRow'[o] = reqRow[o]
    /\ Record(h'[r], client'[r], reqRow'[r])

LEMMA AdvanceKeeps ==
    ASSUME RInv, NEW r \in Requests, Advance(r)
    PROVE  Records'
<1>1. Down'
  BY DEF Advance, Down
<1>2. ASSUME NEW o \in Requests
      PROVE  Record(h'[o], client'[o], reqRow'[o])
  <2>1. CASE o = r
    BY <2>1 DEF Advance
  <2>2. CASE o # r
    BY <2>2 DEF Advance, RInv, Records
  <2> QED
    BY <2>1, <2>2
<1> QED
  BY <1>1, <1>2 DEF Records

\* A handler that runs: its parts, and that the daemon is up.
LEMMA RunningHandler ==
    ASSUME RInv, NEW r \in Requests, h[r].pc \in Running
    PROVE  /\ daemon = "up"
           /\ h[r] \in Handlers /\ h[r].res \in Results /\ h[r].num \in Nat
           /\ client[r] \in Clients /\ Delivery(h[r], client[r])
           /\ reqRow[r] \in RequestRows \cup {None}
           /\ Told(h[r], client[r]) /\ Closed(h[r], client[r], reqRow[r])
<1>1. TypeOK /\ Delivery(h[r], client[r]) /\ Down /\ Record(h[r], client[r], reqRow[r])
  BY DEF RInv, IInv, Records
<1>2. h[r] \in Handlers /\ client[r] \in Clients /\ reqRow[r] \in RequestRows \cup {None}
  BY <1>1 DEF TypeOK
<1>3. daemon = "up"
  BY <1>1 DEF Down
<1>4. h[r].res \in Results /\ h[r].num \in Nat
  BY <1>2 DEF Handlers
<1> QED
  BY <1>1, <1>2, <1>3, <1>4 DEF Record

Early == {"announce", "target", "begin", "secret", "proxy", "reading", "relay", "closing"}

\* Up to FinishRequest the row is not final: a step has to keep Told only.
LEMMA EarlyStep ==
    ASSUME RInv, NEW r \in Requests, h[r].pc \in Early,
           NEW x, NEW c, x.pc # "idle", Told(x, c),
           h' = [h EXCEPT ![r] = x], client' = [client EXCEPT ![r] = c],
           reqRow' = reqRow, daemon' = daemon
    PROVE  Advance(r)
<1>1. h[r].pc \in Running /\ h[r].pc \notin {"publishing", "respond"} \cup Settled
  BY DEF Early, Running, Settled
<1>2. daemon = "up" /\ Closed(h[r], client[r], reqRow[r])
  BY <1>1, RunningHandler
<1>3. ~Final(reqRow[r])
  BY <1>1, <1>2 DEF Closed
<1>4. Closed(x, c, reqRow[r])
  BY <1>3 DEF Closed
<1>5. h'[r] = x /\ client'[r] = c
  BY DEF RInv, IInv, TypeOK
<1>6. \A o \in Requests \ {r} : h'[o] = h[o] /\ client'[o] = client[o]
  BY DEF RInv, IInv, TypeOK
<1> QED
  BY <1>2, <1>4, <1>5, <1>6 DEF Advance, Record

\* The same, for a step that sends the client nothing.
LEMMA SilentStep ==
    ASSUME RInv, NEW r \in Requests, h[r].pc \in Early,
           NEW x, x.pc # "idle", Told(x, client[r]),
           h' = [h EXCEPT ![r] = x], client' = client,
           reqRow' = reqRow, daemon' = daemon
    PROVE  Advance(r)
<1>1. client' = [client EXCEPT ![r] = client[r]]
  BY DEF RInv, IInv, TypeOK
<1> QED
  BY <1>1, EarlyStep

\* Before an attempt has ended the client has nothing whole.
LEMMA NothingYet ==
    ASSUME RInv, NEW r \in Requests, h[r].pc \in Early \ {"closing"}
    PROVE  /\ h[r] \in Handlers /\ h[r].num \in Nat /\ client[r] \in Clients
           /\ 0 \notin client[r].from /\ client[r].whole = FALSE
           /\ h[r].pc \in {"secret", "proxy", "reading", "relay"} => h[r].num # 0
<1>1. h[r].pc \in Running /\ h[r].pc \notin Settled \cup Ending
  BY DEF Early, Running, Settled, Ending
<1>2. /\ h[r] \in Handlers /\ h[r].num \in Nat /\ client[r] \in Clients
      /\ Told(h[r], client[r])
  BY <1>1, RunningHandler
<1>3. client[r].whole \in BOOLEAN
  BY <1>2 DEF Clients
<1> QED
  BY <1>1, <1>2, <1>3 DEF Told

LEMMA BeforeTheCall ==
    ASSUME RInv, NEW r \in Requests,
           Announce(r) \/ EnterTarget(r) \/ Exhaust(r) \/ BeginAttempt(r) \/ ReadSecret(r)
    PROVE  Advance(r)
<1>1. h[r].pc \in Early \ {"closing"}
  BY DEF Early, Announce, EnterTarget, Exhaust, BeginAttempt, ReadSecret
<1>2. /\ h[r] \in Handlers /\ h[r].num \in Nat
      /\ 0 \notin client[r].from /\ client[r].whole = FALSE
      /\ h[r].pc \in {"secret", "proxy", "reading", "relay"} => h[r].num # 0
  BY <1>1, NothingYet
<1>3. client' = client /\ reqRow' = reqRow /\ daemon' = daemon
  BY DEF Announce, EnterTarget, Exhaust, BeginAttempt, ReadSecret, world, telemetry
<1>4. ASSUME NEW x, h' = [h EXCEPT ![r] = x], x.pc # "idle", Told(x, client[r])
      PROVE  Advance(r)
  BY <1>1, <1>3, <1>4, SilentStep
<1>5. CASE Announce(r)
  <2> DEFINE x == [h[r] EXCEPT !.pc = "target"]
  <2>1. h' = [h EXCEPT ![r] = x]
    BY <1>5 DEF Announce, Goto
  <2>2. x.pc = "target"
    BY <1>2 DEF Handlers
  <2> HIDE DEF x
  <2> QED
    BY <1>2, <1>4, <2>1, <2>2 DEF Told, Settled, Ending
<1>6. CASE EnterTarget(r)
  <2>1. PICK x : h' = [h EXCEPT ![r] = x] /\ x.pc = "begin"
    <3> DEFINE y == [h[r] EXCEPT !.pc = "begin", !.sig = Target(r).rules]
               z == [h[r] EXCEPT !.pc = "begin"]
    <3>1. y.pc = "begin" /\ z.pc = "begin"
      BY <1>2 DEF Handlers
    <3>2. h' = [h EXCEPT ![r] = y] \/ h' = [h EXCEPT ![r] = z]
      BY <1>6 DEF EnterTarget, Goto
    <3> HIDE DEF y, z
    <3> QED
      BY <3>1, <3>2
  <2> QED
    BY <1>2, <1>4, <2>1 DEF Told, Settled, Ending
<1>7. CASE Exhaust(r)
  <2> DEFINE x == [h[r] EXCEPT !.pc = "finishing", !.res.kind = "exhausted"]
  <2>1. h' = [h EXCEPT ![r] = x]
    BY <1>7 DEF Exhaust
  <2>2. x.pc = "finishing" /\ x.res.kind = "exhausted"
    BY <1>2 DEF Handlers, Results
  <2> HIDE DEF x
  <2> QED
    BY <1>2, <1>4, <2>1, <2>2 DEF Told, Settled, Ending
<1>8. CASE BeginAttempt(r)
  <2> DEFINE x == [h[r] EXCEPT !.pc = "secret", !.num = h[r].num + 1, !.sent = FALSE,
                               !.committed = FALSE, !.res = NoResult]
  <2>1. h' = [h EXCEPT ![r] = x]
    BY <1>8 DEF BeginAttempt
  <2>2. x.pc = "secret" /\ x.num # 0
    BY <1>2 DEF Handlers
  <2> HIDE DEF x
  <2> QED
    BY <1>2, <1>4, <2>1, <2>2 DEF Told, Settled, Ending
<1>9. CASE ReadSecret(r)
  <2>1. CASE Key(r) \in stored \ SealedKeys /\ r \in present
    <3> DEFINE x == [h[r] EXCEPT !.pc = "proxy"]
    <3>1. h' = [h EXCEPT ![r] = x]
      BY <1>9, <2>1 DEF ReadSecret, Goto
    <3>2. x.pc = "proxy" /\ x.num = h[r].num /\ h[r].pc = "secret"
      BY <1>2, <1>9 DEF Handlers, ReadSecret
    <3> HIDE DEF x
    <3> QED
      BY <1>2, <1>4, <3>1, <3>2 DEF Told, Settled, Ending
  <2>2. CASE ~(Key(r) \in stored \ SealedKeys /\ r \in present)
    <3> DEFINE cat == IF r \in present THEN "connection_failure" ELSE "canceled"
               x == [h[r] EXCEPT !.pc = "closing", !.lastCat = cat, !.res = Unread(cat)]
    <3>1. h' = [h EXCEPT ![r] = x]
      BY <1>9, <2>2 DEF ReadSecret
    <3>2. x.pc = "closing" /\ x.res.kind = "local" /\ x.res.cat # ""
      BY <1>2 DEF Handlers, Unread
    <3> HIDE DEF x
    <3> QED
      BY <1>2, <1>4, <3>1, <3>2 DEF Told, Settled, Ending
  <2> QED
    BY <2>1, <2>2
<1> QED
  BY <1>5, <1>6, <1>7, <1>8, <1>9

-----------------------------------------------------------------------------
(* Steps of the upstream *)

LEMMA CategoriesAreNamed == \A s : CategoryOf(s) # ""
BY DEF CategoryOf

\* The request has been written out: nothing else changes.
LEMMA SentAdvances ==
    ASSUME RInv, NEW r \in Requests, Sent(r)
    PROVE  Advance(r)
<1> DEFINE x == [h[r] EXCEPT !.sent = TRUE]
<1>1. h[r].pc \in Early \ {"closing"}
  BY DEF Early, Sent
<1>2. h[r] \in Handlers /\ 0 \notin client[r].from /\ client[r].whole = FALSE /\ h[r].num # 0
  BY <1>1, NothingYet DEF Sent
<1>3. x.pc = "proxy" /\ x.num = h[r].num
  BY <1>2 DEF Handlers, Sent
<1>4. h' = [h EXCEPT ![r] = x] /\ client' = client /\ reqRow' = reqRow /\ daemon' = daemon
  BY DEF Sent, world, telemetry
<1> HIDE DEF x
<1>5. Told(x, client[r])
  BY <1>2, <1>3 DEF Told, Settled, Ending
<1> QED
  BY <1>1, <1>3, <1>4, <1>5, SilentStep

\* The call failed, with a category, and the client has nothing whole.
LEMMA FailAdvances ==
    ASSUME RInv, NEW r \in Requests, h[r].pc \in {"proxy", "reading", "relay"},
           NEW err, err.kind = "error", err.cat # "", Fail(r, err),
           client' = client, reqRow' = reqRow, daemon' = daemon
    PROVE  Advance(r)
<1> DEFINE x == [h[r] EXCEPT !.pc = "closing", !.res = err, !.lastCat = err.cat]
<1>1. h[r].pc \in Early \ {"closing"}
  BY DEF Early
<1>2. h[r] \in Handlers /\ 0 \notin client[r].from /\ client[r].whole = FALSE
  BY <1>1, NothingYet
<1>3. x.pc = "closing" /\ x.res = err
  BY <1>2 DEF Handlers
<1>4. h' = [h EXCEPT ![r] = x]
  BY DEF Fail
<1> HIDE DEF x
<1>5. Told(x, client[r])
  BY <1>2, <1>3 DEF Told, Settled, Ending
<1> QED
  BY <1>1, <1>3, <1>4, <1>5, SilentStep

\* The client is sent bytes of the current attempt.
LEMMA BytesAdvance ==
    ASSUME RInv, NEW r \in Requests, h[r].pc \in {"proxy", "reading"},
           NEW x, NEW whole \in BOOLEAN,
           \/ x.pc = "relay" /\ ~whole /\ x.num = h[r].num
           \/ x.pc = "closing" /\ x.res.kind = "success" /\ whole
           \/ x.pc = "closing" /\ x.res.kind = "error" /\ x.res.cat # "" /\ ~whole,
           h' = [h EXCEPT ![r] = x],
           client' = [client EXCEPT ![r] = Written(client[r], 200, h[r].num, whole)],
           reqRow' = reqRow, daemon' = daemon
    PROVE  Advance(r)
<1> DEFINE c == Written(client[r], 200, h[r].num, whole)
<1>1. h[r].pc \in Early \ {"closing"}
  BY DEF Early
<1>2. 0 \notin client[r].from /\ h[r].num # 0 /\ h[r].num \in Nat
  BY <1>1, NothingYet
<1>3. c.whole = whole /\ 0 \notin c.from
  BY <1>2 DEF Written
<1> HIDE DEF c
<1>4. Told(x, c)
  BY <1>2, <1>3 DEF Told, Settled, Ending
<1>5. x.pc # "idle"
  OBVIOUS
<1> QED
  BY <1>1, <1>4, <1>5, EarlyStep DEF c

LEMMA UpstreamFails ==
    ASSUME RInv, NEW r \in Requests,
           NoAnswer(r) \/ BreakReading(r) \/ RelayBreaks(r) \/ Canceled(r)
    PROVE  Advance(r)
<1>1. h[r].pc \in {"proxy", "reading", "relay"}
  BY DEF NoAnswer, BreakReading, RelayBreaks, Canceled
<1>2. client' = client /\ reqRow' = reqRow /\ daemon' = daemon
  BY DEF NoAnswer, BreakReading, RelayBreaks, Canceled, world, telemetry
<1>3. \E err : err.kind = "error" /\ err.cat # "" /\ Fail(r, err)
  <2>1. \A s, cat, gone : Error(s, cat, gone).kind = "error" /\ Error(s, cat, gone).cat = cat
    BY DEF Error
  <2>2. \/ \E cat \in {"connection_failure", "canceled"} : Fail(r, Error(0, cat, FALSE))
        \/ Fail(r, Error(0, "connection_failure", FALSE))
        \/ Fail(r, Error(h[r].head, CategoryOf(h[r].head), FALSE))
        \/ Fail(r, Error(0, "canceled", TRUE))
    BY DEF NoAnswer, BreakReading, RelayBreaks, Canceled
  <2>3. PICK s, cat, gone : Fail(r, Error(s, cat, gone)) /\ cat # ""
    <3>1. "connection_failure" # "" /\ "canceled" # "" /\ CategoryOf(h[r].head) # ""
      BY CategoriesAreNamed
    <3> QED
      BY <2>2, <3>1, ZenonT(30)
  <2> QED
    BY <2>1, <2>3, Zenon
<1> QED
  BY <1>1, <1>2, <1>3, FailAdvances

LEMMA UpstreamAnswers ==
    ASSUME RInv, NEW r \in Requests, HeadArrives(r) \/ ReadBody(r)
    PROVE  Advance(r)
<1>1. h[r].pc \in {"proxy", "reading"} /\ h[r].pc \in Early \ {"closing"}
  BY DEF HeadArrives, ReadBody, Early
<1>2. h[r] \in Handlers /\ 0 \notin client[r].from /\ client[r].whole = FALSE /\ h[r].num # 0
  BY <1>1, NothingYet
<1>3. reqRow' = reqRow /\ daemon' = daemon
  BY DEF HeadArrives, ReadBody, world, telemetry
<1>4. CASE HeadArrives(r)
  <2>1. ASSUME NEW s \in Statuses \cup {200}, client' = client,
               h' = [h EXCEPT ![r] = [@ EXCEPT !.pc = "reading", !.head = s]]
        PROVE  Advance(r)
    <3> DEFINE x == [h[r] EXCEPT !.pc = "reading", !.head = s]
    <3>1. h' = [h EXCEPT ![r] = x]
      BY <2>1
    <3>2. x.pc = "reading" /\ x.num = h[r].num
      BY <1>2 DEF Handlers
    <3> HIDE DEF x
    <3>3. Told(x, client[r])
      BY <1>2, <3>2 DEF Told, Settled, Ending
    <3> QED
      BY <1>1, <1>3, <2>1, <3>1, <3>2, <3>3, SilentStep
  <2>2. ASSUME h' = [h EXCEPT ![r] = [@ EXCEPT !.pc = "relay", !.committed = TRUE]],
               client' = [client EXCEPT ![r] = Written(@, 200, h[r].num, FALSE)]
        PROVE  Advance(r)
    <3> DEFINE x == [h[r] EXCEPT !.pc = "relay", !.committed = TRUE]
    <3>1. h' = [h EXCEPT ![r] = x]
      BY <2>2
    <3>2. x.pc = "relay" /\ x.num = h[r].num
      BY <1>2 DEF Handlers
    <3>3. client' = [client EXCEPT ![r] = Written(client[r], 200, h[r].num, FALSE)]
      BY <2>2
    <3> HIDE DEF x
    <3> QED
      BY <1>1, <1>3, <3>1, <3>2, <3>3, BytesAdvance
  <2> QED
    BY <1>4, <2>1, <2>2 DEF HeadArrives
<1>5. CASE ReadBody(r)
  <2>1. ASSUME NEW s, Fail(r, Error(s, CategoryOf(s), FALSE)), client' = client
        PROVE  Advance(r)
    <3>1. Error(s, CategoryOf(s), FALSE).kind = "error" /\ Error(s, CategoryOf(s), FALSE).cat # ""
      BY CategoriesAreNamed DEF Error
    <3> QED
      BY <1>1, <1>3, <2>1, <3>1, FailAdvances
  <2>2. ASSUME h' = [h EXCEPT ![r] = [@ EXCEPT !.pc = "closing", !.committed = TRUE,
                                               !.res = Success]],
               client' = [client EXCEPT ![r] = Written(@, 200, h[r].num, TRUE)]
        PROVE  Advance(r)
    <3> DEFINE x == [h[r] EXCEPT !.pc = "closing", !.committed = TRUE, !.res = Success]
    <3>1. h' = [h EXCEPT ![r] = x]
      BY <2>2
    <3>2. x.pc = "closing" /\ x.res.kind = "success"
      BY <1>2 DEF Handlers, Success
    <3>3. client' = [client EXCEPT ![r] = Written(client[r], 200, h[r].num, TRUE)]
      BY <2>2
    <3> HIDE DEF x
    <3> QED
      BY <1>1, <1>3, <3>1, <3>2, <3>3, BytesAdvance
  <2>3. ASSUME h' = [h EXCEPT ![r] = [@ EXCEPT !.pc = "closing", !.committed = TRUE,
                                               !.res = Error(0, "connection_failure", FALSE),
                                               !.lastCat = "connection_failure"]],
               client' = [client EXCEPT ![r] = Written(@, 200, h[r].num, FALSE)]
        PROVE  Advance(r)
    <3> DEFINE err == Error(0, "connection_failure", FALSE)
               x == [h[r] EXCEPT !.pc = "closing", !.committed = TRUE, !.res = err,
                                 !.lastCat = "connection_failure"]
    <3>1. h' = [h EXCEPT ![r] = x]
      BY <2>3
    <3>2. x.pc = "closing" /\ x.res.kind = "error" /\ x.res.cat # ""
      BY <1>2 DEF Handlers, Error
    <3>3. client' = [client EXCEPT ![r] = Written(client[r], 200, h[r].num, FALSE)]
      BY <2>3
    <3> HIDE DEF x, err
    <3> QED
      BY <1>1, <1>3, <3>1, <3>2, <3>3, BytesAdvance
  <2> QED
    BY <1>5, <2>1, <2>2, <2>3, ZenonT(30) DEF ReadBody
<1> QED
  BY <1>4, <1>5

LEMMA RelayAdvances ==
    ASSUME RInv, NEW r \in Requests, RelayEnds(r)
    PROVE  Advance(r)
<1> DEFINE x == [h[r] EXCEPT !.pc = "closing", !.res = Success]
           c == [client[r] EXCEPT !.whole = TRUE]
<1>1. h[r].pc \in Early \ {"closing"}
  BY DEF RelayEnds, Early
<1>2. h[r] \in Handlers /\ client[r] \in Clients /\ 0 \notin client[r].from
  BY <1>1, NothingYet
<1>3. h' = [h EXCEPT ![r] = x] /\ client' = [client EXCEPT ![r] = c]
      /\ reqRow' = reqRow /\ daemon' = daemon
  BY DEF RelayEnds, world, telemetry
<1>4. x.pc = "closing" /\ x.res.kind = "success"
  BY <1>2 DEF Handlers, Success
<1>5. c.whole = TRUE /\ c.from = client[r].from
  BY <1>2 DEF Clients
<1> HIDE DEF x, c
<1>6. Told(x, c)
  BY <1>2, <1>4, <1>5 DEF Told, Settled, Ending
<1> QED
  BY <1>1, <1>3, <1>4, <1>6, EarlyStep

-----------------------------------------------------------------------------
(* Closing an attempt and the request *)

\* Only a whole answer is served.
LEMMA ServedIsSuccess ==
    ASSUME NEW r, h[r].res.kind \in {"none", "success", "local", "error", "exhausted"}
    PROVE  /\ Verdict(r) = "served" <=> h[r].res.kind = "success"
           /\ Verdict(r) = "exhausted" <=> h[r].res.kind = "exhausted"
BY DEF Verdict

LEMMA CloseAdvances ==
    ASSUME RInv, NEW r \in Requests, CloseAttempt(r)
    PROVE  Advance(r)
<1>1. h[r].pc = "closing" /\ h[r].pc \in Early /\ h[r].pc \in Running
  BY DEF CloseAttempt, Early, Running
<1>2. h[r] \in Handlers /\ h[r].res \in Results /\ Told(h[r], client[r]) /\ client[r] \in Clients
  BY <1>1, RunningHandler
<1>3. /\ 0 \notin client[r].from /\ (client[r].whole <=> h[r].res.kind = "success")
      /\ h[r].res.kind \in {"error", "local"} => h[r].res.cat # ""
  BY <1>1, <1>2 DEF Told, Settled, Ending
<1>4. client' = client /\ reqRow' = reqRow /\ daemon' = daemon
  BY DEF CloseAttempt, world
<1>5. h[r].res.kind \in {"none", "success", "local", "error", "exhausted"}
  BY <1>2 DEF Results
<1>6. CASE Verdict(r) \in {"refused", "skipped"}
  <2>0. h[r].res.kind # "success"
    BY <1>5, <1>6, ServedIsSuccess
  <2>1. ~client[r].whole
    BY <1>3, <2>0, Zenon
  <2>2. h' = [h EXCEPT ![r] = NextCandidate(r)]
    BY <1>6 DEF CloseAttempt
  <2>3. NextCandidate(r).pc \in {"target", "begin"}
    BY <1>2 DEF NextCandidate, Handlers
  <2>4. Told(NextCandidate(r), client[r])
    BY <1>3, <2>1, <2>3 DEF Told, Settled, Ending
  <2>5. NextCandidate(r).pc # "idle"
    BY <2>3
  <2> QED
    BY <1>1, <1>4, <2>2, <2>4, <2>5, SilentStep
<1>7. CASE Verdict(r) \notin {"refused", "skipped"}
  <2> DEFINE x == [h[r] EXCEPT !.pc = "finishing"]
  <2>1. h' = [h EXCEPT ![r] = x]
    BY <1>7 DEF CloseAttempt, Goto
  <2>2. x.pc = "finishing" /\ x.res = h[r].res
    BY <1>2 DEF Handlers
  <2> HIDE DEF x
  <2>3. Told(x, client[r])
    BY <1>3, <2>2 DEF Told, Settled, Ending
  <2> QED
    BY <1>1, <1>4, <2>1, <2>2, <2>3, SilentStep
<1> QED
  BY <1>6, <1>7

\* The row FinishRequest writes tells the outcome, and both sides of the
\* monitoring page read it the same way.
LEMMA ResultIsRead ==
    ASSUME RInv, NEW r \in Requests, h[r].pc = "finishing"
    PROVE  /\ RequestResult(r).boot = 0
           /\ RequestResult(r).status = "success" <=> h[r].res.kind = "success"
           /\ TotalsClass(RequestResult(r)) = FilterClass(RequestResult(r))
<1> DEFINE q == RequestResult(r)
<1>1. /\ h[r] \in Handlers /\ h[r].res \in Results
      /\ Told(h[r], client[r]) /\ Delivery(h[r], client[r])
  BY RunningHandler DEF Running
<1>2. h[r].res.kind \in {"success", "local", "error", "exhausted"}
  BY <1>1 DEF Results, Delivery, Position
<1>3. h[r].res.kind \in {"error", "local"} => h[r].res.cat # ""
  BY <1>1 DEF Told, Ending
<1>4. CASE h[r].res.kind = "success"
  <2>1. Verdict(r) = "served"
    BY <1>4, ServedIsSuccess
  <2>2. client[r].status = 200
    BY <1>1, <1>4 DEF Delivery, Position, Delivered, Settled
  <2>3. q = [status |-> "success", http |-> 200, cat |-> "", boot |-> 0]
    BY <2>1, <2>2 DEF RequestResult
  <2> HIDE DEF q
  <2>4. q.status = "success" /\ q.http = 200 /\ q.cat = "" /\ q.boot = 0
    BY <2>3, Zenon
  <2>5. TotalsClass(q) = FilterClass(q)
    <3>1. q.cat # "canceled" /\ ~(q.cat # "")
      BY <2>4, Zenon
    <3>2. ~(q.http # None /\ q.http >= 400)
      <4>1. q.http = 200
        BY <2>4, Zenon
      <4>2. ~(200 >= 400)
        OBVIOUS
      <4> QED
        BY <4>1, <4>2, Zenon
    <3> QED
      BY <2>4, <3>1, <3>2, Zenon DEF TotalsClass, FilterClass
  <2> QED
    BY <1>4, <2>4, <2>5 DEF q
<1>5. CASE h[r].res.kind = "exhausted"
  <2>1. Verdict(r) = "exhausted"
    BY <1>5, ServedIsSuccess
  <2>2. h[r].lastStatus \in ErrorStatuses
    BY <1>1 DEF Handlers
  <2>3. q = [status |-> "error", http |-> h[r].lastStatus, cat |-> h[r].lastCat, boot |-> 0]
    BY <2>1 DEF RequestResult
  <2>4. q.http # None /\ q.http >= 400
    BY <2>2, <2>3, GatewayAssumption DEF ErrorStatuses
  <2>5. q.status = "error" /\ q.boot = 0
    BY <2>3
  <2> HIDE DEF q
  <2>6. TotalsClass(q) = FilterClass(q)
    BY <2>4, <2>5 DEF TotalsClass, FilterClass
  <2> QED
    BY <1>5, <2>5, <2>6 DEF q
<1>6. CASE h[r].res.kind \in {"error", "local"}
  <2>1. Verdict(r) # "served" /\ Verdict(r) # "exhausted"
    BY <1>6, ServedIsSuccess
  <2>2. q = [status |-> "error", http |-> AttemptStatus(r), cat |-> h[r].res.cat, boot |-> 0]
    BY <2>1 DEF RequestResult
  <2> HIDE DEF q
  <2>c. q.status = "error" /\ q.boot = 0 /\ q.cat = h[r].res.cat
    BY <2>2
  <2>3. q.status = "error" /\ q.boot = 0 /\ q.cat # ""
    BY <1>3, <1>6, <2>c, Zenon
  <2>4. TotalsClass(q) = FilterClass(q)
    BY <2>3 DEF TotalsClass, FilterClass
  <2> QED
    BY <1>6, <2>3, <2>4 DEF q
<1> QED
  BY <1>2, <1>4, <1>5, <1>6

LEMMA FinishAdvances ==
    ASSUME RInv, NEW r \in Requests, FinishRequest(r)
    PROVE  Advance(r)
<1> DEFINE x == [h[r] EXCEPT !.pc = "publishing"]
<1>1. h[r].pc = "finishing" /\ h[r].pc \in Running
  BY DEF FinishRequest, Running
<1>2. /\ daemon = "up" /\ h[r] \in Handlers
      /\ Told(h[r], client[r]) /\ Closed(h[r], client[r], reqRow[r])
  BY <1>1, RunningHandler
<1>3. h' = [h EXCEPT ![r] = x] /\ client' = client /\ daemon' = daemon
  BY DEF FinishRequest, Goto, world
<1>4. x.pc = "publishing" /\ x.res = h[r].res
  BY <1>2 DEF Handlers
<1> HIDE DEF x
<1>5. Told(x, client[r])
  BY <1>1, <1>2, <1>4 DEF Told, Settled, Ending
<1>6. ~Final(reqRow[r])
  BY <1>1, <1>2 DEF Closed, Settled
<1>7. /\ RequestResult(r).boot = 0
      /\ RequestResult(r).status = "success" <=> h[r].res.kind = "success"
      /\ TotalsClass(RequestResult(r)) = FilterClass(RequestResult(r))
  BY <1>1, ResultIsRead
<1>8. Closed(x, client[r], RequestResult(r)) /\ Closed(x, client[r], reqRow[r])
  BY <1>4, <1>6, <1>7 DEF Closed, Settled
<1>9. \/ reqRow' = [reqRow EXCEPT ![r] = RequestResult(r)]
      \/ reqRow' = reqRow
  BY DEF FinishRequest
<1>10. /\ reqRow'[r] \in {RequestResult(r), reqRow[r]}
       /\ \A o \in Requests \ {r} : reqRow'[o] = reqRow[o]
  BY <1>9 DEF RInv, IInv, TypeOK
<1>11. h'[r] = x /\ \A o \in Requests \ {r} : h'[o] = h[o]
  BY <1>3 DEF RInv, IInv, TypeOK
<1> QED
  BY <1>2, <1>3, <1>5, <1>8, <1>10, <1>11 DEF Advance, Record

LEMMA PublishAdvances ==
    ASSUME RInv, NEW r \in Requests, PublishFinished(r)
    PROVE  Advance(r)
<1> DEFINE pc == IF Verdict(r) \in {"rejected", "exhausted"} THEN "respond" ELSE "done"
           x == [h[r] EXCEPT !.pc = pc]
<1>1. h[r].pc = "publishing" /\ h[r].pc \in Running
  BY DEF PublishFinished, Running
<1>2. /\ daemon = "up" /\ h[r] \in Handlers /\ h[r].res \in Results
      /\ Told(h[r], client[r]) /\ Closed(h[r], client[r], reqRow[r])
  BY <1>1, RunningHandler
<1>3. /\ h' = [h EXCEPT ![r] = x] /\ client' = client /\ reqRow' = reqRow
      /\ daemon' = daemon
  BY DEF PublishFinished, Goto, world
<1>4. x.pc = pc /\ x.pc \in {"respond", "done"}
  BY <1>2 DEF Handlers
<1>5. x.pc = "respond" => h[r].res.kind # "success"
  <2>1. h[r].res.kind \in {"none", "success", "local", "error", "exhausted"}
    BY <1>2 DEF Results
  <2> QED
    BY <1>4, <2>1, ServedIsSuccess
<1> HIDE DEF x, pc
<1>6. 0 \notin client[r].from /\ (client[r].whole <=> h[r].res.kind = "success")
  BY <1>1, <1>2 DEF Told, Settled, Ending
<1>7. Told(x, client[r])
  BY <1>4, <1>5, <1>6 DEF Told, Settled, Ending
<1>8. Closed(x, client[r], reqRow[r])
  BY <1>1, <1>2, <1>4, <1>5, <1>6 DEF Closed, Settled
<1>9. h'[r] = x /\ \A o \in Requests \ {r} : h'[o] = h[o]
  BY <1>3 DEF RInv, IInv, TypeOK
<1> QED
  BY <1>2, <1>3, <1>7, <1>8, <1>9 DEF Advance, Record

LEMMA RespondAdvances ==
    ASSUME RInv, NEW r \in Requests, Respond(r)
    PROVE  Advance(r)
<1> DEFINE x == [h[r] EXCEPT !.pc = "done"]
           c == Written(client[r], ErrorStatus(r), 0, TRUE)
<1>1. h[r].pc = "respond" /\ h[r].pc \in Running
  BY DEF Respond, Running
<1>2. daemon = "up" /\ h[r] \in Handlers /\ Closed(h[r], client[r], reqRow[r])
  BY <1>1, RunningHandler
<1>3. /\ h' = [h EXCEPT ![r] = x] /\ client' = [client EXCEPT ![r] = c]
      /\ reqRow' = reqRow /\ daemon' = daemon
  BY Zenon DEF Respond, Goto, world, telemetry
<1>4. x.pc = "done" /\ 0 \in c.from
  BY <1>2 DEF Handlers, Written
<1> HIDE DEF x, c
<1>5. Told(x, c)
  BY <1>4 DEF Told, Settled, Ending
<1>6. Closed(x, c, reqRow[r])
  BY <1>1, <1>2, <1>4 DEF Closed, Settled
<1>7. h'[r] = x /\ client'[r] = c
      /\ \A o \in Requests \ {r} : h'[o] = h[o] /\ client'[o] = client[o]
  BY <1>3 DEF RInv, IInv, TypeOK
<1> QED
  BY <1>2, <1>3, <1>5, <1>6, <1>7 DEF Advance, Record

-----------------------------------------------------------------------------
(* Arrival, and the daemon's life cycle *)

LEMMA ReceiveAdvances ==
    ASSUME RInv, NEW r \in Requests, Receive(r)
    PROVE  Advance(r)
<1>1. /\ daemon = "up" /\ daemon' = daemon /\ client' = client
      /\ h[r].pc = "idle" /\ h[r] \in Handlers /\ client[r] \in Clients
      /\ Told(h[r], client[r]) /\ Closed(h[r], client[r], reqRow[r])
  BY DEF Receive, world, RInv, IInv, TypeOK, Records, Record
<1>2. PICK p \in Plans, ok \in BOOLEAN :
         /\ h' = [h EXCEPT ![r] = [@ EXCEPT !.pc = "announce", !.plan = p]]
         /\ reqRow' = IF ok THEN [reqRow EXCEPT ![r] =
                  [status |-> "in_progress", http |-> None, cat |-> "", boot |-> 0]]
                      ELSE reqRow
  BY DEF Receive
<1> DEFINE x == [h[r] EXCEPT !.pc = "announce", !.plan = p]
           q == [status |-> "in_progress", http |-> None, cat |-> "", boot |-> 0]
<1>3. h'[r] = x /\ \A o \in Requests \ {r} : h'[o] = h[o]
  BY <1>2 DEF RInv, IInv, TypeOK
<1>4. reqRow'[r] \in {q, reqRow[r]} /\ \A o \in Requests \ {r} : reqRow'[o] = reqRow[o]
  BY <1>2 DEF RInv, IInv, TypeOK
<1>5. x.pc = "announce" /\ q.status = "in_progress"
  BY <1>1 DEF Handlers
<1> HIDE DEF x, q
<1>6. Told(x, client[r])
  BY <1>1, <1>5 DEF Told, Settled, Ending
<1>7. Closed(x, client[r], q) /\ Closed(x, client[r], reqRow[r])
  BY <1>1, <1>5 DEF Closed, Final
<1> QED
  BY <1>1, <1>3, <1>4, <1>6, <1>7 DEF Advance, Record

LEMMA WorldKeeps ==
    ASSUME RInv, \/ \E r \in Requests : HangUp(r)
                 \/ \E k \in Keys : DeleteKey(k)
                 \/ ReapAttempts
                 \/ UNCHANGED vars
    PROVE  Records'
<1>1. h' = h /\ client' = client /\ reqRow' = reqRow /\ crashes' = crashes
      /\ daemon' \in {daemon, "up"}
  BY DEF HangUp, DeleteKey, ReapAttempts, telemetry, vars
<1> QED
  BY <1>1 DEF RInv, Records, Down

LEMMA CrashKeeps ==
    ASSUME RInv, Crash
    PROVE  Records'
<1>1. crashes' = crashes + 1 /\ crashes \in Nat /\ client' = client /\ reqRow' = reqRow
  BY GatewayAssumption DEF Crash, RInv, IInv, TypeOK, telemetry
<1>2. ASSUME NEW r \in Requests
      PROVE  h'[r].pc \notin Running /\ Record(h'[r], client'[r], reqRow'[r])
  <2>1. /\ h[r] \in Handlers /\ Record(h[r], client[r], reqRow[r])
    BY DEF RInv, IInv, TypeOK, Records
  <2>2. h'[r] = IF h[r].pc \in Running THEN [h[r] EXCEPT !.pc = "dead"] ELSE h[r]
    BY DEF Crash
  <2>3. CASE h[r].pc \in Running
    <3>1. h'[r].pc = "dead" /\ h'[r].pc \in Settled
      BY <2>1, <2>2, <2>3 DEF Handlers, Settled
    <3>2. Told(h'[r], client[r])
      BY <3>1 DEF Told, Settled, Ending
    <3>3. Closed(h'[r], client[r], reqRow[r])
      BY <2>1, <3>1 DEF Record, Closed
    <3>4. h'[r].pc \notin Running
      BY <3>1 DEF Running
    <3> QED
      BY <1>1, <3>2, <3>3, <3>4 DEF Record
  <2>4. CASE h[r].pc \notin Running
    BY <1>1, <2>1, <2>2, <2>4
  <2> QED
    BY <2>3, <2>4
<1>3. Down'
  BY <1>1, <1>2 DEF Down
<1> QED
  BY <1>2, <1>3 DEF Records

\* ReapStale closes rows of handlers that no longer exist, and marks them.
LEMMA ReapKeeps ==
    ASSUME RInv, ReapRequests
    PROVE  Records'
<1>1. /\ h' = h /\ client' = client /\ crashes' = crashes /\ crashes # 0
      /\ \A r \in Requests : h[r].pc \notin Running
  BY DEF ReapRequests, RInv, Records, Down
<1>2. ASSUME NEW r \in Requests
      PROVE  Record(h[r], client[r], reqRow'[r])
  <2>1. /\ Told(h[r], client[r]) /\ Closed(h[r], client[r], reqRow[r])
        /\ h[r] \in Handlers /\ reqRow[r] \in RequestRows \cup {None}
    BY DEF RInv, IInv, TypeOK, Records, Record
  <2> DEFINE q == [reqRow[r] EXCEPT !.status = "error", !.cat = "internal_error",
                                    !.boot = crashes]
  <2>2. reqRow'[r] = reqRow[r] \/ (reqRow[r] # None /\ reqRow'[r] = q)
    <3>1. PICK ok \in BOOLEAN :
             reqRow' = [o \in Requests |->
                        IF ok /\ reqRow[o] # None /\ reqRow[o].status = "in_progress"
                        THEN [reqRow[o] EXCEPT !.status = "error", !.cat = "internal_error",
                                               !.boot = crashes]
                        ELSE reqRow[o]]
      BY DEF ReapRequests
    <3> QED
      BY <3>1
  <2>3. CASE reqRow'[r] = reqRow[r]
    BY <2>1, <2>3 DEF Record
  <2>4. CASE reqRow[r] # None /\ reqRow'[r] = q
    <3>1. q.status = "error" /\ q.cat = "internal_error" /\ q.boot # 0
      BY <1>1, <2>1, <2>4 DEF RequestRows
    <3>2. h[r].pc \in Settled
      BY <1>1, <2>1, <2>4 DEF Closed, Handlers
    <3> HIDE DEF q
    <3>3. TotalsClass(q) = FilterClass(q)
      BY <3>1 DEF TotalsClass, FilterClass
    <3>4. Closed(h[r], client[r], q)
      BY <3>1, <3>2, <3>3 DEF Closed, Settled
    <3> QED
      BY <2>1, <2>4, <3>4 DEF Record
  <2> QED
    BY <2>2, <2>3, <2>4
<1>3. Down'
  BY <1>1 DEF Down
<1> QED
  BY <1>1, <1>2, <1>3 DEF Records

-----------------------------------------------------------------------------
(* The invariant, and what it shows *)

LEMMA InitRecords == Init => RInv
<1> SUFFICES ASSUME Init PROVE RInv
  OBVIOUS
<1>1. IInv
  BY InitInvariant
<1>2. Down
  BY DEF Init, Down
<1>3. ASSUME NEW r \in Requests
      PROVE  Record(h[r], client[r], reqRow[r])
  <2>1. h[r].pc = "idle" /\ client[r].from = {} /\ client[r].whole = FALSE /\ reqRow[r] = None
    BY <1>1 DEF Init, Idle
  <2>2. Told(h[r], client[r])
    BY <2>1 DEF Told, Settled, Ending
  <2>3. Closed(h[r], client[r], reqRow[r])
    BY <2>1 DEF Closed, Final
  <2> QED
    BY <2>2, <2>3 DEF Record
<1> QED
  BY <1>1, <1>2, <1>3 DEF RInv, Records

LEMMA HandlersAdvance ==
    ASSUME RInv, NEW r \in Requests,
           Receive(r) \/ Handle(r) \/ Upstream(r) \/ Canceled(r)
    PROVE  Advance(r)
BY BeforeTheCall, SentAdvances, UpstreamFails, UpstreamAnswers, RelayAdvances, CloseAdvances,
   FinishAdvances, PublishAdvances, RespondAdvances, ReceiveAdvances
   DEF Handle, Upstream

LEMMA NextRecords == RInv /\ [Next]_vars => RInv'
<1> SUFFICES ASSUME RInv, [Next]_vars PROVE RInv'
  OBVIOUS
<1>1. IInv'
  BY NextInvariant DEF RInv
<1>2. ASSUME NEW r \in Requests, Receive(r) \/ Handle(r) \/ Upstream(r) \/ Canceled(r)
      PROVE  Records'
  BY <1>2, HandlersAdvance, AdvanceKeeps
<1>3. ASSUME \/ \E r \in Requests : HangUp(r)
             \/ \E k \in Keys : DeleteKey(k)
             \/ ReapAttempts
             \/ UNCHANGED vars
      PROVE  Records'
  BY <1>3, WorldKeeps
<1>4. ASSUME Crash PROVE Records'
  BY <1>4, CrashKeeps
<1>5. ASSUME ReapRequests PROVE Records'
  BY <1>5, ReapKeeps
<1>6. Records'
  BY <1>2, <1>3, <1>4, <1>5 DEF Next
<1> QED
  BY <1>1, <1>6 DEF RInv

\* The inductive invariant: a handler knows what its client got, and a row in
\* its final state tells it; a daemon that is down runs no handler.
THEOREM RecordInvariant == Spec => []RInv
BY InitRecords, NextRecords, PTL DEF Spec

\* A request that ends by itself is recorded as a success exactly when its
\* client got an upstream's answer whole (finishRequest).
THEOREM RecordsTellTheDelivery == Spec => []RecordMatchesDelivery
<1>1. RInv => RecordMatchesDelivery
  <2> SUFFICES ASSUME RInv, NEW r \in Requests,
                      h[r].pc = "done", Final(reqRow[r]), reqRow[r].boot = 0
               PROVE  reqRow[r].status = "success" <=> client[r].whole /\ 0 \notin client[r].from
    BY DEF RecordMatchesDelivery, Final
  <2> QED
    BY DEF RInv, Records, Record, Closed
<1> QED
  BY <1>1, RecordInvariant, PTL

\* The counters and the outcome filter of the monitoring page class every final
\* row the same way (Totals.observe, scopeClauses).
THEOREM BothSidesClassAlike == Spec => []DashboardAgrees
<1>1. RInv => DashboardAgrees
  BY DEF RInv, Records, Record, Closed, Final, DashboardAgrees
<1> QED
  BY <1>1, RecordInvariant, PTL

\* Neither a late handler nor ReapStale rewrites a row in its final state.
THEOREM RecordsAreFinal == Spec => RecordIsFinal
<1> DEFINE Keeps == \A r \in Requests :
                reqRow[r] # None /\ reqRow[r].status # "in_progress" => reqRow'[r] = reqRow[r]
<1>1. RInv /\ [Next]_vars => [Keeps]_vars
  <2> SUFFICES ASSUME RInv, [Next]_vars, NEW o \in Requests, Final(reqRow[o])
               PROVE  reqRow'[o] = reqRow[o]
    BY DEF Final
  <2>1. o \in Requests /\ Closed(h[o], client[o], reqRow[o])
    BY DEF RInv, Records, Record
  <2>2. h[o].pc \notin {"idle", "finishing"}
    BY <2>1 DEF Closed, Settled, Final
  <2>3. ASSUME NEW r \in Requests, Receive(r) \/ FinishRequest(r)
        PROVE  reqRow'[o] = reqRow[o]
    <3>1. r # o
      BY <2>2, <2>3 DEF Receive, FinishRequest
    <3>2. Advance(r)
      BY <2>3, ReceiveAdvances, FinishAdvances
    <3> QED
      BY <3>1, <3>2 DEF Advance
  <2>4. CASE ReapRequests
    BY <2>4 DEF ReapRequests, Final
  <2>5. CASE UNCHANGED reqRow
    BY <2>5
  <2>6. \/ \E r \in Requests : Receive(r) \/ FinishRequest(r)
        \/ ReapRequests \/ UNCHANGED reqRow
    BY DEF Next, Handle, Upstream, vars, telemetry, Announce, EnterTarget, Exhaust,
           BeginAttempt, ReadSecret, CloseAttempt, PublishFinished, Respond, Sent, NoAnswer,
           HeadArrives, ReadBody, BreakReading, RelayEnds, RelayBreaks, Canceled, HangUp,
           DeleteKey, Crash, ReapAttempts
  <2> QED
    BY <2>3, <2>4, <2>5, <2>6
<1> QED
  BY <1>1, RecordInvariant, PTL DEF Spec, RecordIsFinal
=============================================================================
