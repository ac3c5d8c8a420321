--------------------------- MODULE GatewayProofs ---------------------------
(***************************************************************************)
(* Proofs about module Gateway, for any number of requests, credentials and *)
(* plans, and any bound on failed statements and crashes: its type invariant *)
(* and SingleSource. Both follow from one inductive invariant, Delivery,    *)
(* which ties what a client has been sent to where its handler stands.      *)
(***************************************************************************)
EXTENDS Gateway, SequenceTheorems, TLAPS

\* What the client of a running request has been sent is the answer of the
\* current attempt, and only once the handler has committed itself to it.
Delivered(x, c) ==
    IF x.committed THEN c.from = {x.num} /\ c.status = 200
                   ELSE c.from = {} /\ c.status = 0

\* Up to the proxy call, and when the gateway is to answer itself, nothing has
\* been sent; the outcome of an attempt says whether something has.
Position(x) ==
    /\ x.pc \in {"idle", "announce", "target", "begin", "secret", "proxy",
                 "reading", "respond"} => ~x.committed
    /\ x.pc = "relay" => x.committed
    /\ x.pc = "closing" => x.res.kind # "exhausted"
    /\ x.pc \in {"closing", "finishing", "publishing"} =>
          /\ x.res.kind # "none"
          /\ x.res.kind = "success" => x.committed
          /\ x.res.kind \in {"local", "exhausted"} => ~x.committed

\* The handler x and its client c.
Delivery(x, c) ==
    /\ Position(x)
    /\ x.pc \notin Settled => Delivered(x, c)
    /\ \A m, n \in c.from : m = n

IInv == TypeOK /\ \A r \in Requests : Delivery(h[r], client[r])

-----------------------------------------------------------------------------
(* What a handler writes is well typed *)

\* The status reported to a client is an HTTP error status.
LEMMA ClientStatusForType ==
    ASSUME NEW s \in Int, NEW fallback \in {500, 502}
    PROVE  ClientStatusFor(s, fallback) \in ErrorStatuses
BY DEF ClientStatusFor, ErrorStatuses

\* The status and the category FinishAttempt writes for an attempt that ends.
LEMMA AttemptOutcomeType ==
    ASSUME TypeOK, NEW r \in Requests, Delivery(h[r], client[r]), h[r].pc \notin Settled \cup {"idle"}
    PROVE  /\ AttemptStatus(r) \in {None, 200, 0} \cup ErrorStatuses
           /\ h[r].pc \in {"closing", "finishing"} =>
                  AttemptStatus(r) \in {None, 200} \cup ErrorStatuses
           /\ Verdict(r) = "rejected" => AttemptStatus(r) \in ErrorStatuses
           /\ AttemptCategory(r) \in Categories
<1>1. /\ h[r] \in Handlers
      /\ h[r].res \in Results
      /\ client[r] \in Clients
  BY DEF TypeOK, Handlers
<1>2. /\ h[r].res.status \in Int
      /\ h[r].res.cat \in Categories
  <2>1. \A x \in Statuses : x \in Int
    BY GatewayAssumption
  <2> QED
    BY <1>1, <2>1 DEF Results
<1>3. Verdict(r) = "served" \/ (Verdict(r) = "stopped" /\ h[r].committed)
        => /\ client[r].status \in {0, 200} \cup ErrorStatuses
           /\ h[r].pc \in {"closing", "finishing"} => client[r].status = 200
  BY <1>1 DEF Verdict, MustStop, Clients, Delivery, Delivered, Position, Results, Settled
<1>4. Verdict(r) = "refused" => h[r].res.status \in ErrorStatuses
  BY <1>1 DEF Verdict, IsFailoverStatus, ErrorStatuses
<1>5. /\ ClientStatusFor(h[r].res.status, 500) \in ErrorStatuses
      /\ ClientStatusFor(h[r].res.status, 502) \in ErrorStatuses
  BY <1>2, ClientStatusForType
<1>6. Verdict(r) \in {"served", "skipped", "exhausted", "stopped", "refused", "rejected"}
  BY DEF Verdict
<1>7. CASE Verdict(r) = "served"
  BY <1>7, <1>2, <1>3, ZenonT(30) DEF AttemptStatus, AttemptCategory, Categories
<1>8. CASE Verdict(r) = "skipped"
  BY <1>8, <1>2 DEF AttemptStatus, AttemptCategory, Categories
<1>9. CASE Verdict(r) = "refused"
  BY <1>9, <1>2, <1>4 DEF AttemptStatus, AttemptCategory
<1>10. CASE Verdict(r) = "stopped"
  <2>1. CASE h[r].committed
    BY <2>1, <1>10, <1>2, <1>3 DEF AttemptStatus, AttemptCategory
  <2>2. CASE ~h[r].committed
    BY <2>2, <1>10, <1>2, <1>5 DEF AttemptStatus, AttemptCategory
  <2> QED
    BY <2>1, <2>2
<1>11. CASE Verdict(r) \in {"exhausted", "rejected"}
  BY <1>11, <1>2, <1>5 DEF AttemptStatus, AttemptCategory
<1> QED
  BY <1>6, <1>7, <1>8, <1>9, <1>10, <1>11

\* The row FinishRequest writes.
LEMMA RequestResultType ==
    ASSUME TypeOK, NEW r \in Requests, Delivery(h[r], client[r]), h[r].pc = "finishing"
    PROVE  RequestResult(r) \in RequestRows
<1>1. h[r] \in Handlers /\ h[r].res \in Results
  BY DEF TypeOK, Handlers
<1>2. /\ h[r].lastStatus \in ErrorStatuses
      /\ h[r].lastCat \in Categories
      /\ h[r].res.cat \in Categories
      /\ "" \in Categories
  BY <1>1 DEF Handlers, Results, Categories
<1>3. AttemptStatus(r) \in {None, 200} \cup ErrorStatuses
  BY AttemptOutcomeType DEF Settled
<1>4. CASE Verdict(r) = "served"
  <2>1. client[r].status = 200
    BY <1>1, <1>4 DEF Verdict, Results, Delivery, Delivered, Position, Settled
  <2> QED
    BY <1>2, <1>4, <2>1 DEF RequestResult, RequestRows
<1>5. CASE Verdict(r) = "exhausted"
  BY <1>2, <1>5 DEF RequestResult, RequestRows
<1>6. CASE Verdict(r) \notin {"served", "exhausted"}
  BY <1>2, <1>3, <1>6 DEF RequestResult, RequestRows
<1> QED
  BY <1>4, <1>5, <1>6

\* The status of the gateway's own answer.
LEMMA ErrorStatusType ==
    ASSUME TypeOK, NEW r \in Requests, Delivery(h[r], client[r]), h[r].pc = "respond"
    PROVE  ErrorStatus(r) \in ErrorStatuses
<1>1. h[r].lastStatus \in ErrorStatuses
  BY DEF TypeOK, Handlers
<1>2. Verdict(r) = "rejected" => AttemptStatus(r) \in ErrorStatuses
  BY AttemptOutcomeType DEF Settled
<1> QED
  BY <1>1, <1>2 DEF ErrorStatus, ErrorStatuses

\* What the gateway's own answer follows has not been sent anything.
LEMMA UnansweredVerdicts ==
    ASSUME TypeOK, NEW r \in Requests, Delivery(h[r], client[r]),
           h[r].pc \in {"closing", "finishing", "publishing"},
           Verdict(r) \in {"rejected", "exhausted", "refused", "skipped"}
    PROVE  ~h[r].committed
<1>1. h[r].res \in Results
  BY DEF TypeOK, Handlers
<1>2. h[r].res.kind \in {"none", "success", "local", "error", "exhausted"}
  BY <1>1 DEF Results
<1> QED
  BY <1>2 DEF Verdict, MustStop, Delivery, Position

\* A step of one handler has to keep Delivery for its own request only.
LEMMA HandlerStep ==
    ASSUME IInv, NEW r \in Requests, NEW x \in Handlers, NEW c \in Clients,
           h' = [h EXCEPT ![r] = x], client' = [client EXCEPT ![r] = c],
           Delivery(x, c)
    PROVE  /\ h' \in [Requests -> Handlers]
           /\ client' \in [Requests -> Clients]
           /\ \A q \in Requests : Delivery(h'[q], client'[q])
<1>1. h \in [Requests -> Handlers] /\ client \in [Requests -> Clients]
  BY DEF IInv, TypeOK
<1>2. \A q \in Requests : /\ h'[q] = IF q = r THEN x ELSE h[q]
                          /\ client'[q] = IF q = r THEN c ELSE client[q]
  BY <1>1
<1> QED
  BY <1>1, <1>2 DEF IInv

\* The same, for a step that sends the client nothing.
LEMMA QuietStep ==
    ASSUME IInv, NEW r \in Requests, NEW x \in Handlers,
           h' = [h EXCEPT ![r] = x], client' = client, Delivery(x, client[r])
    PROVE  /\ h' \in [Requests -> Handlers]
           /\ client' \in [Requests -> Clients]
           /\ \A q \in Requests : Delivery(h'[q], client'[q])
<1>1. client[r] \in Clients /\ client' = [client EXCEPT ![r] = client[r]]
  BY DEF IInv, TypeOK
<1> QED
  BY <1>1, HandlerStep

\* A statement succeeds, or is one of the failures the bound allows.
LEMMA StmtType ==
    ASSUME TypeOK, NEW ok \in BOOLEAN, Stmt(ok)
    PROVE  failures' \in 0..MaxFailures
BY GatewayAssumption DEF TypeOK, Stmt

\* Replacing an element of a sequence by another of the same set, or nothing.
LEMMA UpdateType ==
    ASSUME NEW S, NEW s \in Seq(S), NEW n, NEW v, n \in 1..Len(s) => v \in S
    PROVE  [s EXCEPT ![n] = v] \in Seq(S)
<1>1. CASE n \in 1..Len(s)
  BY <1>1, ExceptSeq
<1>2. CASE n \notin 1..Len(s)
  <2>1. [s EXCEPT ![n] = v] = s
    BY <1>2, LenProperties
  <2> QED
    BY <2>1
<1> QED
  BY <1>1, <1>2

-----------------------------------------------------------------------------
(* The handler's steps preserve the invariant *)

LEMMA AnnounceStep ==
    ASSUME IInv, NEW r \in Requests, Announce(r)
    PROVE  IInv'
<1> DEFINE x == [h[r] EXCEPT !.pc = "target"]
<1>1. h[r] \in Handlers /\ Delivery(h[r], client[r])
  BY DEF IInv, TypeOK
<1>2. x \in Handlers /\ Delivery(x, client[r])
  BY <1>1 DEF Announce, Handlers, Running, Delivery, Position, Delivered, Settled
<1>3. h' = [h EXCEPT ![r] = x] /\ client' = client
  BY DEF Announce, Goto
<1> HIDE DEF x
<1>4. TypeOK'
  BY <1>2, <1>3, QuietStep DEF IInv, TypeOK, Announce, world, telemetry
<1> QED
  BY <1>2, <1>3, <1>4, QuietStep DEF IInv

LEMMA ExhaustStep ==
    ASSUME IInv, NEW r \in Requests, Exhaust(r)
    PROVE  IInv'
<1> DEFINE x == [h[r] EXCEPT !.pc = "finishing", !.res.kind = "exhausted"]
<1>1. h[r] \in Handlers /\ Delivery(h[r], client[r])
  BY DEF IInv, TypeOK
<1>2. x \in Handlers /\ Delivery(x, client[r])
  BY <1>1, ZenonT(30) DEF Exhaust, Handlers, Results, Running, Delivery, Position, Delivered, Settled
<1>3. h' = [h EXCEPT ![r] = x] /\ client' = client
  BY DEF Exhaust
<1> HIDE DEF x
<1>4. TypeOK'
  BY <1>2, <1>3, QuietStep DEF IInv, TypeOK, Exhaust, world, telemetry
<1> QED
  BY <1>2, <1>3, <1>4, QuietStep DEF IInv

LEMMA EnterTargetStep ==
    ASSUME IInv, NEW r \in Requests, EnterTarget(r)
    PROVE  IInv'
<1>1. h[r] \in Handlers /\ Delivery(h[r], client[r])
  BY DEF IInv, TypeOK
<1>2. h[r].plan \in Plans /\ h[r].ti \in 1..Len(h[r].plan)
  BY <1>1, EmptySeq, PlansAssumption DEF EnterTarget, Handlers
<1>3. Target(r) \in Targets
  BY <1>2, PlansAssumption, ElementOfSeq DEF Target
<1>4. Target(r).rules \in RuleSets
  BY <1>3 DEF Targets
<1>5. CASE Target(r).rules \notin {None, h[r].sig}
  <2> DEFINE x == [h[r] EXCEPT !.pc = "begin", !.sig = Target(r).rules]
  <2>1. x \in Handlers /\ Delivery(x, client[r])
    BY <1>1, <1>4
    DEF EnterTarget, Handlers, Running, Delivery, Position, Delivered, Settled
  <2>2. h' = [h EXCEPT ![r] = x] /\ client' = client
    BY <1>5 DEF EnterTarget
  <2> HIDE DEF x
  <2>3. PICK ok \in BOOLEAN :
           /\ Stmt(ok)
           /\ ruleRow' = IF ok /\ reqRow[r] # None
                         THEN [ruleRow EXCEPT ![r] = Target(r).rules] ELSE ruleRow
    BY <1>5 DEF EnterTarget
  <2>4. ruleRow' \in [Requests -> RuleSets] /\ failures' \in 0..MaxFailures
    BY <1>4, <2>3, StmtType DEF IInv, TypeOK
  <2>5. TypeOK'
    BY <2>1, <2>2, <2>4, QuietStep DEF IInv, TypeOK, EnterTarget, world
  <2> QED
    BY <2>1, <2>2, <2>5, QuietStep DEF IInv
<1>6. CASE Target(r).rules \in {None, h[r].sig}
  <2> DEFINE x == [h[r] EXCEPT !.pc = "begin"]
  <2>1. x \in Handlers /\ Delivery(x, client[r])
    BY <1>1 DEF EnterTarget, Handlers, Running, Delivery, Position, Delivered, Settled
  <2>2. h' = [h EXCEPT ![r] = x] /\ client' = client
    BY <1>6 DEF EnterTarget, Goto
  <2> HIDE DEF x
  <2>3. TypeOK'
    BY <1>6, <2>1, <2>2, QuietStep DEF IInv, TypeOK, EnterTarget, world
  <2> QED
    BY <2>1, <2>2, <2>3, QuietStep DEF IInv
<1> QED
  BY <1>5, <1>6

LEMMA BeginAttemptStep ==
    ASSUME IInv, NEW r \in Requests, BeginAttempt(r)
    PROVE  IInv'
<1> DEFINE x == [h[r] EXCEPT !.pc = "secret", !.num = h[r].num + 1, !.sent = FALSE,
                             !.committed = FALSE, !.res = NoResult]
           row(ok) == IF ok /\ reqRow[r] # None THEN NewAttempt(h[r].ti, h[r].ki) ELSE None
<1>1. h[r] \in Handlers /\ Delivery(h[r], client[r])
  BY DEF IInv, TypeOK
<1>2. x \in Handlers /\ Delivery(x, client[r])
  <2>1. NoResult \in Results
    BY DEF NoResult, Results, Categories
  <2>2. h[r].num + 1 \in Nat /\ "secret" \in Running
    BY <1>1 DEF Handlers, Running
  <2>3. \A y \in Handlers, n \in Nat, res \in Results :
           [y EXCEPT !.pc = "secret", !.num = n, !.sent = FALSE, !.committed = FALSE,
                     !.res = res] \in Handlers
    BY <2>2 DEF Handlers
  <2>4. x \in Handlers
    BY <1>1, <2>1, <2>2, <2>3
  <2>5. x.pc = "secret" /\ x.committed = FALSE
    BY <1>1 DEF Handlers
  <2>6. Delivery(x, client[r])
    BY <1>1, <2>5 DEF BeginAttempt, Delivery, Position, Delivered, Settled
  <2> QED
    BY <2>4, <2>6
<1>3. h' = [h EXCEPT ![r] = x] /\ client' = client
  BY DEF BeginAttempt
<1>4. \A ok \in BOOLEAN : Append(attempts[r], row(ok)) \in Seq(AttemptRows \cup {None})
  <2>1. NewAttempt(h[r].ti, h[r].ki) \in AttemptRows
    BY <1>1 DEF NewAttempt, AttemptRows, Handlers, Categories
  <2>2. attempts[r] \in Seq(AttemptRows \cup {None})
    BY DEF IInv, TypeOK
  <2> QED
    BY <2>1, <2>2, AppendProperties
<1>5. /\ attempts' \in [Requests -> Seq(AttemptRows \cup {None})]
      /\ failures' \in 0..MaxFailures
  <2>1. CASE h[r].num + 1 > 1
    <3>1. PICK ok \in BOOLEAN :
             Stmt(ok) /\ attempts' = [attempts EXCEPT ![r] = Append(attempts[r], row(ok))]
      BY <2>1 DEF BeginAttempt
    <3> HIDE DEF row
    <3> QED
      BY <1>4, <3>1, StmtType DEF IInv, TypeOK
  <2>2. CASE ~(h[r].num + 1 > 1)
    BY <2>2 DEF BeginAttempt, IInv, TypeOK
  <2> QED
    BY <2>1, <2>2
<1> HIDE DEF x
<1>6. TypeOK'
  BY <1>2, <1>3, <1>5, QuietStep DEF IInv, TypeOK, BeginAttempt, world
<1> QED
  BY <1>2, <1>3, <1>6, QuietStep DEF IInv

LEMMA ReadSecretStep ==
    ASSUME IInv, NEW r \in Requests, ReadSecret(r)
    PROVE  IInv'
<1>1. h[r] \in Handlers /\ Delivery(h[r], client[r])
  BY DEF IInv, TypeOK
<1>2. PICK x \in Handlers : Delivery(x, client[r]) /\ h' = [h EXCEPT ![r] = x]
  <2>1. CASE Key(r) \in stored \ SealedKeys /\ r \in present
    <3>1. [h[r] EXCEPT !.pc = "proxy"] \in Handlers
      BY <1>1 DEF Handlers, Running
    <3>2. Delivery([h[r] EXCEPT !.pc = "proxy"], client[r])
      BY <1>1 DEF ReadSecret, Handlers, Delivery, Position, Delivered, Settled
    <3> QED
      BY <2>1, <3>1, <3>2 DEF ReadSecret, Goto
  <2>2. CASE ~(Key(r) \in stored \ SealedKeys /\ r \in present)
    <3> DEFINE cat == IF r \in present THEN "connection_failure" ELSE "canceled"
               y == [h[r] EXCEPT !.pc = "closing", !.lastCat = cat, !.res = Unread(cat)]
    <3>1. Unread(cat) \in Results /\ cat \in Categories /\ Unread(cat).kind = "local"
      BY DEF Unread, Results, Categories
    <3>2. h' = [h EXCEPT ![r] = y]
      BY <2>2 DEF ReadSecret
    <3> HIDE DEF cat
    <3>3. y \in Handlers
      BY <1>1, <3>1 DEF Handlers, Running
    <3>4. Delivery(y, client[r])
      BY <1>1, <3>1 DEF ReadSecret, Handlers, Delivery, Position, Delivered, Settled
    <3> QED
      BY <3>2, <3>3, <3>4
  <2> QED
    BY <2>1, <2>2
<1>3. TypeOK'
  BY <1>2, QuietStep DEF IInv, TypeOK, ReadSecret, world, telemetry
<1> QED
  BY <1>2, <1>3, QuietStep DEF IInv, ReadSecret

-----------------------------------------------------------------------------
(* The upstream's answers preserve the invariant *)

LEMMA ErrorType ==
    ASSUME NEW s \in {0, 200} \cup Statuses, NEW cat \in Categories, NEW gone \in BOOLEAN
    PROVE  Error(s, cat, gone) \in Results /\ Error(s, cat, gone).kind = "error"
BY DEF Error, Results

LEMMA CategoryOfType == \A s : CategoryOf(s) \in Categories
BY DEF CategoryOf, Categories

\* Any error of the proxy call keeps the invariant: it closes the attempt and
\* sends nothing.
LEMMA FailStep ==
    ASSUME IInv, NEW r \in Requests, NEW err \in Results, err.kind = "error",
           h[r].pc \in {"proxy", "reading", "relay"}, Fail(r, err), client' = client
    PROVE  /\ h' \in [Requests -> Handlers]
           /\ client' \in [Requests -> Clients]
           /\ \A q \in Requests : Delivery(h'[q], client'[q])
<1> DEFINE x == [h[r] EXCEPT !.pc = "closing", !.res = err, !.lastCat = err.cat]
<1>1. h[r] \in Handlers /\ Delivery(h[r], client[r])
  BY DEF IInv, TypeOK
<1>2. x \in Handlers
  BY <1>1, ZenonT(30) DEF Handlers, Running, Results
<1>3. Delivery(x, client[r])
  BY <1>1 DEF Handlers, Delivery, Position, Delivered, Settled
<1>4. h' = [h EXCEPT ![r] = x]
  BY DEF Fail
<1> QED
  BY <1>2, <1>3, <1>4, QuietStep

\* The first bytes of an answer, or a whole one, reach a client that has been
\* sent nothing yet.
LEMMA AnswerStep ==
    ASSUME IInv, NEW r \in Requests, NEW x \in Handlers, NEW whole \in BOOLEAN,
           h[r].pc \in {"proxy", "reading"},
           x.num = h[r].num, x.committed, Position(x), x.pc \notin Settled,
           h' = [h EXCEPT ![r] = x],
           client' = [client EXCEPT ![r] = Written(client[r], 200, h[r].num, whole)]
    PROVE  /\ h' \in [Requests -> Handlers]
           /\ client' \in [Requests -> Clients]
           /\ \A q \in Requests : Delivery(h'[q], client'[q])
<1> DEFINE c == Written(client[r], 200, h[r].num, whole)
<1>1. h[r] \in Handlers /\ client[r] \in Clients /\ Delivery(h[r], client[r])
  BY DEF IInv, TypeOK
<1>2. client[r].from = {} /\ client[r].status = 0
  BY <1>1 DEF Delivery, Position, Delivered, Settled
<1>3. c.from = {h[r].num} /\ c.status = 200
  BY <1>2 DEF Written
<1>4. c \in Clients
  BY <1>1, <1>3 DEF Written, Clients, Handlers
<1>5. Delivery(x, c)
  BY <1>3 DEF Delivery, Delivered
<1> QED
  BY <1>4, <1>5, HandlerStep

LEMMA SentStep ==
    ASSUME IInv, NEW r \in Requests, Sent(r)
    PROVE  IInv'
<1> DEFINE x == [h[r] EXCEPT !.sent = TRUE]
<1>1. h[r] \in Handlers /\ Delivery(h[r], client[r])
  BY DEF IInv, TypeOK
<1>2. x \in Handlers /\ Delivery(x, client[r])
  BY <1>1 DEF Sent, Handlers, Delivery, Position, Delivered, Settled
<1>3. h' = [h EXCEPT ![r] = x] /\ client' = client
  BY DEF Sent
<1> HIDE DEF x
<1>4. TypeOK'
  BY <1>2, <1>3, QuietStep DEF IInv, TypeOK, Sent, world, telemetry
<1> QED
  BY <1>2, <1>3, <1>4, QuietStep DEF IInv

LEMMA NoAnswerStep ==
    ASSUME IInv, NEW r \in Requests, NoAnswer(r)
    PROVE  IInv'
<1>1. PICK cat \in Categories : Fail(r, Error(0, cat, FALSE))
  BY DEF NoAnswer, Categories
<1>2. TypeOK'
  BY <1>1, ErrorType, FailStep DEF IInv, TypeOK, NoAnswer, world, telemetry
<1> QED
  BY <1>1, <1>2, ErrorType, FailStep DEF IInv, NoAnswer

LEMMA HeadArrivesStep ==
    ASSUME IInv, NEW r \in Requests, HeadArrives(r)
    PROVE  IInv'
<1> DEFINE Goal == /\ h' \in [Requests -> Handlers]
                   /\ client' \in [Requests -> Clients]
                   /\ \A q \in Requests : Delivery(h'[q], client'[q])
           read(s) == [h[r] EXCEPT !.pc = "reading", !.head = s]
           relay == [h[r] EXCEPT !.pc = "relay", !.committed = TRUE]
<1>1. h[r] \in Handlers /\ Delivery(h[r], client[r]) /\ h[r].pc = "proxy"
  BY DEF IInv, TypeOK, HeadArrives
<1>2. ASSUME NEW s \in Statuses \cup {200}
      PROVE  read(s) \in Handlers /\ Delivery(read(s), client[r])
  <2>1. read(s) \in Handlers
    BY <1>1 DEF Handlers, Running
  <2>2. Delivery(read(s), client[r])
    BY <1>1 DEF Handlers, Delivery, Position, Delivered, Settled
  <2> QED
    BY <2>1, <2>2
<1>3. relay \in Handlers /\ relay.num = h[r].num /\ relay.committed /\ relay.pc = "relay"
  BY <1>1 DEF Handlers, Running
<1>4. Position(relay) /\ relay.pc \notin Settled
  BY <1>3 DEF Position, Settled
<1>5. \/ \E s \in Statuses \cup {200} : h' = [h EXCEPT ![r] = read(s)] /\ client' = client
      \/ /\ h' = [h EXCEPT ![r] = relay]
         /\ client' = [client EXCEPT ![r] = Written(client[r], 200, h[r].num, FALSE)]
  BY DEF HeadArrives
<1> HIDE DEF read, relay
<1>6. Goal
  <2>1. CASE \E s \in Statuses \cup {200} : h' = [h EXCEPT ![r] = read(s)] /\ client' = client
    <3>1. PICK x \in Handlers : /\ Delivery(x, client[r])
                               /\ h' = [h EXCEPT ![r] = x] /\ client' = client
      BY <1>2, <2>1
    <3>2. client[r] \in Clients /\ client' = [client EXCEPT ![r] = client[r]]
      BY <3>1 DEF IInv, TypeOK
    <3> QED
      BY <3>1, <3>2, HandlerStep
  <2>2. CASE /\ h' = [h EXCEPT ![r] = relay]
             /\ client' = [client EXCEPT ![r] = Written(client[r], 200, h[r].num, FALSE)]
    BY <1>1, <1>3, <1>4, <2>2, AnswerStep
  <2> QED
    BY <1>5, <2>1, <2>2
<1>7. TypeOK'
  BY <1>6 DEF IInv, TypeOK, HeadArrives, world, telemetry
<1> QED
  BY <1>6, <1>7 DEF IInv

LEMMA ReadBodyStep ==
    ASSUME IInv, NEW r \in Requests, ReadBody(r)
    PROVE  IInv'
<1> DEFINE Goal == /\ h' \in [Requests -> Handlers]
                   /\ client' \in [Requests -> Clients]
                   /\ \A q \in Requests : Delivery(h'[q], client'[q])
<1>1. /\ h[r] \in Handlers /\ Delivery(h[r], client[r])
      /\ h[r].head \in {0, 200} \cup Statuses
  BY DEF IInv, TypeOK, Handlers
<1>2. ASSUME NEW s \in {0, 200} \cup Statuses, Fail(r, Error(s, CategoryOf(s), FALSE)),
             client' = client
      PROVE  Goal
  <2>1. /\ Error(s, CategoryOf(s), FALSE) \in Results
        /\ Error(s, CategoryOf(s), FALSE).kind = "error"
    BY CategoryOfType, ErrorType
  <2>2. h[r].pc \in {"proxy", "reading", "relay"}
    BY DEF ReadBody
  <2> QED
    BY <1>2, <2>1, <2>2, FailStep, ZenonT(30)
<1>3. ASSUME h' = [h EXCEPT ![r] = [@ EXCEPT !.pc = "closing", !.committed = TRUE,
                                             !.res = Success]],
             client' = [client EXCEPT ![r] = Written(@, 200, h[r].num, TRUE)]
      PROVE  Goal
  <2> DEFINE x == [h[r] EXCEPT !.pc = "closing", !.committed = TRUE, !.res = Success]
  <2>1. Success \in Results /\ Success.kind = "success"
    BY DEF Success, Results, Categories
  <2>2. x \in Handlers
    BY <1>1, <2>1 DEF Handlers, Running
  <2>3. x.num = h[r].num /\ x.committed /\ Position(x) /\ x.pc \notin Settled
    BY <1>1, <2>1 DEF Handlers, Position, Settled
  <2> QED
    BY <1>3, <2>2, <2>3, AnswerStep DEF ReadBody
<1>4. ASSUME h' = [h EXCEPT ![r] = [@ EXCEPT !.pc = "closing", !.committed = TRUE,
                                             !.res = Error(0, "connection_failure", FALSE),
                                             !.lastCat = "connection_failure"]],
             client' = [client EXCEPT ![r] = Written(@, 200, h[r].num, FALSE)]
      PROVE  Goal
  <2> DEFINE err == Error(0, "connection_failure", FALSE)
             x == [h[r] EXCEPT !.pc = "closing", !.committed = TRUE, !.res = err,
                               !.lastCat = "connection_failure"]
  <2>1. err \in Results /\ err.kind = "error" /\ "connection_failure" \in Categories
    BY ErrorType DEF Categories
  <2>2. h' = [h EXCEPT ![r] = x]
    BY <1>4
  <2> HIDE DEF err
  <2>3. \A y \in Handlers, e \in Results, cat \in Categories :
          [y EXCEPT !.pc = "closing", !.committed = TRUE, !.res = e, !.lastCat = cat] \in Handlers
    BY DEF Handlers, Running
  <2>4. x \in Handlers
    BY <1>1, <2>1, <2>3
  <2>5. x.num = h[r].num /\ x.committed /\ Position(x) /\ x.pc \notin Settled
    BY <1>1, <2>1 DEF Handlers, Position, Settled
  <2> QED
    BY <1>4, <2>2, <2>4, <2>5, AnswerStep DEF ReadBody
<1>5. Goal
  BY <1>1, <1>2, <1>3, <1>4, ZenonT(30) DEF ReadBody
<1>6. TypeOK'
  BY <1>5 DEF IInv, TypeOK, ReadBody, world, telemetry
<1> QED
  BY <1>5, <1>6 DEF IInv

LEMMA BreakReadingStep ==
    ASSUME IInv, NEW r \in Requests, BreakReading(r)
    PROVE  IInv'
<1>1. h[r].head \in {0, 200} \cup Statuses
  BY DEF IInv, TypeOK, Handlers
<1>2. PICK err \in Results : err.kind = "error" /\ Fail(r, err)
  <2>1. CASE h[r].head = 200
    BY <2>1, ErrorType, ZenonT(30) DEF BreakReading, Categories
  <2>2. CASE h[r].head # 200
    BY <1>1, <2>2, ErrorType, CategoryOfType DEF BreakReading
  <2> QED
    BY <2>1, <2>2
<1>3. TypeOK'
  BY <1>2, FailStep DEF IInv, TypeOK, BreakReading, world, telemetry
<1> QED
  BY <1>2, <1>3, FailStep DEF IInv, BreakReading

LEMMA RelayEndsStep ==
    ASSUME IInv, NEW r \in Requests, RelayEnds(r)
    PROVE  IInv'
<1> DEFINE x == [h[r] EXCEPT !.pc = "closing", !.res = Success]
           c == [client[r] EXCEPT !.whole = TRUE]
<1>1. h[r] \in Handlers /\ client[r] \in Clients /\ Delivery(h[r], client[r])
  BY DEF IInv, TypeOK
<1>2. h' = [h EXCEPT ![r] = x] /\ client' = [client EXCEPT ![r] = c]
  BY DEF RelayEnds
<1>3. Success \in Results /\ Success.kind = "success"
  BY DEF Success, Results, Categories
<1>4. x \in Handlers /\ c \in Clients
  BY <1>1, <1>3, ZenonT(30) DEF Handlers, Running, Clients
<1>5. /\ x.pc = "closing" /\ x.res = Success
      /\ x.committed = h[r].committed /\ x.num = h[r].num
      /\ c.from = client[r].from /\ c.status = client[r].status
  BY <1>1 DEF Handlers, Clients
<1>6. Delivery(x, c)
  BY <1>1, <1>3, <1>5 DEF RelayEnds, Delivery, Position, Delivered, Settled
<1> HIDE DEF x, c
<1>7. TypeOK'
  BY <1>2, <1>4, <1>6, HandlerStep DEF IInv, TypeOK, RelayEnds, world, telemetry
<1> QED
  BY <1>2, <1>4, <1>6, <1>7, HandlerStep DEF IInv

LEMMA RelayBreaksStep ==
    ASSUME IInv, NEW r \in Requests, RelayBreaks(r)
    PROVE  IInv'
<1>1. PICK err \in Results : err.kind = "error" /\ Fail(r, err)
  BY ErrorType DEF RelayBreaks, Categories
<1>2. TypeOK'
  BY <1>1, FailStep DEF IInv, TypeOK, RelayBreaks, world, telemetry
<1> QED
  BY <1>1, <1>2, FailStep DEF IInv, RelayBreaks

LEMMA CanceledStep ==
    ASSUME IInv, NEW r \in Requests, Canceled(r)
    PROVE  IInv'
<1>1. h[r].head \in {0, 200} \cup Statuses
  BY DEF IInv, TypeOK, Handlers
<1>2. PICK err \in Results : err.kind = "error" /\ Fail(r, err)
  <2>1. CASE h[r].pc = "reading" /\ h[r].head # 200
    BY <1>1, <2>1, ErrorType, CategoryOfType DEF Canceled
  <2>2. CASE ~(h[r].pc = "reading" /\ h[r].head # 200)
    BY <2>2, ErrorType, ZenonT(30) DEF Canceled, Categories
  <2> QED
    BY <2>1, <2>2
<1>3. TypeOK'
  BY <1>2, FailStep DEF IInv, TypeOK, Canceled, world, telemetry
<1> QED
  BY <1>2, <1>3, FailStep DEF IInv, Canceled

-----------------------------------------------------------------------------
(* Closing an attempt, and closing the request, preserve the invariant *)

\* The failing candidate is left for the next one with nothing sent.
LEMMA NextCandidateType ==
    ASSUME IInv, NEW r \in Requests, h[r].pc = "closing",
           Verdict(r) \in {"refused", "skipped"}
    PROVE  NextCandidate(r) \in Handlers /\ Delivery(NextCandidate(r), client[r])
<1>1. /\ h[r] \in Handlers /\ Delivery(h[r], client[r])
      /\ h[r].lastStatus \in ErrorStatuses /\ h[r].ti \in Nat \ {0} /\ h[r].ki \in Nat
      /\ ~h[r].committed
  BY UnansweredVerdicts DEF IInv, TypeOK, Handlers
<1>2. Verdict(r) = "refused" => h[r].res.status \in ErrorStatuses
  BY DEF Verdict, IsFailoverStatus, ErrorStatuses
<1> DEFINE pc == IF LastKey(r) THEN "target" ELSE "begin"
           ki == IF LastKey(r) THEN 1 ELSE h[r].ki + 1
           ti == IF LastKey(r) THEN h[r].ti + 1 ELSE h[r].ti
           st == IF Verdict(r) = "refused" THEN h[r].res.status ELSE h[r].lastStatus
<1>3. /\ pc \in {"target", "begin"} /\ ki \in Nat /\ ti \in Nat \ {0}
      /\ st \in ErrorStatuses
  BY <1>1, <1>2
<1>4. NextCandidate(r) =
        [h[r] EXCEPT !.pc = pc, !.ki = ki, !.ti = ti, !.lastStatus = st]
  BY <1>1 DEF NextCandidate
<1> HIDE DEF pc, ki, ti, st
<1>5. NextCandidate(r) \in Handlers
  BY <1>1, <1>3, <1>4, ZenonT(30) DEF Handlers, Running
<1>6. /\ NextCandidate(r).pc \in {"target", "begin"}
      /\ NextCandidate(r).committed = h[r].committed
      /\ NextCandidate(r).num = h[r].num
  BY <1>1, <1>3, <1>4 DEF Handlers
<1> QED
  BY <1>1, <1>5, <1>6 DEF Delivery, Position, Delivered, Settled

LEMMA CloseAttemptStep ==
    ASSUME IInv, NEW r \in Requests, CloseAttempt(r)
    PROVE  IInv'
<1>1. h[r] \in Handlers /\ Delivery(h[r], client[r]) /\ h[r].pc = "closing"
  BY DEF IInv, TypeOK, CloseAttempt
<1>2. PICK x \in Handlers : Delivery(x, client[r]) /\ h' = [h EXCEPT ![r] = x]
  <2>1. CASE Verdict(r) \in {"refused", "skipped"}
    BY <1>1, <2>1, NextCandidateType DEF CloseAttempt
  <2>2. CASE Verdict(r) \notin {"refused", "skipped"}
    <3> DEFINE y == [h[r] EXCEPT !.pc = "finishing"]
    <3>1. y \in Handlers
      BY <1>1 DEF Handlers, Running
    <3>2. Delivery(y, client[r])
      BY <1>1 DEF Handlers, Delivery, Position, Delivered, Settled
    <3> QED
      BY <2>2, <3>1, <3>2 DEF CloseAttempt, Goto
  <2> QED
    BY <2>1, <2>2
<1> DEFINE n == h[r].num
           row == [attempts[r][n] EXCEPT !.open = FALSE, !.http = AttemptStatus(r),
                                         !.success = (Verdict(r) = "served"),
                                         !.cat = AttemptCategory(r)]
<1>3. attempts[r] \in Seq(AttemptRows \cup {None})
  BY DEF IInv, TypeOK
<1>4. attempts[r][n] # None /\ n \in 1..Len(attempts[r]) => row \in AttemptRows
  <2>1. /\ AttemptStatus(r) \in {None, 200} \cup ErrorStatuses
        /\ AttemptCategory(r) \in Categories
    BY <1>1, AttemptOutcomeType DEF IInv, Settled
  <2>2. (Verdict(r) = "served") \in BOOLEAN
    OBVIOUS
  <2>3. attempts[r][n] # None /\ n \in 1..Len(attempts[r]) => attempts[r][n] \in AttemptRows
    BY <1>3, ElementOfSeq
  <2>4. \A a \in AttemptRows, s \in {None, 200} \cup ErrorStatuses, v \in BOOLEAN,
           cat \in Categories :
             [a EXCEPT !.open = FALSE, !.http = s, !.success = v, !.cat = cat] \in AttemptRows
    BY DEF AttemptRows
  <2> QED
    BY <2>1, <2>2, <2>3, <2>4
<1>5. PICK ok \in BOOLEAN :
         /\ Stmt(ok)
         /\ attempts' = IF ok /\ attempts[r][n] # None
                        THEN [attempts EXCEPT ![r][n] = row] ELSE attempts
  BY DEF CloseAttempt
<1> HIDE DEF row, n
<1>6. attempts' \in [Requests -> Seq(AttemptRows \cup {None})]
  <2>1. CASE ok /\ attempts[r][n] # None
    <3>1. [attempts[r] EXCEPT ![n] = row] \in Seq(AttemptRows \cup {None})
      BY <1>3, <1>4, <2>1, UpdateType
    <3>2. attempts' = [attempts EXCEPT ![r] = [attempts[r] EXCEPT ![n] = row]]
      BY <1>5, <2>1
    <3> QED
      BY <3>1, <3>2 DEF IInv, TypeOK
  <2>2. CASE ~(ok /\ attempts[r][n] # None)
    BY <1>5, <2>2 DEF IInv, TypeOK
  <2> QED
    BY <2>1, <2>2
<1>7. failures' \in 0..MaxFailures
  BY <1>5, StmtType DEF IInv
<1>8. TypeOK'
  BY <1>2, <1>6, <1>7, QuietStep DEF IInv, TypeOK, CloseAttempt, world
<1> QED
  BY <1>2, <1>8, QuietStep DEF IInv, CloseAttempt

LEMMA FinishRequestStep ==
    ASSUME IInv, NEW r \in Requests, FinishRequest(r)
    PROVE  IInv'
<1> DEFINE x == [h[r] EXCEPT !.pc = "publishing"]
<1>1. h[r] \in Handlers /\ Delivery(h[r], client[r])
  BY DEF IInv, TypeOK
<1>2. x \in Handlers /\ Delivery(x, client[r])
  BY <1>1 DEF FinishRequest, Handlers, Running, Delivery, Position, Delivered, Settled
<1>3. h' = [h EXCEPT ![r] = x] /\ client' = client
  BY DEF FinishRequest, Goto
<1> HIDE DEF x
<1>4. PICK ok \in BOOLEAN :
         /\ Stmt(ok)
         /\ reqRow' = IF ok /\ reqRow[r] # None
                      THEN [reqRow EXCEPT ![r] = RequestResult(r)] ELSE reqRow
  BY DEF FinishRequest
<1>5. RequestResult(r) \in RequestRows
  BY <1>1, RequestResultType DEF IInv, FinishRequest
<1>6. reqRow' \in [Requests -> RequestRows \cup {None}] /\ failures' \in 0..MaxFailures
  BY <1>4, <1>5, StmtType DEF IInv, TypeOK
<1>7. TypeOK'
  BY <1>2, <1>3, <1>6, QuietStep DEF IInv, TypeOK, FinishRequest, world
<1> QED
  BY <1>2, <1>3, <1>7, QuietStep DEF IInv

LEMMA PublishFinishedStep ==
    ASSUME IInv, NEW r \in Requests, PublishFinished(r)
    PROVE  IInv'
<1> DEFINE pc == IF Verdict(r) \in {"rejected", "exhausted"} THEN "respond" ELSE "done"
           x == [h[r] EXCEPT !.pc = pc]
<1>1. h[r] \in Handlers /\ Delivery(h[r], client[r]) /\ h[r].pc = "publishing"
  BY DEF IInv, TypeOK, PublishFinished
<1>2. pc = "respond" => ~h[r].committed
  BY <1>1, UnansweredVerdicts DEF IInv
<1>3. pc \in {"respond", "done"}
  OBVIOUS
<1>4. h' = [h EXCEPT ![r] = x] /\ client' = client
  BY DEF PublishFinished, Goto
<1> HIDE DEF pc
<1>5. x \in Handlers
  BY <1>1, <1>3 DEF Handlers, Running, Settled
<1>6. Delivery(x, client[r])
  BY <1>1, <1>2, <1>3 DEF Handlers, Delivery, Position, Delivered, Settled
<1> HIDE DEF x
<1>7. active' \in SUBSET Requests /\ failures' \in 0..MaxFailures
  BY StmtType DEF IInv, TypeOK, PublishFinished
<1>8. TypeOK'
  BY <1>4, <1>5, <1>6, <1>7, QuietStep DEF IInv, TypeOK, PublishFinished, world
<1> QED
  BY <1>4, <1>5, <1>6, <1>8, QuietStep DEF IInv

LEMMA RespondStep ==
    ASSUME IInv, NEW r \in Requests, Respond(r)
    PROVE  IInv'
<1> DEFINE x == [h[r] EXCEPT !.pc = "done"]
           c == Written(client[r], ErrorStatus(r), 0, TRUE)
<1>1. /\ h[r] \in Handlers /\ client[r] \in Clients
      /\ Delivery(h[r], client[r]) /\ h[r].pc = "respond"
  BY DEF IInv, TypeOK, Respond
<1>2. h' = [h EXCEPT ![r] = x] /\ client' = [client EXCEPT ![r] = c]
  BY Zenon DEF Respond, Goto
<1>3. client[r].from = {}
  BY <1>1 DEF Delivery, Position, Delivered, Settled
<1>4. c.from = {0}
  BY <1>3 DEF Written
<1>5. ErrorStatus(r) \in ErrorStatuses
  BY <1>1, ErrorStatusType DEF IInv
<1>6. c \in Clients
  BY <1>1, <1>4, <1>5 DEF Written, Clients
<1>7. x \in Handlers /\ x.pc = "done"
  BY <1>1 DEF Handlers, Settled
<1>8. Delivery(x, c)
  BY <1>4, <1>7 DEF Delivery, Position, Settled
<1> HIDE DEF x, c
<1>9. TypeOK'
  BY <1>2, <1>6, <1>7, <1>8, HandlerStep DEF IInv, TypeOK, Respond, world, telemetry
<1> QED
  BY <1>2, <1>6, <1>7, <1>8, <1>9, HandlerStep DEF IInv

-----------------------------------------------------------------------------
(* Arrival, the environment and the daemon's life cycle *)

LEMMA ReceiveStep ==
    ASSUME IInv, NEW r \in Requests, Receive(r)
    PROVE  IInv'
<1>1. h[r] \in Handlers /\ Delivery(h[r], client[r])
  BY DEF IInv, TypeOK
<1>2. PICK p \in Plans, ok \in BOOLEAN :
         /\ Stmt(ok)
         /\ h' = [h EXCEPT ![r] = [@ EXCEPT !.pc = "announce", !.plan = p]]
         /\ reqRow' = IF ok THEN [reqRow EXCEPT ![r] =
                  [status |-> "in_progress", http |-> None, cat |-> "", boot |-> 0]]
                      ELSE reqRow
         /\ attempts' = [attempts EXCEPT ![r] = <<IF ok THEN NewAttempt(1, 1) ELSE None>>]
  BY DEF Receive
<1> DEFINE x == [h[r] EXCEPT !.pc = "announce", !.plan = p]
           row == IF ok THEN NewAttempt(1, 1) ELSE None
<1>3. x \in Handlers /\ Delivery(x, client[r])
  BY <1>1 DEF Receive, Handlers, Running, Delivery, Position, Delivered, Settled
<1>4. h' = [h EXCEPT ![r] = x] /\ client' = client
  BY <1>2 DEF Receive
<1> HIDE DEF x
<1>5. reqRow' \in [Requests -> RequestRows \cup {None}]
  <2>1. [status |-> "in_progress", http |-> None, cat |-> "", boot |-> 0] \in RequestRows
    BY DEF RequestRows, Categories
  <2> QED
    BY <1>2, <2>1 DEF IInv, TypeOK
<1>6. attempts' \in [Requests -> Seq(AttemptRows \cup {None})]
  <2>1. row \in AttemptRows \cup {None}
    BY DEF NewAttempt, AttemptRows, Categories
  <2> HIDE DEF row
  <2>2. <<row>> \in Seq(AttemptRows \cup {None})
    BY <2>1
  <2>3. attempts' = [attempts EXCEPT ![r] = <<row>>]
    BY <1>2 DEF row
  <2> QED
    BY <2>2, <2>3 DEF IInv, TypeOK
<1>7. failures' \in 0..MaxFailures
  BY <1>2, StmtType DEF IInv
<1>8. TypeOK'
  BY <1>3, <1>4, <1>5, <1>6, <1>7, QuietStep DEF IInv, TypeOK, Receive, world
<1> QED
  BY <1>3, <1>4, <1>8, QuietStep DEF IInv

LEMMA EnvironmentStep ==
    ASSUME IInv, (\E r \in Requests : HangUp(r)) \/ (\E k \in Keys : DeleteKey(k))
    PROVE  IInv'
<1>1. TypeOK'
  BY DEF IInv, TypeOK, HangUp, DeleteKey, telemetry
<1>2. h' = h /\ client' = client
  BY DEF HangUp, DeleteKey
<1> QED
  BY <1>1, <1>2 DEF IInv

LEMMA CrashStep ==
    ASSUME IInv, Crash
    PROVE  IInv'
<1>1. \A r \in Requests : /\ h[r] \in Handlers /\ Delivery(h[r], client[r])
                          /\ [h[r] EXCEPT !.pc = "dead"] \in Handlers
                          /\ [h[r] EXCEPT !.pc = "dead"].pc = "dead"
  <2> SUFFICES ASSUME NEW r \in Requests
               PROVE  /\ h[r] \in Handlers /\ Delivery(h[r], client[r])
                      /\ [h[r] EXCEPT !.pc = "dead"] \in Handlers
                      /\ [h[r] EXCEPT !.pc = "dead"].pc = "dead"
    OBVIOUS
  <2>1. h[r] \in Handlers /\ Delivery(h[r], client[r])
    BY DEF IInv, TypeOK
  <2> QED
    BY <2>1 DEF Handlers, Settled
<1>2. h' = [r \in Requests |-> IF h[r].pc \in Running
                               THEN [h[r] EXCEPT !.pc = "dead"] ELSE h[r]]
  BY DEF Crash
<1>3. h' \in [Requests -> Handlers]
  BY <1>1, <1>2
<1>4. ASSUME NEW r \in Requests
      PROVE  Delivery(h'[r], client'[r])
  <2>1. client' = client
    BY DEF Crash
  <2>2. CASE h'[r] = h[r]
    BY <1>1, <2>1, <2>2
  <2>3. CASE h'[r].pc = "dead"
    BY <1>1, <2>1, <2>3 DEF Delivery, Position, Settled
  <2> QED
    BY <1>1, <1>2, <2>2, <2>3
<1>5. crashes' \in 0..MaxCrashes
  BY GatewayAssumption DEF IInv, TypeOK, Crash
<1>6. TypeOK'
  BY <1>3, <1>5 DEF IInv, TypeOK, Crash, telemetry
<1> QED
  BY <1>4, <1>6 DEF IInv

LEMMA ReapRequestsStep ==
    ASSUME IInv, ReapRequests
    PROVE  IInv'
<1>1. PICK ok \in BOOLEAN :
         /\ Stmt(ok)
         /\ daemon' = IF ok THEN "reaping" ELSE "up"
         /\ reqRow' = [r \in Requests |->
                        IF ok /\ reqRow[r] # None /\ reqRow[r].status = "in_progress"
                        THEN [reqRow[r] EXCEPT !.status = "error", !.cat = "internal_error",
                                               !.boot = crashes]
                        ELSE reqRow[r]]
  BY DEF ReapRequests
<1>2. \A q \in RequestRows, n \in Nat :
         [q EXCEPT !.status = "error", !.cat = "internal_error", !.boot = n] \in RequestRows
  BY DEF RequestRows, Categories
<1>3. crashes \in Nat
  BY GatewayAssumption DEF IInv, TypeOK
<1>4. reqRow' \in [Requests -> RequestRows \cup {None}]
  BY <1>1, <1>2, <1>3 DEF IInv, TypeOK
<1>5. failures' \in 0..MaxFailures
  BY <1>1, StmtType DEF IInv
<1>6. TypeOK'
  BY <1>1, <1>4, <1>5 DEF IInv, TypeOK, ReapRequests
<1> QED
  BY <1>6 DEF IInv, ReapRequests

LEMMA ReapAttemptsStep ==
    ASSUME IInv, ReapAttempts
    PROVE  IInv'
<1>1. PICK ok \in BOOLEAN :
         /\ Stmt(ok)
         /\ attempts' = [r \in Requests |-> [n \in 1..Len(attempts[r]) |->
                          LET a == attempts[r][n] IN
                          IF ok /\ ReapedNow(r) /\ a # None /\ a.open
                          THEN [a EXCEPT !.open = FALSE, !.success = FALSE,
                                         !.cat = "internal_error"]
                          ELSE a]]
  BY DEF ReapAttempts
<1>2. \A a \in AttemptRows :
         [a EXCEPT !.open = FALSE, !.success = FALSE, !.cat = "internal_error"] \in AttemptRows
  BY DEF AttemptRows, Categories
<1>3. ASSUME NEW r \in Requests
      PROVE  attempts'[r] \in Seq(AttemptRows \cup {None})
  <2>1. attempts[r] \in Seq(AttemptRows \cup {None})
    BY DEF IInv, TypeOK
  <2>2. Len(attempts[r]) \in Nat
    BY <2>1
  <2>3. \A n \in 1..Len(attempts[r]) : attempts[r][n] \in AttemptRows \cup {None}
    BY <2>1
  <2>4. attempts'[r] \in [1..Len(attempts[r]) -> AttemptRows \cup {None}]
    BY <1>1, <1>2, <2>3
  <2> QED
    BY <2>2, <2>4, SeqDef
<1>4. attempts' \in [Requests -> Seq(AttemptRows \cup {None})]
  BY <1>1, <1>3
<1>5. failures' \in 0..MaxFailures
  BY <1>1, StmtType DEF IInv
<1>6. TypeOK'
  BY <1>4, <1>5 DEF IInv, TypeOK, ReapAttempts
<1> QED
  BY <1>6 DEF IInv, ReapAttempts

-----------------------------------------------------------------------------
(* Theorems *)

LEMMA InitInvariant == Init => IInv
<1> SUFFICES ASSUME Init PROVE IInv
  OBVIOUS
<1>1. /\ Idle \in Handlers
      /\ Idle.pc = "idle" /\ Idle.committed = FALSE
  <2>1. NoResult \in Results
    BY DEF NoResult, Results, Categories
  <2> QED
    BY <2>1 DEF Idle, Handlers, RuleSets, ErrorStatuses, Categories
<1> DEFINE c == [status |-> 0, from |-> {}, whole |-> FALSE]
<1>2. c \in Clients
  BY DEF Clients
<1>3. TypeOK
  BY <1>1, <1>2, GatewayAssumption, EmptySeq DEF Init, TypeOK, RuleSets
<1>4. Delivery(Idle, c)
  BY <1>1 DEF Delivery, Position, Delivered
<1> QED
  BY <1>3, <1>4 DEF Init, IInv

LEMMA NextInvariant == IInv /\ [Next]_vars => IInv'
<1> SUFFICES ASSUME IInv, [Next]_vars PROVE IInv'
  OBVIOUS
<1>1. CASE UNCHANGED vars
  BY <1>1 DEF vars, IInv, TypeOK
<1>2. ASSUME NEW r \in Requests, Receive(r) PROVE IInv'
  BY <1>2, ReceiveStep
<1>3. ASSUME NEW r \in Requests, Handle(r) PROVE IInv'
  BY <1>3, AnnounceStep, EnterTargetStep, ExhaustStep, BeginAttemptStep, ReadSecretStep,
     CloseAttemptStep, FinishRequestStep, PublishFinishedStep, RespondStep DEF Handle
<1>4. ASSUME NEW r \in Requests, Upstream(r) PROVE IInv'
  BY <1>4, SentStep, NoAnswerStep, HeadArrivesStep, ReadBodyStep, BreakReadingStep,
     RelayEndsStep, RelayBreaksStep DEF Upstream
<1>5. ASSUME NEW r \in Requests, Canceled(r) PROVE IInv'
  BY <1>5, CanceledStep
<1>6. CASE (\E r \in Requests : HangUp(r)) \/ (\E k \in Keys : DeleteKey(k))
  BY <1>6, EnvironmentStep
<1>7. CASE Crash
  BY <1>7, CrashStep
<1>8. CASE ReapRequests
  BY <1>8, ReapRequestsStep
<1>9. CASE ReapAttempts
  BY <1>9, ReapAttemptsStep
<1> QED
  BY <1>1, <1>2, <1>3, <1>4, <1>5, <1>6, <1>7, <1>8, <1>9 DEF Next

\* The inductive invariant holds in every reachable state.
THEOREM DeliveryInvariant == Spec => []IInv
BY InitInvariant, NextInvariant, PTL DEF Spec

\* Type correctness: in particular every status recorded for an error, or sent
\* by the gateway itself, is an HTTP error status (clientStatusForUpstream).
THEOREM TypeCorrect == Spec => []TypeOK
<1>1. IInv => TypeOK
  BY DEF IInv
<1> QED
  BY <1>1, DeliveryInvariant, PTL

\* No client ever receives bytes of two sources, however its request fails over,
\* hangs up, or loses its credentials on the way (tracked.committed).
THEOREM AnswersAreNotSpliced == Spec => []SingleSource
<1>1. IInv => SingleSource
  BY DEF IInv, Delivery, SingleSource
<1> QED
  BY <1>1, DeliveryInvariant, PTL
=============================================================================
