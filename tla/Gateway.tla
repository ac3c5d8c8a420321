------------------------------ MODULE Gateway ------------------------------
(***************************************************************************)
(* The request path of the daemon: the gateway handler of httpapi drives one AI *)
(* request over the targets and credentials that routing resolved, fails    *)
(* over between them, relays the upstream answer to the client, and keeps   *)
(* the telemetry rows and the monitor's list of active requests.            *)
(*                                                                         *)
(* Every request is a process whose steps are the statements between two    *)
(* points where other activity can interleave: database statements (the     *)
(* store has one connection, so each statement or transaction is atomic),   *)
(* network events, and hub calls. Clients hang up, administrators delete    *)
(* credentials, telemetry writes fail, and the daemon crashes and reaps.    *)
(***************************************************************************)
EXTENDS Integers, Sequences

CONSTANTS
    Requests,     \* the AI requests that clients send
    Keys,         \* provider credentials (rows of provider_keys)
    SealedKeys,   \* credentials the master key cannot decrypt
    Rules,        \* the sets of prompt rules that fire together
    Plans,        \* the target lists that routing can hand to the gateway
    Statuses,     \* the HTTP statuses upstreams answer with, 2xx excepted
    None,         \* SQL NULL, or a value not there yet
    MaxFailures,  \* bound: telemetry statements that fail
    MaxCrashes    \* bound: crashes of the daemon

\* A target is what routing resolved for one model: the ordered credentials of
\* its provider and the prompt rules that fire for it (None when none does).
RuleSets == Rules \cup {None}
Targets == [keys : {q \in Seq(Keys) : q # <<>>}, rules : RuleSets]

ASSUME GatewayAssumption ==
    /\ SealedKeys \subseteq Keys
    /\ Statuses \subseteq 300..599
    /\ MaxFailures \in Nat
    /\ MaxCrashes \in Nat
    /\ None \notin Nat

\* Routing hands over at least one target, each with at least one credential.
ASSUME PlansAssumption == \A p \in Plans : p \in Seq(Targets) /\ p # <<>>

VARIABLES
    stored,     \* credentials still in provider_keys
    present,    \* requests whose client is still connected
    h,          \* the handler goroutine of each request: its locals
    client,     \* what each client has been sent
    reqRow,     \* telemetry_requests
    attempts,   \* telemetry_attempts, by request and attempt number
    ruleRow,    \* telemetry_prompt_rules, by request
    active,     \* monitorHub.active
    daemon,     \* "up", "down" or "reaping" (between ReapStale's statements)
    crashes,    \* crashes so far
    failures    \* telemetry statements that failed so far

vars == <<stored, present, h, client, reqRow, attempts, ruleRow, active,
          daemon, crashes, failures>>
telemetry == <<reqRow, attempts, ruleRow, failures>>
world == <<stored, present, daemon, crashes>>

-----------------------------------------------------------------------------
(* Error classification *)

Categories == {"", "auth_failure", "rate_limit", "upstream_error",
               "upstream_failure", "connection_failure", "canceled",
               "internal_error"}

IsFailoverStatus(s) == s \in {401, 402, 403, 429}

\* The category of an UpstreamError by its status; 0 is "no answer at all".
CategoryOf(s) ==
    CASE s \in {401, 403} -> "auth_failure"
      [] s = 429          -> "rate_limit"
      [] s \in 500..599   -> "upstream_failure"
      [] s \in (400..499) \ {401, 403, 429} -> "upstream_error"
      [] OTHER            -> "connection_failure"

\* Mutation: the upstream's status is passed on as it is.
ClientStatusForRaw(s, fallback) == s

\* The status reported to the client for an upstream error.
ClientStatusFor(s, fallback) ==
    IF s \in 400..599 THEN s ELSE IF fallback = 500 THEN 502 ELSE fallback

-----------------------------------------------------------------------------
(* Handlers *)

Results == [kind : {"none", "success", "local", "error", "exhausted"},
            status : {0, 200} \cup Statuses, cat : Categories, gone : BOOLEAN]
NoResult == [kind |-> "none", status |-> 0, cat |-> "", gone |-> FALSE]
Success  == [kind |-> "success", status |-> 200, cat |-> "", gone |-> FALSE]
Error(s, cat, gone) ==
    [kind |-> "error", status |-> s, cat |-> cat, gone |-> gone]

Unread(cat) == [kind |-> "local", status |-> 0, cat |-> cat, gone |-> FALSE]

Idle == [pc |-> "idle", plan |-> <<>>, ti |-> 1, ki |-> 1, num |-> 0,
         sig |-> None, sent |-> FALSE, committed |-> FALSE, head |-> 0, res |-> NoResult,
         lastStatus |-> 502, lastCat |-> ""]

Running == {"announce", "target", "begin", "secret", "proxy", "reading",
            "relay", "closing", "finishing", "publishing", "respond"}
Settled == {"done", "dead"}

Target(r) == h[r].plan[h[r].ti]
Key(r)    == Target(r).keys[h[r].ki]
\* Mutation: the index is compared as if it were still zero-based.
LastKeyOffByOne(r) == h[r].ki + 1 >= Len(Target(r).keys)
LastKey(r) == h[r].ki = Len(Target(r).keys)

\* Mutation: only a client that hung up stops the loop.
MustStopUncommitted(r) == h[r].res.gone

\* The loop stops at this error: bytes are out, or the client has hung up.
MustStop(r) == h[r].committed \/ h[r].res.gone

\* Mutation: an error without a status is retried before committed is looked at.
VerdictRetriesBreaks(r) ==
    LET res == h[r].res IN
    CASE res.kind = "success"   -> "served"
      [] res.kind = "local"     -> "skipped"
      [] res.kind = "exhausted" -> "exhausted"
      [] res.kind = "error" /\ (res.status = 0 \/ IsFailoverStatus(res.status)) -> "refused"
      [] OTHER -> "rejected"

Verdict(r) ==
    LET res == h[r].res IN
    CASE res.kind = "success"   -> "served"
      [] res.kind = "local"     -> "skipped"
      [] res.kind = "exhausted" -> "exhausted"
      [] res.kind = "error" /\ MustStop(r) -> "stopped"
      [] res.kind = "error" /\ ~MustStop(r) /\ IsFailoverStatus(res.status) -> "refused"
      [] OTHER -> "rejected"

\* http_status written to the attempt row.
AttemptStatus(r) ==
    LET res == h[r].res IN
    CASE Verdict(r) = "skipped"  -> None
      [] Verdict(r) = "served"   -> client[r].status
      [] Verdict(r) = "refused"  -> res.status
      [] Verdict(r) = "stopped" /\ h[r].committed -> client[r].status
      [] Verdict(r) = "stopped" /\ ~h[r].committed -> ClientStatusFor(res.status, 500)
      [] OTHER -> ClientStatusFor(res.status, 502)

AttemptCategory(r) ==
    CASE Verdict(r) = "skipped" -> "internal_error"
      [] Verdict(r) = "served"  -> ""
      [] OTHER -> h[r].res.cat

\* Mutation: a committed answer counts as served, whole or not.
RequestResultCommitted(r) ==
    [status |-> IF Verdict(r) \in {"served", "stopped"} THEN "success" ELSE "error",
     http |-> IF Verdict(r) = "exhausted" THEN h[r].lastStatus ELSE AttemptStatus(r),
     cat |-> h[r].res.cat, boot |-> 0]

\* Mutation: the category of a stopped request is left empty.
RequestResultNoCategory(r) ==
    [status |-> IF Verdict(r) = "served" THEN "success" ELSE "error",
     http |-> IF Verdict(r) = "exhausted" THEN h[r].lastStatus ELSE AttemptStatus(r),
     cat |-> IF Verdict(r) = "exhausted" THEN h[r].lastCat
             ELSE IF Verdict(r) = "stopped" THEN "" ELSE h[r].res.cat, boot |-> 0]

\* The final state of the request row.
RequestResult(r) ==
    CASE Verdict(r) = "served" ->
            [status |-> "success", http |-> client[r].status, cat |-> "", boot |-> 0]
      [] Verdict(r) = "exhausted" ->
            [status |-> "error", http |-> h[r].lastStatus, cat |-> h[r].lastCat, boot |-> 0]
      [] OTHER ->
            [status |-> "error", http |-> AttemptStatus(r), cat |-> h[r].res.cat, boot |-> 0]

\* The status of the gateway's own error response.
ErrorStatus(r) ==
    IF Verdict(r) = "rejected" THEN AttemptStatus(r)
    ELSE IF Len(h[r].plan) > 1 /\ h[r].lastStatus = 502 THEN 503
    ELSE h[r].lastStatus

\* statusWriter: the first WriteHeader fixes the status, later ones only add
\* their bytes. A source is an attempt number, or 0 for the gateway itself.
Written(c, s, source, whole) ==
    [status |-> IF c.status = 0 THEN s ELSE c.status,
     from |-> c.from \cup {source}, whole |-> whole]

NewAttempt(t, k) == [target |-> t, slot |-> k, open |-> TRUE, http |-> None,
                     success |-> FALSE, cat |-> ""]

\* A telemetry statement succeeds, or fails and is only logged.
Stmt(ok) ==
    /\ ok \/ failures < MaxFailures
    /\ failures' = IF ok THEN failures ELSE failures + 1

Goto(r, pc) == h' = [h EXCEPT ![r] = [@ EXCEPT !.pc = pc]]

-----------------------------------------------------------------------------
(* Steps of a request *)

\* The request is authenticated, parsed and routed; StartRequest inserts the
\* request row and attempt 1 in one transaction.
Receive(r) ==
    /\ daemon = "up"
    /\ h[r].pc = "idle"
    /\ \E p \in Plans, ok \in BOOLEAN :
        /\ Stmt(ok)
        /\ h' = [h EXCEPT ![r] = [@ EXCEPT !.pc = "announce", !.plan = p]]
        /\ reqRow' = IF ok THEN [reqRow EXCEPT ![r] =
                             [status |-> "in_progress", http |-> None, cat |-> "", boot |-> 0]]
                           ELSE reqRow
        /\ attempts' = [attempts EXCEPT ![r] = <<IF ok THEN NewAttempt(1, 1) ELSE None>>]
    /\ UNCHANGED <<world, client, ruleRow, active>>

\* publishStarted.
Announce(r) ==
    /\ h[r].pc = "announce"
    /\ Goto(r, "target")
    /\ active' = active \cup {r}
    /\ UNCHANGED <<world, client, telemetry>>

\* The head of the outer loop: the prompt rules of the next target are
\* resolved, and recorded when there are any and they differ from the ones
\* recorded last (recordPromptRules; its rows need the request row).
EnterTarget(r) ==
    /\ h[r].pc = "target"
    /\ h[r].ti <= Len(h[r].plan)
    /\ IF Target(r).rules \notin {None, h[r].sig}
       THEN /\ h' = [h EXCEPT ![r] = [@ EXCEPT !.pc = "begin", !.sig = Target(r).rules]]
            /\ \E ok \in BOOLEAN :
                /\ Stmt(ok)
                /\ ruleRow' = IF ok /\ reqRow[r] # None
                              THEN [ruleRow EXCEPT ![r] = Target(r).rules]
                              ELSE ruleRow
       ELSE /\ Goto(r, "begin")
            /\ UNCHANGED <<ruleRow, failures>>
    /\ UNCHANGED <<world, client, reqRow, attempts, active>>

\* Mutation: the loop runs one target too far before it gives up.
ExhaustLate(r) ==
    /\ h[r].pc = "target"
    /\ h[r].ti > Len(h[r].plan) + 1
    /\ h' = [h EXCEPT ![r] = [@ EXCEPT !.pc = "finishing", !.res.kind = "exhausted"]]
    /\ UNCHANGED <<world, client, telemetry, active>>

\* The outer loop is over: no target is left.
Exhaust(r) ==
    /\ h[r].pc = "target"
    /\ h[r].ti > Len(h[r].plan)
    /\ h' = [h EXCEPT ![r] = [@ EXCEPT !.pc = "finishing", !.res.kind = "exhausted"]]
    /\ UNCHANGED <<world, client, telemetry, active>>

\* The head of the inner loop; StartAttempt for every attempt but the first.
BeginAttempt(r) ==
    /\ h[r].pc = "begin"
    /\ h' = [h EXCEPT ![r] = [@ EXCEPT !.pc = "secret", !.num = h[r].num + 1,
                                       !.sent = FALSE, !.committed = FALSE,
                                       !.res = NoResult]]
    /\ IF h[r].num + 1 > 1
       THEN \E ok \in BOOLEAN :
               /\ Stmt(ok)
               /\ attempts' = [attempts EXCEPT ![r] = Append(attempts[r],
                     IF ok /\ reqRow[r] # None THEN NewAttempt(h[r].ti, h[r].ki) ELSE None)]
       ELSE UNCHANGED <<attempts, failures>>
    /\ UNCHANGED <<world, client, reqRow, ruleRow, active>>

\* ProviderKeySecret fails when the row is gone, does not decrypt, or the
\* request's context is canceled; the loop then moves to the next key.
ReadSecret(r) ==
    /\ h[r].pc = "secret"
    /\ IF Key(r) \in stored \ SealedKeys /\ r \in present
       THEN Goto(r, "proxy")
       ELSE LET cat == IF r \in present THEN "connection_failure" ELSE "canceled"
            IN  h' = [h EXCEPT ![r] = [@ EXCEPT !.pc = "closing", !.lastCat = cat,
                                                !.res = Unread(cat)]]
    /\ UNCHANGED <<world, client, telemetry, active>>

\* The proxy call returned this error.
Fail(r, err) ==
    h' = [h EXCEPT ![r] = [@ EXCEPT !.pc = "closing", !.res = err, !.lastCat = err.cat]]

\* The upstream has taken the whole request; the header timeout starts here.
\* (One that stops reading a long body may never let it come to this.)
Sent(r) ==
    /\ h[r].pc = "proxy"
    /\ ~h[r].sent
    /\ h' = [h EXCEPT ![r].sent = TRUE]
    /\ UNCHANGED <<world, client, telemetry, active>>

\* No response headers: refused, reset, or timed out (net and net/http report
\* their timeouts as DeadlineExceeded, which is classified as "canceled").
NoAnswer(r) ==
    /\ h[r].pc = "proxy"
    /\ \E cat \in {"connection_failure", "canceled"} : Fail(r, Error(0, cat, FALSE))
    /\ UNCHANGED <<world, client, telemetry, active>>

\* Response headers arrive, maybe before the request is all written (an upstream
\* may answer what it has not read). An error status, and a 2xx whose body has to
\* be translated as a whole, is read first; any other 2xx is relayed at once.
HeadArrives(r) ==
    /\ h[r].pc = "proxy"
    /\ \/ \E s \in Statuses \cup {200} :
            /\ h' = [h EXCEPT ![r] = [@ EXCEPT !.pc = "reading", !.head = s]]
            /\ UNCHANGED client
       \/ /\ h' = [h EXCEPT ![r] = [@ EXCEPT !.pc = "relay", !.committed = TRUE]]
          /\ client' = [client EXCEPT ![r] = Written(@, 200, h[r].num, FALSE)]
    /\ UNCHANGED <<world, telemetry, active>>

\* The body that had to be read is complete: an error status becomes an
\* UpstreamError, a 2xx is translated and written, or cannot be translated, or
\* its writing fails because the client is gone.
ReadBody(r) ==
    /\ h[r].pc = "reading"
    /\ \/ /\ h[r].head # 200
          /\ Fail(r, Error(h[r].head, CategoryOf(h[r].head), FALSE))
          /\ UNCHANGED client
       \/ /\ h[r].head = 200
          /\ Fail(r, Error(200, CategoryOf(200), FALSE))
          /\ UNCHANGED client
       \/ /\ h[r].head = 200
          /\ h' = [h EXCEPT ![r] = [@ EXCEPT !.pc = "closing", !.committed = TRUE,
                                             !.res = Success]]
          /\ client' = [client EXCEPT ![r] = Written(@, 200, h[r].num, TRUE)]
       \/ /\ h[r].head = 200 /\ r \notin present
          /\ h' = [h EXCEPT ![r] = [@ EXCEPT !.pc = "closing", !.committed = TRUE,
                                             !.res = Error(0, "connection_failure", FALSE),
                                             !.lastCat = "connection_failure"]]
          /\ client' = [client EXCEPT ![r] = Written(@, 200, h[r].num, FALSE)]
    /\ UNCHANGED <<world, telemetry, active>>

\* The connection breaks while a body is read: ReadError keeps the status it
\* has; a 2xx that was to be translated becomes an UpstreamError without one.
BreakReading(r) ==
    /\ h[r].pc = "reading"
    /\ IF h[r].head = 200
       THEN Fail(r, Error(0, "connection_failure", FALSE))
       ELSE Fail(r, Error(h[r].head, CategoryOf(h[r].head), FALSE))
    /\ UNCHANGED <<world, client, telemetry, active>>

\* The relayed body ends.
RelayEnds(r) ==
    /\ h[r].pc = "relay"
    /\ h' = [h EXCEPT ![r] = [@ EXCEPT !.pc = "closing", !.res = Success]]
    /\ client' = [client EXCEPT ![r].whole = TRUE]
    /\ UNCHANGED <<world, telemetry, active>>

\* The upstream connection breaks while the body is relayed.
RelayBreaks(r) ==
    /\ h[r].pc = "relay"
    /\ Fail(r, Error(0, "connection_failure", FALSE))
    /\ UNCHANGED <<world, client, telemetry, active>>

\* The client has hung up: the context of the upstream call is canceled.
Canceled(r) ==
    /\ h[r].pc \in {"proxy", "reading", "relay"}
    /\ r \notin present
    /\ IF h[r].pc = "reading" /\ h[r].head # 200
       THEN Fail(r, Error(h[r].head, CategoryOf(h[r].head), FALSE))
       ELSE Fail(r, Error(0, "canceled", TRUE))
    /\ UNCHANGED <<world, client, telemetry, active>>

\* The loops move on: to the next credential, or to the next target.
NextCandidate(r) ==
    [h[r] EXCEPT !.pc = IF LastKey(r) THEN "target" ELSE "begin",
                 !.ki = IF LastKey(r) THEN 1 ELSE @ + 1,
                 !.ti = IF LastKey(r) THEN @ + 1 ELSE @,
                 !.lastStatus = IF Verdict(r) = "refused" THEN h[r].res.status ELSE @]

\* FinishAttempt, and where the loops go from there.
CloseAttempt(r) ==
    /\ h[r].pc = "closing"
    /\ \E ok \in BOOLEAN :
        /\ Stmt(ok)
        /\ attempts' = IF ok /\ attempts[r][h[r].num] # None
                       THEN [attempts EXCEPT ![r][h[r].num] =
                               [@ EXCEPT !.open = FALSE, !.http = AttemptStatus(r),
                                         !.success = (Verdict(r) = "served"),
                                         !.cat = AttemptCategory(r)]]
                       ELSE attempts
    /\ IF Verdict(r) \in {"refused", "skipped"}
       THEN h' = [h EXCEPT ![r] = NextCandidate(r)]
       ELSE Goto(r, "finishing")
    /\ UNCHANGED <<world, client, reqRow, ruleRow, active>>

\* FinishRequest.
FinishRequest(r) ==
    /\ h[r].pc = "finishing"
    /\ Goto(r, "publishing")
    /\ \E ok \in BOOLEAN :
        /\ Stmt(ok)
        /\ reqRow' = IF ok /\ reqRow[r] # None
                     THEN [reqRow EXCEPT ![r] = RequestResult(r)]
                     ELSE reqRow
    /\ UNCHANGED <<world, client, attempts, ruleRow, active>>

\* Mutation: the event is published, the active map is not cleaned.
PublishFinishedKeepsActive(r) ==
    /\ h[r].pc = "publishing"
    /\ Goto(r, IF Verdict(r) \in {"rejected", "exhausted"} THEN "respond" ELSE "done")
    /\ UNCHANGED <<world, client, telemetry, active>>

\* publishFinished: without a record read back, the hub is not told.
PublishFinished(r) ==
    /\ h[r].pc = "publishing"
    /\ Goto(r, IF Verdict(r) \in {"rejected", "exhausted"} THEN "respond" ELSE "done")
    /\ \E ok \in BOOLEAN :
        /\ Stmt(ok)
        /\ active' = IF ok /\ reqRow[r] # None THEN active \ {r} ELSE active
    /\ UNCHANGED <<world, client, reqRow, attempts, ruleRow>>

\* writeProtocolError.
Respond(r) ==
    /\ h[r].pc = "respond"
    /\ Goto(r, "done")
    /\ client' = [client EXCEPT ![r] = Written(@, ErrorStatus(r), 0, TRUE)]
    /\ UNCHANGED <<world, telemetry, active>>

-----------------------------------------------------------------------------
(* The environment and the daemon's life cycle *)

HangUp(r) ==
    /\ h[r].pc \in Running
    /\ r \in present
    /\ present' = present \ {r}
    /\ UNCHANGED <<stored, h, client, telemetry, active, daemon, crashes>>

DeleteKey(k) ==
    /\ k \in stored
    /\ stored' = stored \ {k}
    /\ UNCHANGED <<present, h, client, telemetry, active, daemon, crashes>>

\* The process dies (or its 5 s of graceful shutdown run out): handlers and
\* the hub go, the database stays.
Crash ==
    /\ daemon # "down"
    /\ crashes < MaxCrashes
    /\ daemon' = "down"
    /\ crashes' = crashes + 1
    /\ active' = {}
    /\ h' = [r \in Requests |-> IF h[r].pc \in Running
                                THEN [h[r] EXCEPT !.pc = "dead"] ELSE h[r]]
    /\ UNCHANGED <<stored, present, client, telemetry>>

\* Mutation: every row is reaped, whatever its status.
ReapRequestsAll ==
    /\ daemon = "down"
    /\ daemon' = "reaping"
    /\ reqRow' = [r \in Requests |->
                    IF reqRow[r] # None
                    THEN [reqRow[r] EXCEPT !.status = "error", !.cat = "internal_error",
                                           !.boot = crashes]
                    ELSE None]
    /\ UNCHANGED <<stored, present, crashes, h, client, attempts, ruleRow, active, failures>>

\* ReapStale, first statement. boot stands for its timestamp. If it fails the
\* second is not run; the daemon starts serving all the same.
ReapRequests ==
    /\ daemon = "down"
    /\ \E ok \in BOOLEAN :
        /\ Stmt(ok)
        /\ daemon' = IF ok THEN "reaping" ELSE "up"
        /\ reqRow' = [r \in Requests |->
                        IF ok /\ reqRow[r] # None /\ reqRow[r].status = "in_progress"
                        THEN [reqRow[r] EXCEPT !.status = "error", !.cat = "internal_error",
                                               !.boot = crashes]
                        ELSE reqRow[r]]
    /\ UNCHANGED <<stored, present, crashes, h, client, attempts, ruleRow, active>>

\* Mutation: the second statement takes a timestamp of its own.
ReapedNowLater(r) ==
    /\ reqRow[r] # None
    /\ reqRow[r].status = "error" /\ reqRow[r].cat = "internal_error"
    /\ reqRow[r].boot = crashes + 1

\* ReapStale, second statement: the open attempts of the rows just reaped.
ReapedNow(r) ==
    /\ reqRow[r] # None
    /\ reqRow[r].status = "error" /\ reqRow[r].cat = "internal_error"
    /\ reqRow[r].boot = crashes

ReapAttempts ==
    /\ daemon = "reaping"
    /\ daemon' = "up"
    /\ \E ok \in BOOLEAN :
        /\ Stmt(ok)
        /\ attempts' = [r \in Requests |-> [n \in 1..Len(attempts[r]) |->
                          LET a == attempts[r][n] IN
                          IF ok /\ ReapedNow(r) /\ a # None /\ a.open
                          THEN [a EXCEPT !.open = FALSE, !.success = FALSE,
                                         !.cat = "internal_error"]
                          ELSE a]]
    /\ UNCHANGED <<stored, present, crashes, h, client, reqRow, ruleRow, active>>

-----------------------------------------------------------------------------
(* Specification *)

Init ==
    /\ stored = Keys
    /\ present = Requests
    /\ h = [r \in Requests |-> Idle]
    /\ client = [r \in Requests |-> [status |-> 0, from |-> {}, whole |-> FALSE]]
    /\ reqRow = [r \in Requests |-> None]
    /\ attempts = [r \in Requests |-> <<>>]
    /\ ruleRow = [r \in Requests |-> None]
    /\ active = {}
    /\ daemon = "up"
    /\ crashes = 0
    /\ failures = 0

\* Steps of the handler's own code.
Handle(r) ==
    \/ Announce(r) \/ EnterTarget(r) \/ Exhaust(r) \/ BeginAttempt(r) \/ ReadSecret(r)
    \/ CloseAttempt(r) \/ FinishRequest(r) \/ PublishFinished(r) \/ Respond(r)

Upstream(r) ==
    \/ Sent(r) \/ NoAnswer(r) \/ HeadArrives(r) \/ ReadBody(r) \/ BreakReading(r)
    \/ RelayEnds(r) \/ RelayBreaks(r)

Next ==
    \/ \E r \in Requests : Receive(r) \/ Handle(r) \/ Upstream(r) \/ Canceled(r) \/ HangUp(r)
    \/ \E k \in Keys : DeleteKey(k)
    \/ Crash \/ ReapRequests \/ ReapAttempts

\* The upstream has the request: its answer or the header timeout is due.
Answered(r) == h[r].sent /\ (NoAnswer(r) \/ HeadArrives(r))

\* The Go scheduler runs every handler; the response-header timeout bounds the
\* wait for an answer to a request that is written out; a canceled context wakes
\* a blocked read or write. Nothing bounds how long an upstream takes to read a
\* request's body, or over the body of its answer.
Fairness == \A r \in Requests :
    /\ WF_vars(Handle(r))
    /\ WF_vars(Answered(r))
    /\ WF_vars(Canceled(r))

Spec == Init /\ [][Next]_vars /\ Fairness

-----------------------------------------------------------------------------
(* Properties *)

ErrorStatuses == 400..599
Handlers == [pc : {"idle"} \cup Running \cup Settled, plan : Plans \cup {<<>>},
             ti : Nat \ {0}, ki : Nat, num : Nat, sig : RuleSets, sent : BOOLEAN,
             committed : BOOLEAN, head : {0, 200} \cup Statuses, res : Results,
             lastStatus : ErrorStatuses, lastCat : Categories]
Clients == [status : {0, 200} \cup ErrorStatuses, from : SUBSET Nat, whole : BOOLEAN]
AttemptRows == [target : Nat, slot : Nat, open : BOOLEAN, success : BOOLEAN,
                http : {None, 200} \cup ErrorStatuses, cat : Categories]
RequestRows == [status : {"in_progress", "success", "error"},
                http : {None, 200} \cup ErrorStatuses, cat : Categories, boot : Nat]

\* Type correctness of the request path's state. An error row never records
\* "no answer" (0) or a redirect: both are mapped to 502 first.
TypeOK ==
    /\ stored \in SUBSET Keys
    /\ present \in SUBSET Requests
    /\ h \in [Requests -> Handlers]
    /\ client \in [Requests -> Clients]
    /\ reqRow \in [Requests -> RequestRows \cup {None}]
    /\ attempts \in [Requests -> Seq(AttemptRows \cup {None})]
    /\ ruleRow \in [Requests -> RuleSets]
    /\ active \in SUBSET Requests
    /\ daemon \in {"up", "down", "reaping"}
    /\ crashes \in 0..MaxCrashes
    /\ failures \in 0..MaxFailures

\* The bytes a client receives come from one source: one upstream attempt, or
\* the gateway's own error body. Failover never splices two answers together
\* (gateway's tracked.committed check).
SingleSource == \A r \in Requests : \A m, n \in client[r].from : m = n

\* The credential an attempt moves on to: the next one of the same target, or
\* the first one of the next target.
Follows(p, a, b) ==
    \/ b.target = a.target /\ b.slot = a.slot + 1
    \/ b.target = a.target + 1 /\ b.slot = 1 /\ a.slot = Len(p[a.target].keys)

\* The recorded attempts walk the resolved plan in order: they start at the
\* first credential of the first target, skip none and repeat none, so the row
\* attempt_number names is the one whose credential was used. One is left
\* behind only for a credential failure, or before the upstream was called,
\* and none that the client has heard.
AttemptsWalkThePlan ==
    \A r \in Requests : LET A == attempts[r] IN
        /\ A # <<>> /\ A[1] # None => A[1].target = 1 /\ A[1].slot = 1
        /\ \A n \in 1..Len(A) : A[n] # None =>
              /\ A[n].target \in 1..Len(h[r].plan)
              /\ A[n].slot \in 1..Len(h[r].plan[A[n].target].keys)
        /\ \A n \in 1..(Len(A) - 1) :
              /\ A[n] # None /\ A[n+1] # None => Follows(h[r].plan, A[n], A[n+1])
              /\ A[n] # None /\ ~A[n].open =>
                    /\ ~A[n].success /\ n \notin client[r].from
                    /\ A[n].http \in {401, 402, 403, 429} \/ A[n].cat = "internal_error"

\* The request's record tells what the client got: success exactly when an
\* upstream answer was delivered whole; an error record is never paired with
\* a whole upstream answer (unless its statement failed and a restart reaped it).
RecordMatchesDelivery ==
    \A r \in Requests :
        h[r].pc = "done" /\ reqRow[r] # None /\ reqRow[r].status # "in_progress"
          /\ reqRow[r].boot = 0 =>
            (reqRow[r].status = "success" <=> client[r].whole /\ 0 \notin client[r].from)

\* A request is closed after its attempts: unless a statement failed or a reap
\* was itself interrupted, a closed request has no open attempt.
ClosedRequestHasClosedAttempts ==
    daemon = "up" /\ failures = 0 /\ crashes <= 1 =>
        \A r \in Requests : reqRow[r] # None /\ reqRow[r].status # "in_progress" =>
            \A n \in 1..Len(attempts[r]) : ~attempts[r][n].open

\* While the daemon serves, a row that says "in_progress" and an entry of the
\* monitor's active list belong to a handler that is running: neither survives
\* its request or a restart (unless a telemetry statement failed).
InProgressIsLive ==
    daemon = "up" /\ failures = 0 => \A r \in Requests :
        \/ h[r].pc \in Running
        \/ /\ r \notin active
           /\ reqRow[r] # None => reqRow[r].status # "in_progress"

\* The monitoring page's two ways of classing a finished request agree:
\* Totals.observe (counts) and Scope.scopeClauses (the outcome filter).
TotalsClass(row) ==
    IF row.cat = "canceled" THEN "cancelled"
    ELSE IF (row.http # None /\ row.http >= 400) \/ row.cat # "" THEN "failed"
    ELSE "success"
FilterClass(row) ==
    IF row.status = "success" THEN "success"
    ELSE IF row.cat = "canceled" THEN "cancelled" ELSE "failed"
DashboardAgrees ==
    \A r \in Requests : reqRow[r] # None /\ reqRow[r].status # "in_progress" =>
        TotalsClass(reqRow[r]) = FilterClass(reqRow[r])

\* A finished record is final: neither a late handler nor ReapStale rewrites it.
RecordIsFinal ==
    [][\A r \in Requests : reqRow[r] # None /\ reqRow[r].status # "in_progress"
                              => reqRow'[r] = reqRow[r]]_vars

\* A request can be held for ever only by an upstream that stalls over a body,
\* the request's or its answer's, while the client keeps waiting; in every other
\* case its handler ends. (There is no overall timeout, http.Client.Timeout is 0,
\* and ResponseHeaderTimeout counts from the end of the request's body.)
HeldOnlyByUpstream ==
    \A r \in Requests :
        \/ []<>(h[r].pc \notin Running)
        \/ <>[](r \in present /\ (\/ h[r].pc = "proxy" /\ ~h[r].sent
                                  \/ h[r].pc \in {"reading", "relay"}))

=============================================================================
