# Formal models of pogu

pogu is a router for AI requests: clients call one OpenAI- or Anthropic-style
endpoint, and the daemon resolves the model they name to upstream providers and
credentials, fails over between them, relays the answer, records telemetry and
shows what is going on in an admin console. This directory holds TLA+ models of
its core, the TLC configurations that check them, and TLAPS proofs. Paths below
are relative to the repository; `gateway.go` and the other Go files without a
directory are in `internal/httpapi`, `internal/service`, `internal/telemetry`,
`internal/provider` or `internal/control`.

`PROJECT.json` lists, for machines, the components, runs, mutants, findings,
hazards and theorems, and the source lines every definition stands for.

    tlasany Gateway.tla                               # parse
    tlc -config MCGateway_failover.cfg MCGateway      # model-check
    tlapm GatewayProofs.tla                           # prove

## The system

| Component | State it keeps | Operations | Talks to |
| --- | --- | --- | --- |
| Request path (`gateway.go`, `gateway_telemetry.go`) | locals of one goroutine per request | resolve, try a credential, relay, finish | routing, upstream client, telemetry, hub |
| Upstream client (`client.go`, `proxy.go`, `proxy_responses.go`) | a connection | send, relay a stream or read a body, classify errors | the upstreams |
| Telemetry (`telemetry.go`, `monitoring.go`) | tables of requests, attempts and fired rules | start, finish, reap, aggregate | SQLite |
| Routing (`service.go`, `groups.go`, `models.go`, `providers.go`, `provider_keys.go`) | catalog tables, round-robin cursors under `rrMu` | resolve a model or group, edit the catalog | SQLite |
| Prompt rules (`promptrules.go`) | two tables, a cached snapshot under `promptMu` | resolve, create, update, reorder, delete | SQLite |
| Live monitor (`monitor_hub.go`, `monitoring.go`, `ui/src/lib/monitor.svelte.ts`) | active requests, subscribers' channels, each page's feed | publish, subscribe, unsubscribe, fold events | the request path, browsers |
| Authentication (`auth.go`, `service/auth.go`, `admin.go`) | login failures, setup token, sessions, client keys | log in and out, set up, change the password, authenticate | SQLite |
| Settings and caveman skill (`settings.go`, `caveman.go`) | settings table, cached skill | read, set, sync from the network | SQLite |
| Control plane (`internal/control`, `controlcli.go`) | listening socket, open connections | start, accept, dispatch, close | the service |
| Translation (`translate_*.go`, `stream_*.go`, `reasoning.go`, `prompts.go`, `sse.go`, `usage.go`) | the body of one request; the state of one stream | turn one protocol's requests and events into another's | the request path |
| Provider keys (`provider_keys.go`, `import.go`, `providers.go`) | the credential pool of each provider | add, import, reorder, rename, switch, delete | SQLite |
| Store (`store.go`, `schema.go`) | one SQLite connection | migrate, execute | everything |

Three facts about the code shape every module:

* **One database connection** (`store.go:34`, `SetMaxOpenConns(1)`). A statement,
  or a transaction from BEGIN to COMMIT, excludes every other; between two
  statements of one operation anything may happen. So a step of a model is a
  statement or transaction, and what follows a statement is part of it up to
  the next point where someone else can be seen.
* **Foreign keys cascade**, except for `prompt_rule_targets`, which refers to
  groups and models by number and is cleaned by the operations themselves.
* **A goroutine per request and per live page**, that share only the database,
  the hub (one mutex), the cursors (`rrMu`) and the rule snapshot (`promptMu`).

### What is hard here, and what has to be right

* *Request path*: failover must stop at the first byte the client has seen;
  attempts must be recorded under the credential that was used; the record, the
  live list and the client's answer are written by separate steps that can fail
  or be cut off by a crash. Right means: a client hears one upstream, the record
  says what it heard, nothing is in progress that is not running.
* *Routing*: five kinds of statement per resolution while administrators edit.
  Right means: no credential ever leaves its provider, plans are never empty,
  and an undisturbed resolution is the configured one, fairly rotated.
* *Prompt rules*: validation outside the transaction, a snapshot loaded by two
  statements, a mutex held while waiting for the connection. Right means: one
  rule per target, no stale snapshot after the edit has returned, no deadlock.
* *Live monitor*: bounded channels closed from two sides, a snapshot and a stream
  of events that overlap. Right means: no channel is closed twice, and a page
  ends up showing what runs.
* *Translation*: a body is rewritten by several functions in a row, once per
  target of a group; a stream is rewritten event by event, by one translator or
  two, and may end anywhere. Right means: nothing is lost that the other
  protocol can say, nothing is said twice, and a cut answer does not look whole.
* *Provider keys*: duplicates, names and places are looked up before the
  transaction that uses them. Right means: no secret twice, an import whole or
  not at all, the first credential the one that was made first.
* *Authentication*: a slow password check between the throttle and the session,
  few slots, and passwords that change meanwhile. Right means: one administrator, no
  old password that lets in more than the logins already checked, no slot kept.
* *Control socket*: daemons that share a path and no lock, and clients that wait
  without a deadline. Right means: one daemon that can be reached, no client left
  waiting.

## The modules

### Gateway

One AI request per member of `Requests`, one step per statement, hub call or
network event. `h[r]` are the locals of `gateway()` and of its telemetry
recorder: `pc`, the plan it was handed, the loop indices `ti`, `ki`, the attempt
number `num`, `sent` (the upstream has taken the whole request), `committed` (the
response writer has sent its header), and the outcome `res` of the current attempt. `client[r]` is what the caller received:
status, the attempts whose bytes it saw (`0` stands for the gateway's own error
text) and whether the answer was whole. `reqRow`, `attempts`, `ruleRow` are the
telemetry tables; `active` is the hub's list; `daemon` is up, down, or between
the two statements of `ReapStale`.

| Action | Code |
| --- | --- |
| `Receive`, `Announce` | `newGatewayTelemetry` and `publishStarted` |
| `EnterTarget`, `BeginAttempt`, `ReadSecret` | the two loops of `gateway`: rules of the target, attempt row, `ProviderKeySecret` |
| `Sent`, `NoAnswer`, `HeadArrives`, `ReadBody`, `BreakReading`, `RelayEnds`, `RelayBreaks`, `Canceled` | what the proxy calls can come back with |
| `CloseAttempt`, `NextCandidate`, `Exhaust` | closing the attempt and the choice between next credential, next target and the end |
| `FinishRequest`, `PublishFinished`, `Respond` | `finishRequest`, `publishFinished`, the error answer |
| `HangUp`, `DeleteKey`, `Crash`, `ReapRequests`, `ReapAttempts` | the surroundings |

`Verdict` is the heart: the classification of an attempt (served, skipped,
refused, stopped, rejected, exhausted) that the branches at `gateway.go:237-271`
amount to. Bodies are abstract: only their source and completeness matter.
The actions `NoAnswer` to `Canceled` cover the four ways the code calls an
upstream (translated or not, streamed or not), which differ in when the client's
header is sent. `Sent` is where the header timeout begins to run (`client.go:26`): an
upstream need never take the rest of a long request.

### Failover and GatewayFailover

`Failover` says in a page what the gateway promises: candidates in order, on to
the next exactly after a refusal, listen to the first that answers, and no end
unheard unless nobody is left or the failure is final (one another candidate
could not mend, or a client that has left). `GatewayFailover` maps the handler's
state to it (`stage`, `left`, `failure`, `source`), with the statuses that are a
refusal written out, so that a changed branch of the handler is no step of it;
`PromiseKept` is the mapped `Failover!Spec`, so every handler step is a step of
the promise or a stutter.

### Routing

`call[c]` holds the locals of a `resolveTargets`. The steps are its statements:
the group's row, its members, for each member the two statements of
`ResolveRoute` and the two of `EligibleKeys`, and the cursors. The catalog is
edited by one action per operation, with its cascade. Ids are numbers, so
`ORDER BY` is their order (`InOrder`); `Rotated` is the rotation both the
credentials and the members use. `turns` and `heads` only count, for the
fairness properties.

### PromptRules

Tables (`rule`, `claims`, `alive`), the snapshot `cache`, the two locks `mu`
(`promptMu` held for writing) and `conn` (a transaction that holds the
connection). A rule keeps its name here, and the wording of a
prompt is left out. A reader takes the fast path, or locks, loads rules, then
their targets, and stores what it has; `LoadFails` is an error return of either
statement, stored all the same. An administrator's call validates twice,
writes, commits and then drops the snapshot. `poisoned` marks a snapshot left
by a failed load, so the properties can speak of the rest.

### MonitorHub

`req[r]` walks the handler's calls of the hub; each publish method of the hub
takes its mutex twice (update `active`, then publish), so it is two steps.
`subs`, `queue` and `closed` are the channels; `Publish` drops a subscriber whose
buffer is full. A page subscribes, which copies the active list, reads the
recent records, sends the hello, and then receives events, which `Applied` folds
into `feed` as `monitor.svelte.ts` does. The frames on the wire count as still in
the channel, which makes a channel at most as large as in the code.

### StreamTranslate

One streamed answer. `route` is the proxy function that runs: Anthropic or
Responses events into chat chunks, chat chunks into Anthropic events, or
Responses into Anthropic, which is two translators in a row (`ThroughBoth`). An
event of the upstream (`Text`, `Think`, `ToolStart`, `ToolArguments`, `ToolDone`,
`Finish`, `Error`, `Trailer`, then `EndOfBody` or `Break`) and every frame it
causes are one step, since the callback of `scanSSE` handles one event at a time.
`chat` and `msgs` are the fields of the translators, `col` those of the usage
collector. A fragment of text, of reasoning or of a tool's arguments is a
number. `client` is a strict reader of its protocol: it puts the pieces together
and notes any frame that is not allowed where it comes. `Unary` is the
translation of a whole answer by the code that does not stream, and the
reference for what a stream must amount to.

### RequestTranslate

One request for one or more targets. `Prepared` is what the handler keeps of the
body (foreign fields stripped, the effort of the model's suffix set); `Serve`
injects the prompts of the next target into it and translates the result for the
upstream's protocol, in `injectPromptSegments` order. A body is a record with the
fields of all three protocols; content parts are kinds with a value.
`ChatToAnthropic`, `AnthropicToChat` and `ChatToResponses` are the translators;
the fourth way is two of them in a row, as in the code. What a tool answers is a
text (`plain`) or a list of parts, and a text that is the JSON of something is a
part of its own (`JSONText`): that is what `Output` makes of an answer that is no
text, or an empty one (`translate_responses.go:67-78`). `Told`, `SystemRead` and
`EffortOf` read a body as its receiver does, and the properties compare what is
read on both sides: for a chat client the order of all parts, for a translated
Anthropic conversation message by message the order of each sort of part. Left out: the translators' `response_format` and
`service_tier`, a Responses-style `input`, arguments that are not JSON (they
become `{}`), empty texts, and tool schemas.

### ProviderKeys

The pool of one provider, which may be deleted and made again. A call of
`Callers` takes one step per statement, so whatever it has read (`known`, `top`,
`sort`, `index`, `enabled`) may be stale when it writes; `SwitchKey`,
`DeleteProviderKey` and `DeleteProvider` are calls of one statement by others.
`Fail` ends a call between any two of its statements; a read of many rows may
break and leave the call with those it has seen (`Reads`), since nobody asks
`rows.Err()`. Ids are numbers that are
never reused (AUTOINCREMENT), `sort` is `sort_order`, and `Before` is the ORDER BY
of the list. `alone` marks calls that no other call's write overlapped, and
`primary` the key that was moved to the front last.

What overlapping calls may do in this code, and the properties allow: two creates
can take the same place and the same `Key n`; an import that overlaps an add of one
of its secrets is refused as a whole, with a status 500; names given in a batch
may collide with the ones it makes up; and making a key primary that already is
does not renumber, so a key that was added under the same place stays next to it.

### Auth

A request of `Requests` is a login, a setup or a change of the password; its
steps are critical sections of `loginMu` or `setupMu`, the operations on the
channel `loginSlots`, and statements. `attempts` holds each source's failures
and whether it is locked out; time passes by `Unlock` and `Expire`, at any moment.
`InitCommand` is `pogu init` next to the daemon, `Restart` a crash and the start
after it, which decides on setup mode by what the table holds. `since` of a
session is the number of password changes committed when its login checked the
password, not when the row was inserted: a login may be overtaken by a change
between the two (`auth.go:93-104`), and `FewSessionsOutliveAChange` says how far
that can go. `Swept` is the sweep of
a table of 256 failures, which the model allows at any time.

### ControlServer

`Start` and `Close` as sequences of system calls of daemons that share a path
(`lstat`, the probing dial, `remove`, `listen`, `chmod`; closing the listener, which
unlinks the path, closing the connections copied under the mutex, removing the
path once more), a crash at any moment, the accept loop, and a client's
connection from dialling to hanging up. `overlap` notes that a start or a stop
began while another was under way, or that a start could not reach the daemon
that listens (`ProbeFails`: any error of the dial counts as a stale socket).

## The runs

Every property has a mutant: a changed definition (kept next to the original,
after the word "Mutation") under which TLC finds it violated.

| Run | Instance | Shows |
| --- | --- | --- |
| `gw_failover` | 1 request; a group of two models sharing two credentials, or a direct call whose first credential is sealed; statuses 400, 429, 503; 2 failed statements, 1 crash | one source per client, attempts follow the plan, record = delivery, dashboard's two classifications agree, nothing dangles after the reap, final records stay, implements `Failover`, held only by an upstream that stalls over the request's body or its answer's |
| `rt_edits` | 2 providers, 3 models, credentials and members; 1 resolution with 2 edits, or 4 resolutions of 2 callers without | credentials stay with their provider; an undisturbed resolution is exact; rotation is fair per list |
| `pr_rules` | 2 administrators, 2 edits, 2 requests one after the other, 1 failed load; one target claimed, one free; fair | one rule per target, no stale snapshot; undisturbed answers are the documented ones; every call returns |
| `mh_pages` | 2 requests, 1 page, buffer 2, 1 mishap (failed call, lost connection or crash), fair | no double close; a quiet page is right; nothing is revived; every end is seen |
| `st_streams` | the 4 translations, upstreams of up to 6 events, any end | pieces arrive once and in order, in frames the protocol allows; an end means an end; stream = whole answer; tokens that come with the end recorded |
| `rq_requests` | 2 targets; conversations of up to 3 messages out of 10 chat or 9 Anthropic ones; every suffix, effort field, budget boundary and control | conversation, prompts, effort and controls are kept |
| `pk_pool` | 2 callers, 4 calls or broken reads, at most 5 keys; batches with names, blanks and repeats | unique secrets, primary first, imports whole or nothing, undisturbed calls exact |
| `au_setup` | 3 requests, 4 calls, 1 source, 2 passwords, 2 slots, fair | one administrator; no more sessions outlive a change than there are slots; every request answered |
| `cs_daemons` | 2 daemons, 3 starts, 2 clients, 2 dials, 1 failed accept, fair | one reachable daemon; no client hangs |

Why the bounds are enough: failover looks at "is this the last credential" and "is
this the last target", so two of each reach every branch, and a shared provider
is the one way targets can interact. Failed statements matter singly and in
pairs (start and finish of one row); a second crash adds only an interrupted
reap, which `ClosedRequestHasClosedAttempts` excludes by name. Two edits put one
between any two statements of a resolution and let them interact. For the cursors
four resolutions pass the period of a list of two twice and of three once. Two
administrators with an edit each is the smallest race of two saves, and with a
request the smallest load torn by one writer while another waits; a second request
meets the snapshot of the first, after any edit between them. A page handles
requests one by one, so two of them reach every order of its feed; a buffer of
two overflows within one request's four or five events. `PublishRouted` and
`PublishStreaming` happen at most once per request, where the code may repeat the
former after a failover: repetitions are idempotent on the page and only fill the
buffer sooner.

Of a stream, six events are enough for two tool calls, one returned to after the
other, and an end with a trailer; the translators keep nothing about earlier
blocks but their number and their keys. Of a conversation, each rule of the
request translators looks at a message and the one before it, so three messages
hold a run, its start and its end. A second target is the first that could see
what was injected for another. In the pool, a call that overlaps one other is
stale in every way it can be, and five keys leave room for a batch of two next to
a pool of three. Two slots let two setups, or a login and a change, run at the same
time while a third request waits; four calls allow a setup, two logins and a change,
or three sessions and the change they should not outlive; and a threshold of two
puts a lockout within them. Three starts give both daemons a turn and one of them a
second, with a socket file of either left over at the beginning; two connections
are enough for one that Close knows and one that it does not.

`CHECK_DEADLOCK FALSE`: all instances are finite workloads that really end.

### Fairness

* `Gateway`: a handler keeps running (`WF` of its own steps), an upstream that has
  the whole request answers or the header timeout ends the wait (`client.go:26`), a
  cancelled request is noticed. Nothing is assumed of bodies: a request of up to
  10 MB (`gateway.go:83`) may never be read to its end, in which case the header
  timeout never starts, and `Timeout: 0` (`client.go:30`) bounds neither that nor the
  answer. That is why `HeldOnlyByUpstream` has its two exceptions.
* `PromptRules`: every goroutine keeps running and a free mutex or connection is
  handed to a waiter in the end (Go's mutexes are starvation-free; the pool
  of `database/sql` serves waiters in order). Nobody has to start a call. As calls are
  bounded, `CallsReturn` is stated as coming to rest, and so is `EveryoneIsAnswered`.
* `MonitorHub`: an EventSource reconnects by itself and its handler runs on;
  `publishFinished` once begun goes on. How long a request is served is not
  assumed.
* `Auth`: a request that has begun runs on, and a slot that is free again and again
  is handed to whoever waits (`SF` of `TakeSlot`; a Go channel serves its waiters in
  order). Nobody has to call, and nobody has to give up waiting.
* `ControlServer`: the threads of a living process run, an operation ends (its
  context has 30 s), and the accept loop takes what is queued. Nobody has to stop,
  crash, hang up early or dial.
* `Routing`, `RequestTranslate`, `StreamTranslate` and `ProviderKeys` state no
  liveness: a call may fail or stop at any step, and nothing is owed after it.

### Where the code and its documents disagree

Three runs expect a violation. Each checks one sentence of the repository
against the code; the counterexample is the disagreement.

| Run | The repository says | The code does |
| --- | --- | --- |
| `pr_docfailed` | rules add their prompts (README:278) | a failed load is cached as no rules until the next edit (`promptrules.go:398`) |
| `rq_docresults` | what chat can express survives intact (README:54) | the words of an Anthropic message that also answers tool calls are put between the calls and their answers (`translate_anthropic.go:438-440`) |
| `st_docusage` | token usage is recorded when the upstream reports it (README:316-317) | an Anthropic client's `message_start` counts 0 input tokens, its `message_delta` has none, and a chat upstream's counts that come after the last choice, as they do with `stream_options`, are dropped (`stream_anthropic.go:336`, 480, 319, 341); the record is taken from those frames |

Others were met on the way. The models do what the code does here, and no
property says otherwise:

* Sessions "are all invalidated when the password changes" (README:356-358), but a
  login that checked the old password may insert its session after the change has
  deleted all (`auth.go:93-104`, `admin.go:24-35`), once for every slot of
  `loginSlots`: `FewSessionsOutliveAChange` is what remains of the sentence.
* After failover from a target with rules to one without, the stored rules stay
  those of the failed target (`gateway.go:187`), while README:311-313 and the comment
  at `gateway.go:163` speak of the rules that served.
* A group with two models of one provider advances its cursor twice per request
  (`groups.go:359`), so with two credentials every request begins with the same one;
  README:188 says requests rotate evenly.
* `DeleteProvider` leaves the rule targets of its models (`providers.go:137`); the
  comment at `promptrules.go:378` says orphans never persist.
* A request that ends while a page connects is in the hello twice
  (`monitoring.go:137-147`), and the page's list is keyed by request (`LiveFeed.svelte:70`).
* A tool's answer that is an array, or empty, reaches a Responses upstream as the text
  of its JSON, images included (`translate_responses.go:67-78`); README:54 says what
  chat can express survives intact. `ConversationIsKept` reads that JSON as what it
  encodes, and demands only of one text that it stays the text it is.
* An import or a new key counts and compares the rows it got from a read that broke
  (`import.go:37-48`, `provider_keys.go:47-56`), so it may number its keys anew.
* Any error of the probing dial, a full backlog for one, makes a starting daemon
  remove a living one's socket (`server.go:62-67`).
* `Close` removes the path a second time (`server.go:209`), which on a clean stop
  reports that there is none, and when another daemon starts meanwhile removes
  its socket. Two starts that overlap may do the same to each other: hence
  `overlap` in `OneReachableDaemon`.
* README:211 says an import drops duplicates and takes the rest; a secret that is
  added between its check and its transaction fails all of it (`import.go:131-155`).
* `isFailoverStatus` also accepts 402 (`gateway.go:32`; README:193 lists 401, 403 and
  429), and an exhausted group of several targets is recorded with status 502 and
  answered with 503 (`gateway.go:266-271`).
* An Anthropic client that asks for the effort `minimal` by suffix gets `low`, and
  prompts are injected after the last `system` message also where a `developer`
  message follows it (`prompts.go:36-65`).
* Ends differ between the ways to translate: a refusal or an incomplete answer is
  told by one of stream and whole answer only, and an upstream that ends without
  having said anything leaves an Anthropic client with a `message_delta` that no
  `message_start` came before (`stream_anthropic.go:366`, 472).

## The proofs

`GatewayProofs` proves, for any requests, credentials, plans, statuses and
bounds that satisfy the named assumptions of `Gateway` (`GatewayAssumption`,
`PlansAssumption`):

* `TypeCorrect`: `Spec => []TypeOK`;
* `AnswersAreNotSpliced`: `Spec => []SingleSource`.

`SingleSource` is not inductive: it says a client has heard at most one source,
and a step that sends bytes needs to know that nothing was sent before. The
inductive invariant `IInv` adds, for each request, `Delivered` (an uncommitted
handler has sent nothing; a committed one has sent bytes of its current attempt
under status 200) and `Position` (where in the code a handler can be committed,
and which outcomes fit the stages after an attempt). `DeliveryInvariant` is
`Spec => []IInv`; there is one lemma per action, and `HandlerStep` reduces a
handler's action to its own request.

`GatewayRecordProofs` goes on from there to what is recorded:

* `RecordsTellTheDelivery`: `Spec => []RecordMatchesDelivery`;
* `BothSidesClassAlike`: `Spec => []DashboardAgrees`;
* `RecordsAreFinal`: `Spec => RecordIsFinal`, an action property.

Its invariant `Records` has two parts for each request: `Told` (the client has the
answer whole exactly when the attempt that ended succeeded, and an outcome that is
no success names a category) and `Closed` (a row in its final state belongs to a
request past `FinishRequest`, or to one no handler runs, and unless it was reaped
its status is the outcome of the attempt). A reaped row never meets a late handler
because a daemon that is down or reaping runs none (`Down`). `Advance` reduces a
handler's step to its own request.

`MonitorHubProofs` proves `NoDoubleClose`, `Spec => []NoPanic`, for any number of
requests and pages and any buffer size. `NoPanic` alone says nothing of the next
close; the inductive invariant adds that whoever is in `subs` is a page being
served whose channel is open. Both closers take the page off `subs` in the same
critical section, and only `subscribe`, for a page without a handler, makes a
channel.

`RoutingProofs` proves, for any finite sets of providers, models, credentials and
group members, any bounds and any edits between the reads of a resolution:

* `TypeCorrect`: `Spec => []TypeOK`;
* `SecretsStayHome`: `Spec => []CredentialsStayHome`.

`CredentialsStayHome` speaks of the targets already built; the next one is built
from what the resolution read in earlier steps. `Home` says what those reads
leave behind: from the model's row to the target, the resolution's provider is
the provider of its model, and each credential of the rotated list belongs to
that provider. No edit can disturb it, because a row's provider never changes.
`Rest` types what the steps carry over (the group's list, the cursors, the
budget of edits). The tables are assumed finite, so that `ORDER BY` has a list to
return: `InOrderType` and `RotatedType` say what the ordered and the rotated
lists contain.

`AuthProofs` proves, for any requests, sources, passwords and bounds:

* `OneSetup`: `Spec => []SetupHappensOnce`;
* `SlotsAreGivenBack`: for a finite set of requests, the slots in use are as many as
  the requests that hold one, and at most `Slots`;
* `FewSessionsRemain`: for a finite set of requests,
  `Spec => []FewSessionsOutliveAChange`.

That an account exists when setup mode ends depends on the request that ends it
having seen one: `SetupInv` keeps that through the steps between, in which other
requests may claim, change the password or restart the daemon, and also that an
account nobody was counted for does not exist. For the slots, `Holders` is the set
of requests between taking and giving back, and each step adds or removes the one
request it is about. For the sessions, `FewStale` counts those that rest on an
earlier password together with the requests whose check was overtaken and that have
yet to insert theirs (`Late`): a change deletes all sessions and leaves late only
requests that hold a slot, and an insert turns one late request into one session.

`ProviderKeysProofs` proves, for any callers, batches, pools and bounds:

* `NoSecretTwice`: `Spec => []SecretsAreUnique`;
* `FirstStaysFirst`: `Spec => []PrimaryStaysFirst`.

The first rests on what `Valid` lets through being distinct and on the unique
index comparing every row with the pool; that rows are numbered in line order
needs that a finite set of lines has a line of each rank (`RanksNumber`). The
second is about renumbering from a stale list: `Ready` says that a call about to
renumber knows its target, was not at its front, and misses only keys younger
than it, which come after it at the same place; `Front` says that nothing else
sorts before the key that was moved last.

`ControlServerProofs` proves `DaemonIsReachable`, `Spec => []OneReachableDaemon`, for
any number of daemons, connections, starts and crashes. That one daemon serves
depends on what a second one finds when it starts: `Heard` keeps that a daemon
between its listen and its close has a socket that answers, so that a probe of the
path it holds refuses the other, and `Orderly` that, while no start or stop has
overlapped another nor a probe failed, at most one daemon is starting or stopping and beside one
that serves it is at its lstat or its probe. A killed daemon leaves its file and no
listener, and keeps all three.

`PromptRulesProofs` proves, for any requests, administrators, targets, edits and
failed loads (the rules at the start are finite, and give no target twice, as the
unique index of the table demands):

* `CacheFollowsTheTables`: `Spec => []CacheIsCurrent`;
* `TargetsHaveOneRule`: `Spec => []OneRulePerTarget`.

The argument is about the debt of an edit: between its write and its dropping of
the cache (`Dirty`) nothing is promised, and dropping it needs `promptMu`, which every
load holds (`Mutex`), so no load that read the tables before the write can store
after the drop. Without a debt the rows between the two statements of a load are
the table's (`LoadIsCurrent`). That no snapshot gives a target to two rules, even one
torn by an edit, holds because its first statement lists each rule once
(`LoadsAreSnapshots`, which rests on `RulesCanBeListed`: position and id order any
finite set of rules) and its second reads a table that has each target once
(`OneClaim`). `AdminsEdit`, `RequestMoves` and `LoadMoves` reduce the actions to what they do
to these pieces.

Model-checked only: liveness (`HeldOnlyByUpstream`, `CallsReturn`, `EndsAreSeen`,
`EveryoneIsAnswered`, `NoClientHangs`), which the prover does not reach under
fairness; the refinement `PromiseKept`; everything about streams and requests
(`StreamTranslate` and `RequestTranslate` fold over sequences, and what a fold
returns for every sequence needs an induction over data); and for now the
remaining invariants.

## What is not modelled

* *Configuration, cryptography, embedded assets*: read once, or pure. A credential
  that does not decrypt is a member of a constant set.
* *Admin pages other than the feed, CRUD endpoints, control operations*: decode,
  call the service, encode.
* *Aggregating telemetry queries*: plain reads of rows that `Gateway` writes.
* *Settings and the caveman skill*: rows of one table, a cache that only the periodic
  sync writes, and string work on the skill's text. `RequestTranslate` takes the
  prompts they yield as any.
* *Client keys*: inserted, revoked and looked up by single statements.
* *Creating and reordering groups and members, prefix conflicts*.
* *The HTTP server's own shutdown*, and the opening and migration of the database.
* *The command line's updates*, which read a row, fill in what was not given and
  write it back (`controlcli.go:72-107`): the last of two such calls wins.

What comes next: proofs of `ProviderKeys!ImportIsWholeOrNothing`, of
`PromptRules!ResolutionsFollowTheRules`, of the remaining invariants of `Gateway` and
of its refinement.
