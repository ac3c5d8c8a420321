--------------------------- MODULE StreamTranslate ---------------------------
(***************************************************************************)
(* A streamed answer on its way from an upstream that speaks one protocol to *)
(* a client that speaks another: the translators of stream_anthropic.go and  *)
(* stream_responses.go, alone and one behind the other, the proxy functions  *)
(* that drive them, and the collector that reads the tokens off the frames   *)
(* for the telemetry.                                                        *)
(*                                                                         *)
(* What is said is a list of numbered pieces; a piece stands for one         *)
(* fragment of text, of reasoning or of a tool's arguments. The client is a  *)
(* strict reader of its protocol that puts the pieces together again. An     *)
(* event of the upstream and all the frames it causes are one step, as the   *)
(* callback of scanSSE handles it before the next one is read.               *)
(***************************************************************************)
EXTENDS Naturals, FiniteSets, SequencesExt

CONSTANTS
    Routes,      \* the translations to run
    Reasons,     \* why a chat upstream may stop
    None,
    MaxEvents    \* bound: events an upstream sends before it ends

AllRoutes == {"anthropic_chat", "responses_chat", "chat_anthropic", "responses_anthropic"}

ASSUME StreamAssumption ==
    /\ Routes \subseteq AllRoutes
    /\ Reasons \subseteq {"stop", "length", "tool_calls", "content_filter"}
    /\ MaxEvents \in Nat
    /\ None \notin Nat \cup STRING

VARIABLES
    route,   \* the proxy function that runs
    up,      \* the upstream: what it said so far
    chat,    \* AnthropicToChatTranslator or ResponsesToChatTranslator
    msgs,    \* ChatToAnthropicTranslator
    client,  \* the client: what it put together
    col      \* SSEUsageCollector

vars == <<route, up, chat, msgs, client, col>>

ToChat == {"anthropic_chat", "responses_chat"}
Speaks(p) == CASE p = "anthropic" -> route = "anthropic_chat"
               [] p = "chat" -> route = "chat_anthropic"
               [] p = "responses" -> route \in {"responses_chat", "responses_anthropic"}

-----------------------------------------------------------------------------
(* Into chat chunks *)

Chunk == [role |-> FALSE, text |-> <<>>, think |-> <<>>, tools |-> <<>>,
          finish |-> None, input |-> None, output |-> None, done |-> FALSE]
Done == [Chunk EXCEPT !.done = TRUE]

ToolCall(i, ps) == [index |-> i, start |-> TRUE, ps |-> ps]
ToolArgs(i, ps) == [index |-> i, start |-> FALSE, ps |-> ps]

NewChat == [roleSent |-> FALSE, toolIndex |-> 0, byKey |-> <<>>, seen |-> {},
            finish |-> None, input |-> None, output |-> None, finished |-> FALSE]

Silent(t) == [t |-> t, out |-> <<>>]

\* delta: the first chunk that is sent names the role.
Emit(t, c) == [t |-> [t EXCEPT !.roleSent = TRUE], out |-> <<[c EXCEPT !.role = ~t.roleSent]>>]

\* terminal, finalChunk: the reason and the tokens, and [DONE].
Terminal(t, reason) ==
    [t |-> [t EXCEPT !.finished = TRUE],
     out |-> <<[Chunk EXCEPT !.finish = reason, !.input = t.input, !.output = t.output], Done>>]

\* An error of the upstream becomes text, and ends the stream.
ErrorText(t, ps) ==
    [t |-> [t EXCEPT !.roleSent = TRUE, !.finished = TRUE],
     out |-> <<[Chunk EXCEPT !.role = ~t.roleSent, !.text = ps, !.finish = "stop"], Done>>]

\* Mutation: the tool an event is about is always the last one.
ToolOfLast(t, key) == IF t.toolIndex = 0 THEN 0 ELSE t.toolIndex - 1

\* The tool an event is about: by its key, or the last one.
ToolOf(t, key) == IF key \in DOMAIN t.byKey THEN t.byKey[key]
                  ELSE IF t.toolIndex = 0 THEN 0 ELSE t.toolIndex - 1

\* A new tool takes the next index, and is found under its key from then on.
AddTool(t, key) ==
    IF key \in DOMAIN t.byKey THEN t
    ELSE [t EXCEPT !.toolIndex = @ + 1,
                   !.byKey = IF key = None THEN @
                             ELSE [k \in DOMAIN @ \cup {key} |-> IF k = key THEN t.toolIndex ELSE @[k]]]

IndexIn(t, key) == IF key \in DOMAIN t.byKey THEN t.byKey[key] ELSE t.toolIndex

\* anthropicStopToChat
StopToChat(stop) == CASE stop = "max_tokens" -> "length"
                      [] stop = "tool_use" -> "tool_calls"
                      [] stop = "refusal" -> "content_filter"
                      [] OTHER -> "stop"

\* Mutation: only a tool whose arguments were sent counts as one.
DefaultReasonSeen(t) == IF t.seen # {} THEN "tool_calls" ELSE "stop"

\* terminal: the reason when the upstream gives none.
DefaultReason(t) == IF t.toolIndex > 0 THEN "tool_calls" ELSE "stop"

\* AnthropicToChatTranslator.Finish and terminal
FinishAnthropic(t) == Terminal(t, IF t.finish # None THEN t.finish ELSE DefaultReason(t))

\* AnthropicToChatTranslator.FeedEvent
FeedAnthropic(t, e) ==
    IF t.finished THEN Silent(t) ELSE
    CASE e.type = "message_start" -> Silent([t EXCEPT !.input = e.input])
      [] e.type = "tool_start" ->
            LET i == IndexIn(t, e.key) IN
            Emit([AddTool(t, e.key) EXCEPT !.seen = @ \cup {i}],
                 [Chunk EXCEPT !.tools = <<ToolCall(i, <<>>)>>])
      [] e.type = "text" -> Emit(t, [Chunk EXCEPT !.text = e.ps])
      [] e.type = "think" -> Silent(t)
      [] e.type = "args" ->
            LET i == ToolOf(t, e.key)
                call == Emit(t, [Chunk EXCEPT !.tools = <<ToolCall(i, <<>>)>>])
                args == [Chunk EXCEPT !.tools = <<ToolArgs(i, e.ps)>>]
            IN IF i \in t.seen THEN Emit(t, args)
               ELSE [t |-> [call.t EXCEPT !.seen = @ \cup {i}], out |-> Append(call.out, args)]
      [] e.type = "message_delta" ->
            FinishAnthropic([t EXCEPT !.output = IF e.output # None THEN e.output ELSE @,
                                      !.finish = IF e.stop # None THEN StopToChat(e.stop) ELSE @])
      [] e.type = "end" -> FinishAnthropic(t)
      [] e.type = "error" -> ErrorText(t, e.ps)

\* ResponsesToChatTranslator.FeedEvent
FeedResponses(t, e) ==
    IF t.finished THEN Silent(t) ELSE
    CASE e.type = "text" -> Emit(t, [Chunk EXCEPT !.text = e.ps])
      [] e.type = "think" -> Emit(t, [Chunk EXCEPT !.think = e.ps])
      [] e.type = "tool_start" ->
            Emit(AddTool(t, e.key), [Chunk EXCEPT !.tools = <<ToolCall(IndexIn(t, e.key), <<>>)>>])
      [] e.type = "args" ->
            LET i == ToolOf(t, e.key) IN
            Emit([t EXCEPT !.seen = @ \cup {i}], [Chunk EXCEPT !.tools = <<ToolArgs(i, e.ps)>>])
      [] e.type = "tool_done" ->
            LET i == ToolOf(t, e.key) IN
            IF i \in t.seen \/ e.ps = <<>> THEN Silent(t)
            ELSE Emit([t EXCEPT !.seen = @ \cup {i}], [Chunk EXCEPT !.tools = <<ToolArgs(i, e.ps)>>])
      [] e.type = "completed" ->
            Terminal(IF e.input = None /\ e.output = None THEN t
                     ELSE [t EXCEPT !.input = e.input, !.output = e.output], DefaultReason(t))
      [] e.type = "end" -> Terminal(t, DefaultReason(t))
      [] e.type = "error" -> ErrorText(t, e.ps)

-----------------------------------------------------------------------------
(* Into Anthropic events: ChatToAnthropicTranslator *)

NewMsgs == [started |-> FALSE, next |-> 0, open |-> None, tools |-> <<>>, finished |-> FALSE]

Frame(type) == [type |-> type, index |-> None, kind |-> None, ps |-> <<>>,
                stop |-> None, input |-> None, output |-> None]
BlockStart(i, kind) == [Frame("content_block_start") EXCEPT !.index = i, !.kind = kind]
BlockDelta(i, kind, ps) == [Frame("content_block_delta") EXCEPT !.index = i, !.kind = kind, !.ps = ps]
BlockStop(i) == [Frame("content_block_stop") EXCEPT !.index = i]

\* chatFinishToAnthropic
StopToAnthropic(finish) == CASE finish = "length" -> "max_tokens"
                             [] finish = "tool_calls" -> "tool_use"
                             [] finish = "content_filter" -> "refusal"
                             [] OTHER -> "end_turn"

\* Mutation: a block is closed under the number the next one will have.
CloseBlockNext(a) ==
    IF a.m.open = None THEN a
    ELSE [m |-> [a.m EXCEPT !.open = None], out |-> Append(a.out, BlockStop(a.m.next))]

\* closeBlock: the open block is the last one that was started.
CloseBlock(a) ==
    IF a.m.open = None THEN a
    ELSE [m |-> [a.m EXCEPT !.open = None], out |-> Append(a.out, BlockStop(a.m.next - 1))]

StartBlock(a, kind) ==
    [m |-> [a.m EXCEPT !.open = kind, !.next = @ + 1], out |-> Append(a.out, BlockStart(a.m.next, kind))]

\* textFrames, thinkingFrames
Spoken(a, kind, ps) ==
    IF ps = <<>> THEN a ELSE
    LET b == IF a.m.open = kind THEN a ELSE StartBlock(CloseBlock(a), kind)
    IN  [b EXCEPT !.out = Append(@, BlockDelta(b.m.next - 1, kind, ps))]

\* toolFrames: a call is found again under its index in the chat chunks.
ToolFrames(a, call) ==
    LET i == IF call.index = None THEN 0 ELSE call.index
        known == i \in DOMAIN a.m.tools
        n == CloseBlock(a).m.next
        b == IF known THEN a ELSE
             LET c == StartBlock(CloseBlock(a), "tool")
             IN  [c EXCEPT !.m.tools = [k \in DOMAIN @ \cup {i} |-> IF k = i THEN n ELSE @[k]]]
    IN  IF call.ps = <<>> THEN b
        ELSE [b EXCEPT !.out = Append(@, BlockDelta(b.m.tools[i], "tool", call.ps))]

\* closeFrames
CloseFrames(a, stop, output) ==
    LET b == CloseBlock(a)
    IN  [m |-> [b.m EXCEPT !.finished = TRUE],
         out |-> b.out \o <<[Frame("message_delta") EXCEPT !.stop = stop, !.output = output],
                           Frame("message_stop")>>]

\* Finish
FinishMsgs(m) ==
    IF m.finished THEN [m |-> m, out |-> <<>>]
    ELSE CloseFrames([m |-> m, out |-> <<>>], "end_turn", None)

\* FeedChunk
FeedChunk(m, c) ==
    IF m.finished THEN [m |-> m, out |-> <<>>] ELSE
    LET a0 == [m |-> [m EXCEPT !.started = TRUE],
               out |-> IF m.started THEN <<>>
                       ELSE <<[Frame("message_start") EXCEPT !.input = 0, !.output = 0]>>]
        a1 == Spoken(Spoken(a0, "text", c.text), "think", c.think)
        a2 == FoldLeft(ToolFrames, a1, c.tools)
    IN  IF c.finish = None THEN a2 ELSE CloseFrames(a2, StopToAnthropic(c.finish), c.output)

-----------------------------------------------------------------------------
(* The same answer in one piece *)

TextOf(parts) == FoldLeft(LAMBDA acc, p : acc \o p.ps, <<>>, SelectSeq(parts, LAMBDA p : p.kind = "text"))
CallsOf(parts) == LET tools == SelectSeq(parts, LAMBDA p : p.kind = "tool")
                  IN  [i \in DOMAIN tools |-> tools[i].ps]

Answer(parts, finish) == [text |-> TextOf(parts), calls |-> CallsOf(parts), finish |-> finish]

\* TranslateAnthropicToChatObject
AnthropicObject(parts, stop) ==
    Answer(parts, CASE CallsOf(parts) # <<>> \/ stop = "tool_use" -> "tool_calls"
                    [] CallsOf(parts) = <<>> /\ stop = "max_tokens" -> "length"
                    [] OTHER -> "stop")

\* TranslateResponsesToChat
ResponsesObject(parts, status) ==
    Answer(parts, CASE CallsOf(parts) # <<>> -> "tool_calls"
                    [] CallsOf(parts) = <<>> /\ status = "incomplete" -> "length"
                    [] OTHER -> "stop")

\* TranslateChatToAnthropicObject
ChatObject(answer) == [answer EXCEPT !.finish = CASE @ = "length" -> "max_tokens"
                                                 [] @ = "tool_calls" -> "tool_use"
                                                 [] @ = "content_filter" -> "refusal"
                                                 [] OTHER -> "end_turn"]

\* The unary function of each route.
Unary(parts, stop) ==
    CASE route = "anthropic_chat" -> AnthropicObject(parts, stop)
      [] route = "responses_chat" -> ResponsesObject(parts, stop)
      [] route = "chat_anthropic" -> ChatObject(Answer(parts, stop))
      [] route = "responses_anthropic" -> ChatObject(ResponsesObject(parts, stop))

-----------------------------------------------------------------------------
(* SSEUsageCollector: the protocol is the client's *)

NewCollector == [got |-> FALSE, input |-> None, output |-> None]

\* Mutation: the first count that is seen is kept.
ObserveFirst(c, f) ==
    [got |-> c.got \/ f.input # None \/ f.output # None,
     input |-> IF c.input # None THEN c.input ELSE f.input,
     output |-> IF c.output # None THEN c.output ELSE f.output]

\* Observe and merge, of a frame that carries tokens.
Observe(c, f) ==
    [got |-> c.got \/ f.input # None \/ f.output # None,
     input |-> IF f.input # None THEN f.input ELSE c.input,
     output |-> IF f.output # None THEN f.output ELSE c.output]

-----------------------------------------------------------------------------
(* The client: puts the pieces together and checks the order of the frames *)

NewClient == [parts |-> <<>>, at |-> <<>>, open |-> 0, begun |-> FALSE, stop |-> None,
              ended |-> FALSE, ok |-> TRUE, late |-> FALSE]

\* Text goes to the last part if that is of its kind, to a new one otherwise.
AddPieces(parts, kind, ps) ==
    CASE ps = <<>> -> parts
      [] ps # <<>> /\ parts # <<>> /\ Last(parts).kind = kind ->
            [parts EXCEPT ![Len(parts)].ps = @ \o ps]
      [] OTHER -> Append(parts, [kind |-> kind, ps |-> ps])

NewTool(parts) == Append(parts, [kind |-> "tool", ps |-> <<>>])

\* A tool's first mention names it and has the next index; the arguments that
\* follow are of a tool that was named.
HearTool(c, call) ==
    LET b == IF ~call.start THEN c
             ELSE [c EXCEPT !.parts = NewTool(@), !.at = Append(@, Len(c.parts) + 1),
                            !.ok = @ /\ call.index = Len(c.at)]
        known == call.index + 1 \in DOMAIN b.at
    IN  [b EXCEPT !.ok = @ /\ known,
                  !.parts = IF known THEN [@ EXCEPT ![b.at[call.index + 1]].ps = @ \o call.ps] ELSE @]

\* A chat client: the role comes first and once, one reason, then [DONE].
HearChunk(c, f) ==
    IF f.done THEN [c EXCEPT !.ok = @ /\ c.stop # None /\ ~c.ended, !.ended = TRUE]
    ELSE LET speaks == f.text # <<>> \/ f.think # <<>> \/ f.tools # <<>>
             b == [c EXCEPT !.ok = @ /\ ~c.ended /\ c.stop = None /\ ~(f.role /\ c.begun)
                                     /\ (speaks => f.role \/ c.begun),
                            !.begun = @ \/ f.role,
                            !.stop = IF f.finish # None THEN f.finish ELSE @,
                            !.parts = AddPieces(AddPieces(@, "text", f.text), "think", f.think)]
         IN  FoldLeft(HearTool, b, f.tools)

\* An Anthropic client: blocks are numbered, opened and closed one by one.
HearFrame(c, f) ==
    CASE f.type = "message_start" -> [c EXCEPT !.ok = @ /\ ~c.begun, !.begun = TRUE]
      [] f.type = "content_block_start" ->
            [c EXCEPT !.ok = @ /\ c.begun /\ c.open = 0 /\ c.stop = None /\ f.index = Len(c.parts),
                      !.open = f.index + 1,
                      !.parts = Append(@, [kind |-> f.kind, ps |-> <<>>])]
      [] f.type = "content_block_delta" ->
            LET known == f.index + 1 \in DOMAIN c.parts /\ c.parts[f.index + 1].kind = f.kind IN
            [c EXCEPT !.ok = @ /\ known /\ c.stop = None,
                      !.late = @ \/ c.open # f.index + 1,
                      !.parts = IF known THEN [@ EXCEPT ![f.index + 1].ps = @ \o f.ps] ELSE @]
      [] f.type = "content_block_stop" ->
            [c EXCEPT !.ok = @ /\ c.open = f.index + 1, !.open = 0]
      [] f.type = "message_delta" ->
            [c EXCEPT !.ok = @ /\ c.begun /\ c.open = 0 /\ c.stop = None, !.stop = f.stop]
      [] f.type = "message_stop" ->
            [c EXCEPT !.ok = @ /\ c.stop # None /\ ~c.ended, !.ended = TRUE]

-----------------------------------------------------------------------------
(* The upstream, and the steps *)

NewUpstream == [n |-> 0, parts |-> <<>>, at |-> <<>>, streamed |-> {}, over |-> {},
                named |-> TRUE, tidy |-> TRUE, spoke |-> FALSE, phase |-> "talking",
                last |-> FALSE, stop |-> None, input |-> None, output |-> None, trailed |-> None,
                failed |-> FALSE]

Event(type) == [type |-> type, key |-> None, ps |-> <<>>, stop |-> None,
                input |-> None, output |-> None]

Init ==
    /\ route \in Routes
    /\ up \in {[NewUpstream EXCEPT !.named = b] : b \in {TRUE, route \notin {"responses_chat", "responses_anthropic"}}}
    /\ chat = NewChat
    /\ msgs = NewMsgs
    /\ client = NewClient
    /\ col = NewCollector

\* writeFrames: to the client, then to the collector.
Write(frames) ==
    /\ client' = IF route \in ToChat THEN FoldLeft(HearChunk, client, frames)
                 ELSE FoldLeft(HearFrame, client, frames)
    /\ col' = FoldLeft(Observe, col, frames)

\* The callback of ProxyResponsesInletStream: each chunk of the first
\* translator goes to the second; its [DONE] is dropped.
ThroughBoth(r) ==
    LET chunks == SelectSeq(r.out, LAMBDA c : ~c.done)
        pass(a, c) == LET b == FeedChunk(a.m, c) IN [m |-> b.m, out |-> a.out \o b.out]
        s == FoldLeft(pass, [m |-> msgs, out |-> <<>>], chunks)
    IN  chat' = r.t /\ msgs' = s.m /\ Write(s.out)

\* An event of the upstream: scanSSE hands it to the callback of the proxy.
Feed(e) ==
    CASE route = "anthropic_chat" ->
            LET r == FeedAnthropic(chat, e) IN chat' = r.t /\ Write(r.out) /\ UNCHANGED msgs
      [] route = "responses_chat" ->
            LET r == FeedResponses(chat, e) IN chat' = r.t /\ Write(r.out) /\ UNCHANGED msgs
      [] route = "responses_anthropic" -> ThroughBoth(FeedResponses(chat, e))

FeedChat(c) ==
    LET r == FeedChunk(msgs, c) IN msgs' = r.m /\ Write(r.out) /\ UNCHANGED chat

Piece == <<up.n>>
Sending == up.phase = "talking" /\ up.n < MaxEvents
Talking == Sending /\ ~up.last
Spends == [up EXCEPT !.n = @ + 1, !.spoke = TRUE]

\* A fragment of the answer or of the reasoning. Reasoning that an Anthropic
\* upstream streams has no place in a chat answer.
Text ==
    /\ Talking
    /\ up' = [Spends EXCEPT !.parts = AddPieces(@, "text", Piece)]
    /\ IF Speaks("chat") THEN FeedChat([Chunk EXCEPT !.text = Piece])
       ELSE Feed([Event("text") EXCEPT !.ps = Piece])
    /\ UNCHANGED route

Think ==
    /\ Talking
    /\ up' = [Spends EXCEPT !.parts = IF Speaks("anthropic") THEN @ ELSE AddPieces(@, "think", Piece)]
    /\ IF Speaks("chat") THEN FeedChat([Chunk EXCEPT !.think = Piece])
       ELSE Feed([Event("think") EXCEPT !.ps = Piece])
    /\ UNCHANGED route

\* A tool call is opened; a chat upstream may send arguments with it, and may
\* leave out the index of the first one.
ToolStart ==
    /\ Talking
    /\ \E ps \in {<<>>, Piece}, key \in {Len(up.at), None} :
          /\ ps # <<>> => Speaks("chat")
          /\ key = None => Speaks("chat") /\ up.at = <<>>
          /\ up' = [Spends EXCEPT !.at = Append(@, Len(up.parts) + 1),
                                  !.parts = Append(@, [kind |-> "tool", ps |-> ps])]
          /\ IF Speaks("chat")
             THEN FeedChat([Chunk EXCEPT !.tools = <<[ToolCall(0, ps) EXCEPT !.index = key]>>])
             ELSE Feed([Event("tool_start") EXCEPT
                          !.key = IF Speaks("anthropic") THEN Len(up.parts) ELSE key])
    /\ UNCHANGED route

\* Arguments of a tool: of any open one where the protocol names it, of the
\* last one otherwise. Only chat and Responses upstreams go back to a tool.
ToolArguments ==
    /\ Talking
    /\ \E j \in 1..Len(up.at) :
          LET isLast == up.at[j] = Len(up.parts) IN
          /\ Speaks("anthropic") \/ ~up.named => isLast
          /\ j \notin up.over
          /\ up' = [Spends EXCEPT !.parts[up.at[j]].ps = @ \o Piece, !.streamed = @ \cup {j},
                                  !.tidy = @ /\ isLast]
          /\ IF Speaks("chat") THEN FeedChat([Chunk EXCEPT !.tools = <<ToolArgs(j - 1, Piece)>>])
             ELSE Feed([Event("args") EXCEPT !.ps = Piece,
                          !.key = CASE Speaks("anthropic") -> up.at[j] - 1
                                    [] Speaks("responses") -> IF up.named THEN j - 1 ELSE None])
    /\ UNCHANGED route

\* response.output_item.done repeats the arguments, or brings them.
ToolDone ==
    /\ Talking /\ Speaks("responses")
    /\ \E j \in (1..Len(up.at)) \ up.over :
          LET isLast == up.at[j] = Len(up.parts)
              fresh == j \notin up.streamed
              ps == IF fresh THEN Piece ELSE up.parts[up.at[j]].ps
          IN  /\ ~up.named => isLast
              /\ up' = [Spends EXCEPT !.over = @ \cup {j}, !.parts[up.at[j]].ps = ps,
                                      !.tidy = @ /\ (fresh => isLast)]
              /\ Feed([Event("tool_done") EXCEPT !.ps = ps, !.key = IF up.named THEN j - 1 ELSE None])
    /\ UNCHANGED route

\* An Anthropic upstream's message_start, a chat upstream's first chunk.
Opening ==
    /\ Talking /\ up.n = 0 /\ route # "responses_chat" /\ route # "responses_anthropic"
    /\ up' = [Spends EXCEPT !.input = IF Speaks("anthropic") THEN 5 ELSE @]
    /\ IF Speaks("chat") THEN FeedChat([Chunk EXCEPT !.role = TRUE])
       ELSE Feed([Event("message_start") EXCEPT !.input = 5])
    /\ UNCHANGED route

\* Why the upstream stops, in its words, and the chat reason it stands for.
Stops == CASE Speaks("chat") -> Reasons
           [] Speaks("anthropic") -> {"end_turn", "max_tokens", "tool_use", "refusal", None}
           [] Speaks("responses") -> {"completed", "incomplete"}

\* The last event: finish_reason, message_delta or message_stop, and
\* response.completed or response.incomplete, with or without the tokens. A
\* chat upstream may finish in a chunk that also brings a last fragment.
Finish ==
    /\ Talking
    /\ \E stop \in Stops, counted, rest \in BOOLEAN :
          LET output == IF counted THEN 7 ELSE None
              input == IF counted THEN 5 ELSE None
              ps == IF rest THEN Piece ELSE <<>>
          IN  /\ rest => Speaks("chat")
              /\ up' = [Spends EXCEPT !.last = TRUE, !.stop = stop,
                                      !.parts = AddPieces(@, "text", ps), !.output = output,
                                      !.input = IF Speaks("anthropic") THEN @ ELSE input]
              /\ CASE Speaks("chat") ->
                        FeedChat([Chunk EXCEPT !.text = ps, !.finish = stop, !.input = input,
                                               !.output = output])
                   [] Speaks("anthropic") ->
                        Feed(IF stop = None /\ ~counted THEN Event("end")
                             ELSE [Event("message_delta") EXCEPT !.stop = stop, !.output = output])
                   [] Speaks("responses") ->
                        Feed([Event("completed") EXCEPT !.input = input, !.output = output])
    /\ UNCHANGED route

\* error, response.failed: the message is one more fragment of text.
Error ==
    /\ Talking /\ ~Speaks("chat")
    /\ up' = [Spends EXCEPT !.last = TRUE, !.failed = TRUE,
                            !.parts = AddPieces(@, "text", Piece)]
    /\ Feed([Event("error") EXCEPT !.ps = Piece])
    /\ UNCHANGED route

\* What follows the end: message_stop, or the chunk without choices in which a
\* chat upstream counts the tokens.
Trailer ==
    /\ Sending /\ up.last /\ ~Speaks("responses")
    /\ up' = IF Speaks("chat") THEN [Spends EXCEPT !.trailed = 7] ELSE Spends
    /\ IF Speaks("chat") THEN FeedChat([Chunk EXCEPT !.input = 5, !.output = 7]) ELSE Feed(Event("end"))
    /\ UNCHANGED route

\* [DONE] or the end of the body: Finish. It may come before any last event.
EndOfBody ==
    /\ up.phase = "talking"
    /\ up' = [up EXCEPT !.phase = "ended"]
    /\ CASE route = "anthropic_chat" ->
              LET r == IF chat.finished THEN Silent(chat) ELSE FinishAnthropic(chat) IN
              chat' = r.t /\ Write(r.out) /\ UNCHANGED msgs
         [] route = "responses_chat" ->
              LET r == IF chat.finished THEN Silent(chat) ELSE Terminal(chat, DefaultReason(chat)) IN
              chat' = r.t /\ Write(r.out) /\ UNCHANGED msgs
         [] OTHER -> LET r == FinishMsgs(msgs) IN msgs' = r.m /\ Write(r.out) /\ UNCHANGED chat
    /\ UNCHANGED route

\* Mutation: the translator is finished however scanSSE returns.
BreakFinished ==
    /\ up.phase = "talking"
    /\ up' = [up EXCEPT !.phase = "broken"]
    /\ LET r == IF route \in ToChat THEN [m |-> msgs, out |-> <<>>] ELSE FinishMsgs(msgs)
       IN  msgs' = r.m /\ Write(r.out)
    /\ UNCHANGED <<route, chat>>

\* The connection breaks: scanSSE returns the error, nothing more is written.
Break ==
    /\ up.phase = "talking"
    /\ up' = [up EXCEPT !.phase = "broken"]
    /\ UNCHANGED <<route, chat, msgs, client, col>>

Next ==
    \/ Opening \/ Text \/ Think \/ ToolStart \/ ToolArguments \/ ToolDone
    \/ Finish \/ Error \/ Trailer \/ EndOfBody \/ Break

Spec == Init /\ [][Next]_vars

-----------------------------------------------------------------------------
(* Properties *)

\* Every fragment reaches the client once, in order, as what it was said to
\* be, and in the tool call it belongs to, however the upstream's tool calls
\* are keyed and interleaved.
AnswerArrives == client.parts = up.parts

\* The client never hears a frame its protocol does not allow at that place,
\* as long as the upstream says anything at all; only a fragment for a tool
\* call the upstream had left behind reaches a block that is closed.
FramesAreAccepted ==
    /\ client.ok \/ ~up.spoke
    /\ client.late => ~up.tidy

\* An answer that was cut off never looks complete, and one that was not does:
\* the client has heard an end when the upstream sent its last event or ended
\* its body, and not when the connection broke before.
EndMeansEnd == client.ended <=> (up.last \/ up.phase = "ended")

\* A client that does not stream is given the same answer: the same text, the
\* same calls with the same arguments, the same reason. The reason differs for
\* a refusal and for a cut answer of a Responses upstream, which only one of
\* the two ways tells, and where an Anthropic upstream calls tools and gives
\* another reason.
StreamAgreesWithUnary ==
    client.ended /\ ~up.failed /\ (up.last \/ ~Speaks("responses")) =>
      LET unary == Unary(up.parts, up.stop) IN
      /\ TextOf(client.parts) = unary.text
      /\ CallsOf(client.parts) = unary.calls
      /\ \/ client.stop = unary.finish
         \/ up.stop \in {"refusal", "incomplete"}
         \/ Speaks("anthropic") /\ unary.calls # <<>> /\ up.stop \notin {None, "tool_use"}

\* The tokens on record are those the upstream reports with its end: both counts
\* for a chat client, whoever translates; of an Anthropic client's stream only the
\* count of the answer, since its message_start is sent before the upstream has
\* counted the request (merge keeps the last count of each kind).
TokensAreRecorded ==
    up.last /\ ~up.failed =>
      IF route \in ToChat THEN col.input = up.input /\ col.output = up.output
      ELSE up.output # None => col.output = up.output

\* README.md:316-317: "token usage when the upstream reports it". Of a stream
\* that has ended, every count the upstream reported is on record, whether it
\* came with the last choice or in the chunk after it.
UsageIsRecorded ==
    up.phase = "ended" /\ up.last /\ ~up.failed =>
      /\ up.input # None => col.input = up.input
      /\ up.output # None => col.output = up.output
      /\ up.trailed # None => col.output = up.trailed

=============================================================================
