-------------------------- MODULE RequestTranslate --------------------------
(***************************************************************************)
(* A request on its way to the upstreams of its plan: what the gateway       *)
(* handler does to the body before the loop over the targets (foreign        *)
(* fields, the suffix of the model name), and for every target again, from   *)
(* the kept body: the prompts it injects and the translation into the        *)
(* target's protocol.                                                        *)
(*                                                                         *)
(* The bodies are records with the fields of all three protocols. A message  *)
(* is a role and a sequence of parts; a part is a kind and a value that      *)
(* stands for its data, a tool call is its id, a tool result the id it is    *)
(* for and what it says: one text (plain), or parts. A text that is the JSON *)
(* of something is a part that holds it. Texts that are joined stay a list;  *)
(* those of a message are not empty, and arguments are objects.              *)
(***************************************************************************)
EXTENDS Naturals, SequencesExt

CONSTANTS
    Requests,    \* what clients send: [proto, suffix, body]
    Segments,    \* what the prompt rules may resolve to
    None,
    MaxTargets   \* bound: targets tried for one request

ASSUME RequestAssumption ==
    /\ \A r \in Requests : r.proto \in {"chat", "anthropic"}
    /\ \A s \in Segments : Range(s) \cap {"global", "caveman"} = {}
    /\ MaxTargets \in Nat

VARIABLES
    request,  \* as the client sent it
    base,     \* baseBody of a chat request, baseRawBody of an Anthropic one
    prompts,  \* globalPrompt and cavemanPrompt
    sent      \* what each target received, and the prompts it was to have

vars == <<request, base, prompts, sent>>

Schemes == {"chat", "anthropic", "responses"}

\* A Responses body has its instructions in system, its input in messages.

Part(kind, v) == [kind |-> kind, v |-> v, of |-> None, plain |-> FALSE, parts |-> <<>>]
Result(of, plain, parts) ==
    [Part("result", None) EXCEPT !.of = of, !.plain = plain, !.parts = parts]
JSONText(parts) == [Part("json", None) EXCEPT !.parts = parts]

\* In a chat message calls and reasoning are fields of their own; a message of
\* role tool holds the one result it is.
Message(role, content) == [role |-> role, content |-> content, calls |-> <<>>, think |-> <<>>]

Empty == [system |-> <<>>, messages |-> <<>>, tools |-> <<>>, tool_choice |-> None, stop |-> <<>>,
          temperature |-> None, max_tokens |-> None, max_completion_tokens |-> None,
          max_output_tokens |-> None, reasoning_effort |-> None, reasoning |-> None,
          thinking |-> None, output_config |-> None]

OfKinds(ps, kinds) == SelectSeq(ps, LAMBDA p : p.kind \in kinds)
Values(ps) == [i \in DOMAIN ps |-> ps[i].v]
Concat(f(_), s) == FlattenSeq([i \in DOMAIN s |-> f(s[i])])

-----------------------------------------------------------------------------
(* Reasoning effort *)

NormalizeEffort(e) ==
    CASE e \in {"off", "none", "disabled"} -> "none"
      [] e \in {"min", "minimal"} -> "minimal"
      [] e \in {"low", "medium", "high", "xhigh", "max"} -> e
      [] e = "ultra" -> "xhigh"
      [] e = "adaptive" -> "high"
      [] OTHER -> None

BudgetToLevel(n) ==
    CASE n = 0 -> "none"
      [] n \in 1..768 -> "minimal"
      [] n \in 769..4096 -> "low"
      [] n \in 4097..16384 -> "medium"
      [] n \in 16385..28672 -> "high"
      [] n \in 28673..32768 -> "xhigh"
      [] n > 32768 -> "max"

\* ParseThinkingSuffix: the effort in "model(effort)". What is no effort is
\* part of the model's name, and that model is not found.
SuffixEffort(s) == IF s.budget # None THEN BudgetToLevel(s.budget) ELSE NormalizeEffort(s.word)
NamesEffort(s) == s.word = "auto" \/ SuffixEffort(s) # None

ExtractChatEffort(b) ==
    IF NormalizeEffort(b.reasoning_effort) # None THEN NormalizeEffort(b.reasoning_effort)
    ELSE NormalizeEffort(b.reasoning)

IsOff(b) == b.thinking # None /\ b.thinking.type = "disabled"

\* What output_config or, if that says nothing, thinking asks for; "auto" asks
\* for nothing.
EnabledEffort(b) ==
    LET level == NormalizeEffort(b.output_config) IN
    IF level # None THEN level
    ELSE IF b.output_config = "auto" \/ b.thinking = None THEN None
    ELSE IF NormalizeEffort(b.thinking.effort) # None THEN NormalizeEffort(b.thinking.effort)
    ELSE IF b.thinking.budget = 0 THEN None ELSE BudgetToLevel(b.thinking.budget)

\* Mutation: an effort in output_config wins over disabled thinking.
ExtractAnthropicEffortLax(b) ==
    IF EnabledEffort(b) = None /\ IsOff(b) THEN "none" ELSE EnabledEffort(b)

\* Disabled thinking wins.
ExtractAnthropicEffort(b) == IF IsOff(b) THEN "none" ELSE EnabledEffort(b)

Thinking(type) == [type |-> type, effort |-> None, budget |-> 0]

\* MapChatEffortToAnthropic, SetAnthropicThinking: Anthropic has no "minimal".
SetAnthropicThinking(b, effort) ==
    IF effort = "none" THEN [b EXCEPT !.thinking = Thinking("disabled"), !.output_config = None]
    ELSE [b EXCEPT !.thinking = Thinking("adaptive"),
                   !.output_config = IF effort = "minimal" THEN "low" ELSE effort]

SetChatEffort(b, effort) == [b EXCEPT !.reasoning_effort = effort]

ClampEffort(e) == IF e \in {"max", "ultra"} THEN "xhigh" ELSE e

StripChatForeign(b) == [b EXCEPT !.thinking = None, !.output_config = None]
StripAnthropicForeign(b) == [b EXCEPT !.reasoning_effort = None, !.reasoning = None]

-----------------------------------------------------------------------------
(* The request translators *)

IsSystem(m) == m.role \in {"system", "developer"}
SystemTexts(m) == Values(OfKinds(m.content, {"text"}))

\* The system texts of a chat body, joined into one.
SystemOf(ms) == Concat(SystemTexts, SelectSeq(ms, IsSystem))

\* chatContentToAnthropic, toolResultContent: there is no audio, and the
\* reasoning of earlier answers stays behind. A result nothing is left of is
\* the empty text.
AnthropicTurn(m) ==
    LET kept(ps) == OfKinds(ps, {"text", "image", "file"})
        r == m.content[1]
    IN  IF m.role = "tool"
        THEN Message("user", <<[r EXCEPT !.parts = kept(@), !.plain = @ \/ kept(r.parts) = <<>>]>>)
        ELSE Message(m.role, kept(m.content) \o m.calls)

\* flush: what the same side says next joins its turn.
Flush(ms, t) ==
    CASE t.content = <<>> -> ms
      [] t.content # <<>> /\ ms # <<>> /\ Last(ms).role = t.role ->
            [ms EXCEPT ![Len(ms)].content = @ \o t.content]
      [] OTHER -> Append(ms, t)

Named(tools) == SelectSeq(tools, LAMBDA name : name # "")

ChoiceToAnthropic(choice) ==
    CASE choice = "required" -> "any"
      [] choice \in {None, "none", "auto", "tool"} -> choice
      [] OTHER -> "auto"

FirstOf(s) == LET given == SelectSeq(s, LAMBDA x : x # None)
              IN  IF given = <<>> THEN None ELSE given[1]

defaultAnthropicMaxTokens == 4096

ChatToAnthropic(b) ==
    LET turns == SelectSeq(b.messages, LAMBDA m : ~IsSystem(m))
        budget == FirstOf(<<b.max_tokens, b.max_completion_tokens, b.max_output_tokens>>)
        out == [Empty EXCEPT
                  !.system = SystemOf(b.messages),
                  !.messages = FoldLeft(LAMBDA ms, m : Flush(ms, AnthropicTurn(m)), <<>>, turns),
                  !.tools = Named(b.tools),
                  !.tool_choice = ChoiceToAnthropic(b.tool_choice),
                  !.stop = b.stop,
                  !.temperature = b.temperature,
                  !.max_tokens = IF budget = None THEN defaultAnthropicMaxTokens ELSE budget]
    IN  IF ExtractChatEffort(b) = None THEN out ELSE SetAnthropicThinking(out, ExtractChatEffort(b))

\* chatToolResultContent: texts are joined into one, and come before media. What
\* would be an empty text becomes the JSON of the result's content.
ToolMessage(p) ==
    LET media == OfKinds(p.parts, {"image", "file"})
        texts == OfKinds(p.parts, {"text"})
        plain == IF p.parts = <<>> THEN p.plain ELSE media = <<>>
    IN  Message("tool", <<Result(p.of, plain, IF plain /\ texts = <<>> THEN <<JSONText(p.parts)>>
                                              ELSE texts \o media)>>)

\* Mutation: a message with nothing but tool results is skipped.
ChatTurnsBare(m) ==
    LET parts == OfKinds(m.content, {"image", "file"}) \o OfKinds(m.content, {"text"})
        calls == OfKinds(m.content, {"call"})
        think == OfKinds(m.content, {"think"})
        results == OfKinds(m.content, {"result"})
    IN  IF parts \o calls \o think = <<>> THEN <<>>
        ELSE <<[Message(m.role, parts) EXCEPT !.calls = calls, !.think = think]>>
               \o [i \in DOMAIN results |-> ToolMessage(results[i])]

\* One Anthropic message: what is said, media before texts, and then a tool
\* message for each result. A document that is a link, and reasoning that is
\* redacted, are not carried over.
ChatTurns(m) ==
    LET parts == OfKinds(m.content, {"image", "file"}) \o OfKinds(m.content, {"text"})
        calls == OfKinds(m.content, {"call"})
        think == OfKinds(m.content, {"think"})
        results == OfKinds(m.content, {"result"})
        spoken == IF parts \o calls \o think = <<>> THEN <<>>
                  ELSE <<[Message(m.role, parts) EXCEPT !.calls = calls, !.think = think]>>
    IN  spoken \o [i \in DOMAIN results |-> ToolMessage(results[i])]

ChoiceToChat(choice) ==
    CASE choice = "any" -> "required"
      [] choice \in {None, "none", "auto", "tool"} -> choice
      [] OTHER -> "auto"

SystemMessage(vs) == Message("system", [i \in DOMAIN vs |-> Part("text", vs[i])])

AnthropicToChat(b) ==
    [Empty EXCEPT
       !.messages = (IF b.system = <<>> THEN <<>> ELSE <<SystemMessage(b.system)>>)
                      \o Concat(ChatTurns, b.messages),
       !.tools = Named(b.tools),
       !.tool_choice = ChoiceToChat(b.tool_choice),
       !.stop = b.stop,
       !.temperature = b.temperature,
       !.max_tokens = b.max_tokens,
       !.reasoning_effort = ExtractAnthropicEffort(b)]

\* A result's output is a text: its own, or the JSON of what it says, which is
\* also what an empty text becomes.
Output(r) == IF r.plain /\ r.parts # <<>> THEN r
             ELSE [r EXCEPT !.plain = TRUE, !.parts = <<JSONText(r.parts)>>]

\* The input items of a chat message.
InputItems(m) ==
    CASE IsSystem(m) -> <<Message("developer", OfKinds(m.content, {"text"}))>>
      [] m.role = "tool" -> <<Message("tool", <<Output(m.content[1])>>)>>
      [] OTHER ->
            (IF m.think = <<>> THEN <<>> ELSE <<Message("assistant", m.think)>>)
              \o (IF m.content = <<>> THEN <<>> ELSE <<Message(m.role, m.content)>>)
              \o [i \in DOMAIN m.calls |-> Message("assistant", <<m.calls[i]>>)]

\* Mutation: only the newest name of the token budget is known.
TokenBudgetNew(b) == b.max_output_tokens

TokenBudget(b) == FirstOf(<<b.max_output_tokens, b.max_completion_tokens, b.max_tokens>>)

\* The first system message becomes the instructions, the others messages of
\* the developer; stop sequences have no equivalent.
ChatToResponses(b) ==
    LET at == SelectInSeq(b.messages, IsSystem)
        rest == IF at = 0 THEN b.messages ELSE RemoveAt(b.messages, at)
    IN  [Empty EXCEPT
           !.system = IF at = 0 THEN <<>> ELSE SystemTexts(b.messages[at]),
           !.messages = Concat(InputItems, rest),
           !.tools = Named(b.tools),
           !.tool_choice = b.tool_choice,
           !.temperature = b.temperature,
           !.max_output_tokens = TokenBudget(b),
           !.reasoning = IF b.reasoning_effort # None THEN ClampEffort(b.reasoning_effort) ELSE b.reasoning]

\* proxyStream, proxyUnary: the translations between client and upstream.
Translate(proto, scheme, b) ==
    CASE proto = scheme -> b
      [] proto = "chat" /\ scheme = "anthropic" -> ChatToAnthropic(b)
      [] proto = "chat" /\ scheme = "responses" -> ChatToResponses(b)
      [] proto = "anthropic" /\ scheme = "chat" -> AnthropicToChat(b)
      [] proto = "anthropic" /\ scheme = "responses" -> ChatToResponses(AnthropicToChat(b))

-----------------------------------------------------------------------------
(* Prompts *)

\* InjectChatPrompt: after the last message whose role is system.
InjectChatPrompt(b, prompt) ==
    LET at == SelectLastInSeq(b.messages, LAMBDA m : m.role = "system")
    IN  [b EXCEPT !.messages = InsertAt(@, at + 1, SystemMessage(<<prompt>>))]

InjectAnthropicPrompt(b, prompt) == [b EXCEPT !.system = Append(@, prompt)]

\* injectPromptSegments
InjectPromptSegments(proto, b, texts) ==
    FoldLeft(LAMBDA c, t : IF proto = "anthropic" THEN InjectAnthropicPrompt(c, t) ELSE InjectChatPrompt(c, t),
             b, texts)

-----------------------------------------------------------------------------
(* The handler *)

\* The body that is kept: without the other protocol's fields, and with the
\* effort the model's suffix asks for.
Prepared(r) ==
    LET clean == IF r.proto = "chat" THEN StripChatForeign(r.body) ELSE StripAnthropicForeign(r.body)
        effort == IF r.suffix = None THEN None ELSE SuffixEffort(r.suffix)
    IN  CASE effort = None -> clean
          [] effort # None /\ r.proto = "chat" -> SetChatEffort(clean, effort)
          [] effort # None /\ r.proto = "anthropic" -> SetAnthropicThinking(clean, effort)

Routable(r) == r.suffix = None \/ NamesEffort(r.suffix)

Init ==
    /\ request \in {r \in Requests : Routable(r)}
    /\ base = Prepared(request)
    /\ prompts = None
    /\ sent = <<>>

\* The global prompt and the caveman prompt are read once per request.
ReadPrompts ==
    /\ prompts = None
    /\ \E g \in {<<>>, <<"global">>}, c \in {<<>>, <<"caveman">>} :
          prompts' = [global |-> g, caveman |-> c]
    /\ UNCHANGED <<request, base, sent>>

PromptsFor(suppressed, segments) ==
    (IF suppressed THEN <<>> ELSE prompts.global) \o segments \o prompts.caveman

\* Mutation: the prompts are injected into the body of the target before.
ServeAgain ==
    /\ prompts # None
    /\ Len(sent) < MaxTargets
    /\ \E scheme \in Schemes, segments \in Segments, suppressed \in BOOLEAN :
          LET texts == PromptsFor(suppressed, segments)
              b == InjectPromptSegments(request.proto, base, texts)
          IN  /\ sent' = Append(sent, [scheme |-> scheme, texts |-> texts,
                                       body |-> Translate(request.proto, scheme, b)])
              /\ base' = b
    /\ UNCHANGED <<request, prompts>>

\* The next target: what its rules say, injected into the kept body.
Serve ==
    /\ prompts # None
    /\ Len(sent) < MaxTargets
    /\ \E scheme \in Schemes, segments \in Segments, suppressed \in BOOLEAN :
          LET texts == PromptsFor(suppressed, segments)
              b == InjectPromptSegments(request.proto, base, texts)
          IN  sent' = Append(sent, [scheme |-> scheme, texts |-> texts,
                                    body |-> Translate(request.proto, scheme, b)])
    /\ UNCHANGED <<request, base, prompts>>

Next == ReadPrompts \/ Serve
Spec == Init /\ [][Next]_vars

-----------------------------------------------------------------------------
(* Properties *)

\* What the parties of a conversation say, in order.
SaidIn(m) ==
    LET ps == IF IsSystem(m) THEN <<>> ELSE m.think \o m.content \o m.calls
        Who(p) == IF p.kind = "result" THEN "tool" ELSE m.role
    IN  [i \in DOMAIN ps |-> [who |-> Who(ps[i]), part |-> ps[i]]]

\* A result as it is understood: JSON says what it encodes; what is lost on this
\* way is left out.
Understood(lost, e) ==
    LET open(p) == IF p.kind = "json" THEN p.parts ELSE <<p>>
        inside == SelectSeq(Concat(open, e.part.parts), LAMBDA p : p.kind \notin lost)
    IN  [e EXCEPT !.part = [@ EXCEPT !.parts = inside, !.plain = FALSE]]

Told(lost, ms) == LET f(m) == SaidIn(m)
                      said == Concat(f, ms)
                  IN  [i \in DOMAIN said |-> Understood(lost, said[i])]

Sorted(p) == [p EXCEPT !.parts = OfKinds(@, {"text"}) \o SelectSeq(@, LAMBDA q : q.kind # "text")]
SideOf(told, kinds) == LET of == SelectSeq(told, LAMBDA e : e.part.kind \in kinds)
                       IN  [i \in DOMAIN of |-> [of[i] EXCEPT !.part = Sorted(@)]]

\* What an upstream's protocol, or the way there, has no place for.
Lost(proto, scheme) ==
    CASE proto = "chat" /\ scheme = "anthropic" -> {"audio", "think"}
      [] proto = "anthropic" /\ scheme # "anthropic" -> {"link", "redacted"}
      [] OTHER -> {}

\* The order a translated Anthropic conversation keeps: that of its messages, and
\* within a message that of each sort of part (within a result, too).
Sorts == {{"text"}, {"image", "file"}, {"call"}, {"result"}, {"think"}}

SameByMessage(heads, after) ==
    /\ Len(after) = Len(Last(heads))
    /\ \A i \in DOMAIN heads, sort \in Sorts :
          SideOf(SubSeq(after, 1, Len(heads[i])), sort) = SideOf(heads[i], sort)

\* The answers of tools that are one text.
PlainAnswers(ms) ==
    {p \in UNION {Range(ms[i].content) : i \in DOMAIN ms} : p.kind = "result" /\ p.plain /\ p.parts # <<>>}

\* Every upstream that is tried gets the whole conversation, each part once,
\* from the side that said it and in its order. From a chat client, and where
\* nothing is translated, the order is that of all parts; of a translated
\* Anthropic conversation it is that of SameByMessage, as calls, texts and
\* results have places of their own in a chat message. A tool's answer that is
\* one text stays that text; any other may reach a Responses upstream as JSON.
\* An Anthropic upstream is never sent two turns of one side in a row.
ConversationIsKept ==
    \A i \in DOMAIN sent :
       LET scheme == sent[i].scheme
           lost == Lost(request.proto, scheme)
           given == request.body.messages
           turns == sent[i].body.messages
           Kept(ms) == SelectSeq(Told(lost, ms), LAMBDA e : e.part.kind \notin lost)
           after == Told(lost, turns)
       IN  /\ IF request.proto \in {"chat", scheme} THEN after = Kept(given)
              ELSE SameByMessage([n \in 1..Len(given) + 1 |-> Kept(SubSeq(given, 1, n - 1))], after)
           /\ PlainAnswers(given) \subseteq PlainAnswers(turns)
           /\ request.proto = "chat" /\ scheme = "anthropic" =>
                \A j \in 1..Len(turns) - 1 : turns[j].role # turns[j + 1].role

\* The system texts of a body, as its upstream reads them.
SystemRead(scheme, b) == b.system \o (IF scheme = "anthropic" THEN <<>> ELSE SystemOf(b.messages))

\* Every target gets the prompts that are its own, each once and in their
\* order, whatever was injected for the targets before; the client's own
\* system texts are all there, and come first (unless the client gave them
\* the role developer, which the injection does not look for).
PromptsAreServed ==
    \A i \in DOMAIN sent :
       LET own == SystemRead(request.proto, request.body)
           read == SystemRead(sent[i].scheme, sent[i].body)
           injected == SelectSeq(read, LAMBDA v : v \notin Range(own))
       IN  /\ injected = sent[i].texts
           /\ SelectSeq(read, LAMBDA v : v \in Range(own)) = own
           /\ (\A j \in DOMAIN request.body.messages : request.body.messages[j].role # "developer")
                => read = own \o sent[i].texts

\* The effort a body asks for, in the words of its protocol.
EffortOf(proto, b) ==
    CASE proto = "chat" -> ExtractChatEffort(b)
      [] proto = "anthropic" -> IF IsOff(b) THEN "none" ELSE EnabledEffort(b)
      [] proto = "responses" -> NormalizeEffort(b.reasoning)

\* What the client asked for: the model's suffix wins over the body.
Wanted(r) == IF r.suffix # None /\ SuffixEffort(r.suffix) # None THEN SuffixEffort(r.suffix)
             ELSE EffortOf(r.proto, r.body)

\* The effort the client asked for is the one every upstream is asked for, up
\* to the steps its protocol lacks (an Anthropic body on either side has no
\* "minimal"); thinking that was switched off is never
\* switched on again; and no upstream sees the fields of another protocol.
EffortIsKept ==
    \A i \in DOMAIN sent :
       LET b == sent[i].body
           got == EffortOf(sent[i].scheme, b)
           want == Wanted(request)
       IN  /\ \/ got = want
              \/ want = "minimal" /\ got = "low" /\ "anthropic" \in {request.proto, sent[i].scheme}
              \/ sent[i].scheme = "responses" /\ want = "max" /\ got = "xhigh"
           /\ IF sent[i].scheme = "anthropic" THEN b.reasoning_effort = None /\ b.reasoning = None
              ELSE b.thinking = None /\ b.output_config = None

Budgets(b) == {b.max_tokens, b.max_completion_tokens, b.max_output_tokens} \ {None}
Choice(b) == IF b.tool_choice = "any" THEN "required" ELSE b.tool_choice

\* Tools, the choice among them, the token budget and the other controls reach
\* every upstream with the meaning the client gave them; only an Anthropic
\* upstream is given a budget the client left out, and only a Responses
\* upstream no stop sequences.
ControlsAreKept ==
    \A i \in DOMAIN sent :
       LET b == sent[i].body
           was == request.body
           scheme == sent[i].scheme
       IN  /\ b.tools \in {was.tools, Named(was.tools)}
           /\ Choice(b) = Choice(was)
           /\ b.temperature = was.temperature
           /\ b.stop = was.stop \/ scheme = "responses"
           /\ IF Budgets(was) # {} THEN Budgets(b) # {} /\ Budgets(b) \subseteq Budgets(was)
              ELSE Budgets(b) = IF scheme = "anthropic" /\ request.proto = "chat"
                                THEN {defaultAnthropicMaxTokens} ELSE {}

\* Claimed by README.md:54 ("Anything a stock client can express in chat
\* semantics survives intact"): in a chat body the answers to a message's tool
\* calls follow it directly, as they do in the client's request.
ToolResultsFollowTheirCalls ==
    \A i \in DOMAIN sent : sent[i].scheme = "chat" =>
       LET ms == sent[i].body.messages IN
       \A j \in DOMAIN ms : ms[j].role = "tool" =>
          \E k \in 1..j - 1 :
             /\ \E c \in DOMAIN ms[k].calls : ms[k].calls[c].v = ms[j].content[1].of
             /\ \A l \in k + 1..j - 1 : ms[l].role = "tool"
=============================================================================
