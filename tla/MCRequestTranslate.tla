------------------------- MODULE MCRequestTranslate -------------------------
(***************************************************************************)
(* Requests for TLC: conversations of up to three messages under plain       *)
(* controls, and one conversation under every combination of controls that   *)
(* decide something.                                                         *)
(***************************************************************************)
EXTENDS RequestTranslate

CONSTANT MaxMessages

T(v) == Part("text", v)
Calls == <<Part("call", "a"), Part("call", "b")>>
WithImage == <<Part("image", "i"), T("seen")>>

ChatMessages ==
    {Message("system", <<T("s1")>>), Message("system", <<T("s2"), T("s3")>>),
     Message("developer", <<T("d1")>>),
     Message("user", <<T("u1")>>),
     Message("user", <<T("u2"), Part("audio", "w"), Part("image", "j"), Part("file", "f")>>),
     [Message("assistant", <<T("a1")>>) EXCEPT !.think = <<Part("think", "h")>>, !.calls = Calls],
     [Message("assistant", <<>>) EXCEPT !.calls = Calls],
     Message("tool", <<Result("a", TRUE, <<T("r1")>>)>>),
     Message("tool", <<Result("b", TRUE, <<>>)>>),
     Message("tool", <<Result("b", FALSE, WithImage)>>)}

AnthropicMessages ==
    {Message("user", <<T("u1")>>), Message("user", <<T("u2"), Part("image", "j"), T("u3")>>),
     Message("user", <<Part("file", "f"), Part("link", "l")>>),
     Message("assistant", <<Part("think", "h"), T("a1")>> \o Calls),
     Message("assistant", <<Part("redacted", "x")>>),
     Message("assistant", Calls),
     Message("user", <<Result("a", TRUE, <<T("r1")>>), Result("b", FALSE, WithImage)>>),
     Message("user", <<T("u4"), Result("a", FALSE, <<T("r1"), T("r2")>>), Result("b", TRUE, <<>>)>>),
     Message("user", <<Result("a", FALSE, <<Part("link", "l")>>), Result("b", FALSE, <<>>), T("u5")>>)}

Sequences(S, max) == UNION {[1..n -> S] : n \in 0..max}

Plain == [Empty EXCEPT !.messages = <<Message("user", <<T("u1")>>)>>]
Said1 == [Plain EXCEPT !.system = <<"s1">>]

Conversations ==
    {[proto |-> "chat", suffix |-> None, body |-> [Empty EXCEPT !.messages = ms]] :
        ms \in Sequences(ChatMessages, MaxMessages)}
    \cup {[proto |-> "anthropic", suffix |-> None, body |-> [Empty EXCEPT !.messages = ms]] :
        ms \in Sequences(AnthropicMessages, MaxMessages)}
    \cup {[proto |-> "anthropic", suffix |-> None,
           body |-> [Empty EXCEPT !.messages = ms, !.system = <<"s1", "s2">>]] :
        ms \in Sequences(AnthropicMessages, MaxMessages - 2)}

Words == {"off", "min", "high", "ultra", "max", "auto", "adaptive", "junk"}
NameSuffixes == {None} \cup {[word |-> w, budget |-> None] : w \in Words}
              \cup {[word |-> None, budget |-> n] : n \in {0, 768, 769, 4096, 16385, 28672, 28673, 32768, 32769}}

\* A chat client names an effort in one field; foreign fields come on top.
ChatEfforts ==
    {[Plain EXCEPT !.reasoning_effort = e] : e \in Words \cup {None}}
    \cup {[Plain EXCEPT !.reasoning = e, !.thinking = Thinking("enabled")] : e \in Words}

AnthropicEfforts ==
    {[Said1 EXCEPT !.output_config = e, !.thinking = t, !.reasoning_effort = "low"] :
        e \in Words \cup {None},
        t \in {None, Thinking("disabled"), Thinking("adaptive")}
               \cup {[Thinking("enabled") EXCEPT !.budget = n] : n \in {768, 4096, 16384, 32769}}
               \cup {[Thinking("enabled") EXCEPT !.effort = "low"]}}

\* Every suffix over every kind of request, and every request without one, with
\* one that wins over it, and with one that does not.
Efforts ==
    LET bodies == ({"chat"} \X ChatEfforts) \cup ({"anthropic"} \X AnthropicEfforts)
        few == {<<"chat", Plain>>, <<"anthropic", Said1>>,
                <<"anthropic", [Said1 EXCEPT !.thinking = Thinking("disabled")]>>}
        some == {x \in NameSuffixes : x = None \/ x.word \in {"high", "off", "auto"}}
    IN  {[proto |-> b[1], suffix |-> x, body |-> b[2]] : x \in NameSuffixes, b \in few}
        \cup {[proto |-> b[1], suffix |-> x, body |-> b[2]] : x \in some, b \in bodies}

Controls ==
    {[Plain EXCEPT !.tools = tools, !.tool_choice = c, !.stop = stop, !.temperature = t,
                   !.max_tokens = n, !.max_completion_tokens = k, !.max_output_tokens = o] :
        tools \in {<<>>, <<"look", "", "find">>}, c \in {None, "auto", "none", "required", "tool"},
        stop \in {<<>>, <<"END">>}, t \in {None, 1},
        n \in {None, 10}, k \in {None, 20}, o \in {None, 30}}

Controlled ==
    {[proto |-> "chat", suffix |-> None, body |-> b] : b \in Controls}
    \cup {[proto |-> "anthropic", suffix |-> None,
           body |-> [b EXCEPT !.tool_choice = IF @ = "required" THEN "any" ELSE @]] :
          b \in {c \in Controls : c.max_completion_tokens = None /\ c.max_output_tokens = None}}

AllRequests == Conversations \cup Efforts \cup Controlled

\* An Anthropic client that answers tool calls and goes on in one message.
ToolAnswers ==
    {[proto |-> "anthropic", suffix |-> None, body |-> [Empty EXCEPT !.messages = ms]] :
        ms \in {<<Message("user", <<T("u1")>>), Message("assistant", Calls), m>> :
                   m \in {n \in AnthropicMessages : \E i \in DOMAIN n.content : n.content[i].kind = "result"}}}

SegmentSets == {<<>>, <<"terse", "tools">>}
=============================================================================
