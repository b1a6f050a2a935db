------------------------ MODULE MCConversationCapture ------------------------
\* Values for TLC: what Codex logs, what providers answer, and the scenarios.
EXTENDS CaptureProxy

CONSTANTS c1, c2

Item(named, tool, text) == [named |-> named, tool |-> tool, text |-> <<text>>]
ReadItem == Item(TRUE, "read", "q")
MCItems == {Item(FALSE, "", "hello"), ReadItem, Item(FALSE, "tool_result", "x"),
            Item(FALSE, "tool_result", "y")}

Message(role, text) == [role |-> role, tool |-> "call", text |-> <<text>>]
Request(messages) == [system |-> <<>>, messages |-> messages, input |-> <<>>]
MCBodies(kind) ==
  CASE kind = "many" -> {Request(<<Message("user", "q")>>)}
    [] kind = "few" ->
         {Request(<<>>), Request(<<Message("developer", "d")>>),
          Request(<<Message("tool", "r"), Message("tool", "r")>>),
          [system |-> <<"s">>, messages |-> <<>>, input |-> <<Message("", "q")>>]}
    [] OTHER -> {Request(<<Message("tool", "r"), Message("tool", "r")>>)}

Fragment(type, at, text) == [NoPayload EXCEPT !.type = type, !.at = at, !.text = text]
Report(counts) == [NoPayload EXCEPT !.type = "usage", !.counts = counts]
Carrying(fragment, given) == [fragment EXCEPT !.given = given]

OpenAI == {Fragment("text", 0, "a"), Fragment("text", 0, "b"), Fragment("tool", 1, "x"),
           Fragment("tool", 0, "y"), Report([input |-> 1]), Report([output |-> 2])}
Anthropic == {Carrying(Fragment("start", 0, "text"), [Blank EXCEPT !.text = <<"g">>]),
              Fragment("start", 1, "tool"), Fragment("text", 0, "a"), Fragment("tool", 1, "x"),
              Report([input |-> 1]), Report([output |-> 2])}
ToolStart == Carrying(Fragment("start", 1, "tool"), [Blank EXCEPT !.input = <<"i">>])

\* An event per fragment, the first one named; OpenAI ends with a mark.
Line(tokens, end) == Append(tokens, Token(end, NoPayload))
Encode(protocol, fragments, ends) ==
  LET block(i) == Line(Line(<<Token("open", fragments[i]), Token("close", fragments[i])>>,
                            ends[i]), ends[i])
      named == Line(<<Token("other", NoPayload)>>, ends[1])
      mark == Line(Line(<<Token("mark", NoPayload)>>, ends[1]), ends[1])
  IN  (IF protocol = "anthropic" THEN named ELSE <<>>)
      \o FlattenSeq([i \in DOMAIN fragments |-> block(i)])
      \o (IF protocol = "openai" THEN mark ELSE <<>>)

Reply(protocol, stream, failed, fragments, bytes, whole) ==
  [protocol |-> protocol, stream |-> stream, failed |-> failed, fragments |-> fragments,
   bytes |-> bytes, whole |-> whole]

\* Line ends, and how many tokens are missing: without its last payload's end an
\* answer is not whole, and neither is one of mixed line ends.
Newlines == <<"lf", "lf", "lf">>
Variants == {<<Newlines, 0>>, <<Newlines, 1>>, <<Newlines, 2>>, <<Newlines, 3>>,
             <<<<"crlf", "crlf", "crlf">>, 0>>, <<<<"crlf", "lf", "lf">>, 0>>}

Stream(protocol, fragments, variant) ==
  LET sent == Encode(protocol, fragments, variant[1])
  IN  Reply(protocol, TRUE, FALSE, fragments, SubSeq(sent, 1, Len(sent) - variant[2]),
            variant[2] < 3 /\ variant[1][1] = variant[1][2])

Said == <<Fragment("text", 0, "a"), Fragment("tool", 0, "x"), Report([input |-> 1])>>
Short == Encode("anthropic", <<Fragment("text", 0, "a")>>, Newlines)
Long == Encode("openai", <<Fragment("text", 0, "a"), Fragment("text", 0, "b"),
                          Fragment("tool", 0, "x")>>, Newlines)

MCReplies(kind) ==
  CASE kind = "many" ->
         {Stream("openai", f, v) : f \in BoundedSeq(OpenAI, 2) \ {<<>>}, v \in Variants}
         \cup {Stream("anthropic", f, v) : f \in BoundedSeq(Anthropic, 2) \ {<<>>}, v \in Variants}
         \cup {Stream("anthropic", <<ToolStart, f>>, <<Newlines, 0>>) : f \in Anthropic}
         \cup {Stream("openai", f, <<Newlines, 0>>) : f \in [1 .. 3 -> OpenAI]}
         \cup {Stream("anthropic", f, <<Newlines, 0>>) : f \in [1 .. 3 -> Anthropic]}
         \cup {Reply(p, FALSE, FALSE, Said, Body, TRUE) : p \in {"openai", "anthropic"}}
    [] kind = "few" ->
         {Reply("openai", FALSE, FALSE, Said, Body, TRUE),
          Reply("openai", FALSE, TRUE, <<>>, SubSeq(Body, 1, 1), FALSE),
          Reply("openai", FALSE, TRUE, <<>>, Body, TRUE),
          Reply("anthropic", TRUE, FALSE, <<Fragment("text", 0, "a")>>, Short, TRUE),
          Reply("openai", TRUE, FALSE, <<Fragment("text", 0, "a"), Fragment("text", 0, "b"),
                                        Fragment("tool", 0, "x")>>, Long, TRUE)}
    [] OTHER -> {Reply("openai", FALSE, failed, <<Fragment("tool", 0, "r")>>, Body, TRUE) :
                   failed \in BOOLEAN}

Nothing == [replies |-> "few", versioned |-> TRUE, lines |-> 0, deletes |-> 0, flips |-> 0,
            resumes |-> 0, restarts |-> 0, fails |-> 0, asks |-> 0, lists |-> 0, calls |-> 0,
            breaks |-> 0, reads |-> 0, timeouts |-> 0, ends |-> 0]

\* The proxy of "run": no version, and the user may switch prompts off.
Wrapped == [Nothing EXCEPT !.versioned = FALSE, !.calls = 1, !.flips = 1]
MCWrapped == {Wrapped}

MCScenarios ==
  {[Nothing EXCEPT !.replies = "many", !.calls = 1],
   [Nothing EXCEPT !.calls = 1, !.breaks = 1, !.fails = 1, !.reads = 1, !.flips = 1,
                   !.ends = 1, !.timeouts = 1],
   Wrapped,
   [Nothing EXCEPT !.replies = "brief", !.calls = 1, !.deletes = 1, !.asks = 2],
   [Nothing EXCEPT !.replies = "brief", !.calls = 1, !.deletes = 1, !.lists = 1, !.lines = 1,
                   !.fails = 1],
   [Nothing EXCEPT !.lines = 3, !.resumes = 1, !.restarts = 1, !.flips = 1],
   [Nothing EXCEPT !.lines = 3, !.deletes = 1, !.asks = 1, !.fails = 1],
   [Nothing EXCEPT !.lines = 3, !.deletes = 1, !.lists = 1, !.restarts = 1]}
=============================================================================
