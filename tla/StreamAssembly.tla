--------------------------- MODULE StreamAssembly ---------------------------
(***************************************************************************)
(* internal/conversations as operators: the decoder that cuts a provider's *)
(* event stream into blocks, the two assemblers that put an answer         *)
(* together from them, and the parsers of plain bodies.                    *)
(*                                                                         *)
(* Bytes are tokens [kind, of]: "open" p and "close" p are the two halves  *)
(* of the line that carries payload p as data, "mark" is the line          *)
(* data: [DONE], "other" any line that is not data, "lf" and "crlf" are    *)
(* line ends.  A payload is one fragment of an answer:                     *)
(*   [type, at, text, given, counts]                                       *)
(* type "text", "tool", "start", "usage" or "bad" (not JSON), at the index *)
(* of the tool or block it belongs to.  "start" opens an Anthropic block,  *)
(* text being its kind and given what the block has from the start.        *)
(* counts has the token counts a report mentions.                          *)
(***************************************************************************)
EXTENDS Integers, Sequences, SequencesExt, FiniteSets

Token(kind, payload) == [kind |-> kind, of |-> payload]
Blank == [text |-> <<>>, input |-> <<>>]
NoPayload == [type |-> "none", at |-> 0, text |-> "", given |-> Blank, counts |-> <<>>]

IsSequence(s) == s \in Seq(ToSet(s))

\* A finite set of numbers, in order.
Ascending(S) == [j \in 1 .. Cardinality(S) |->
                   CHOOSE i \in S : Cardinality({k \in S : k < i}) = j - 1]

\* What a sequence has at some of its places, in order.
Picked(s, places) == [j \in 1 .. Cardinality(places) |-> s[Ascending(places)[j]]]
-----------------------------------------------------------------------------
(* ParseOpenAIRequest, ParseAnthropicRequest.  A request's body is          *)
(* [system, messages, input], a message in it [role, tool, text]; tool and  *)
(* role may be "", there may be no system text (<<>>).                      *)

\* The system text, then the messages; OpenAI's Responses API has its input
\* instead.  Only OpenAI names the tool a message answers.
ParseRequest(protocol, body) ==
  LET named(m) == IF protocol = "openai" /\ m.role = "tool" THEN m.tool ELSE ""
      messages == [i \in DOMAIN body.messages |->
                     [body.messages[i] EXCEPT !.tool = named(body.messages[i])]]
      input == [i \in DOMAIN body.input |->
                  [body.input[i] EXCEPT !.tool = "", !.role = IF @ = "" THEN "user" ELSE @]]
  IN  (IF body.system = <<>> THEN <<>>
       ELSE <<[role |-> "system", tool |-> "", text |-> body.system]>>)
      \o IF protocol = "openai" /\ messages = <<>> THEN input ELSE messages
-----------------------------------------------------------------------------
(* protocol.go *)

\* A slip the runs must notice: a block is over at the first line end.
SeparatorsAnyLineEnd(buffer) == {i \in 1 .. Len(buffer) - 1 : buffer[i].kind \in {"lf", "crlf"}}

\* Where a block ends: at an empty line ended by "\n"; only if the buffer holds
\* none of these, at one ended by "\r\n".
Separators(buffer) ==
  LET ends(kinds, kind) == {i \in 1 .. Len(buffer) - 1 :
                              buffer[i].kind \in kinds /\ buffer[i + 1].kind = kind}
      newlines == ends({"lf", "crlf"}, "lf")
  IN  IF newlines # {} THEN newlines ELSE ends({"crlf"}, "crlf")

First(indexes) == CHOOSE i \in indexes : \A j \in indexes : i <= j

\* sseData: where a block has something of data lines.
Data(block) == {i \in DOMAIN block : block[i].kind \in {"open", "close", "mark"}}
Ignored(block) == \A i \in Data(block) : Data(block) = {i} /\ block[i] = Token("mark", NoPayload)

\* Unmarshal succeeds on one whole payload.
Decodes(block) ==
  \E i, j \in Data(block) :
    /\ i < j /\ Data(block) = {i, j} /\ block[i].of.type # "bad"
    /\ block[i] = Token("open", block[i].of) /\ block[j] = Token("close", block[i].of)
-----------------------------------------------------------------------------
(* openai.go, anthropic.go: the assemblers *)

Unavailable == [precision |-> "unavailable", counts |-> <<>>]

\* A new assembler: [text, parts, usage]; parts[i] is the tool or block of index
\* i, [kind, text, input].
Part(kind, given) == [kind |-> kind, text |-> given.text, input |-> given.input]
NewAssembly == [text |-> <<>>, parts |-> <<>>, usage |-> Unavailable]

\* f with x mapped to y; f may be <<>>, the function on no index.
Put(f, x, y) == [i \in DOMAIN f \cup {x} |-> IF i = x THEN y ELSE f[i]]

\* captureUsage: OpenAI's reports are totals, the last one counts; Anthropic's
\* give each number when it is known.
OpenAIUsage(usage, counts) == [precision |-> "exact", counts |-> counts]
AnthropicUsage(usage, counts) ==
  [precision |-> "exact",
   counts |-> [c \in DOMAIN usage.counts \cup DOMAIN counts |->
                 IF c \in DOMAIN counts THEN counts[c] ELSE usage.counts[c]]]

\* The part of an index, a new one of this kind if it is not there yet.
PartAt(parts, i, kind) == IF i \in DOMAIN parts THEN parts[i] ELSE Part(kind, Blank)

OpenAIConsume(assembly, p) ==
  CASE p.type = "text" -> [assembly EXCEPT !.text = Append(@, p.text)]
    [] p.type = "tool" ->
         LET tool == PartAt(assembly.parts, p.at, "tool")
         IN  [assembly EXCEPT !.parts =
                Put(@, p.at, [tool EXCEPT !.input = Append(@, p.text)])]
    [] p.type = "usage" -> [assembly EXCEPT !.usage = OpenAIUsage(@, p.counts)]
    [] OTHER -> assembly

\* An announcement starts a block anew, with what it carries; a block that was not
\* announced is a text.
AnthropicConsume(assembly, p) ==
  LET block == PartAt(assembly.parts, p.at, "text")
  IN  CASE p.type = "start" -> [assembly EXCEPT !.parts = Put(@, p.at, Part(p.text, p.given))]
        [] p.type = "text" ->
             [assembly EXCEPT !.parts = Put(@, p.at, [block EXCEPT !.text = Append(@, p.text)])]
        [] p.type = "tool" ->
             [assembly EXCEPT !.parts = Put(@, p.at, [block EXCEPT !.input = Append(@, p.text)])]
        [] p.type = "usage" -> [assembly EXCEPT !.usage = AnthropicUsage(@, p.counts)]
        [] OTHER -> assembly

Consume(protocol, assembly, p) ==
  IF protocol = "anthropic" THEN AnthropicConsume(assembly, p) ELSE OpenAIConsume(assembly, p)
-----------------------------------------------------------------------------
(* The decoder at work: [buffer, total, assembly, failed] *)

NewDecoder == [buffer |-> <<>>, total |-> 0, assembly |-> NewAssembly, failed |-> FALSE]

\* add begins: the chunk is in the buffer, unless that makes too much of it.
Filled(limit, decoder, chunk) ==
  LET total == decoder.total + Len(chunk)
  IN  IF total > limit THEN [decoder EXCEPT !.total = total, !.failed = TRUE]
      ELSE [decoder EXCEPT !.total = total, !.buffer = @ \o chunk]

\* A block is taken in, passed over, or ends the capture.
TakeBlock(protocol, decoder, block) ==
  IF Ignored(block) THEN decoder
  ELSE IF Decodes(block)
       THEN [decoder EXCEPT !.assembly = Consume(protocol, @, block[First(Data(block))].of)]
       ELSE [decoder EXCEPT !.failed = TRUE]

\* add goes on for as long as there is a whole block.
HasBlock(decoder) == ~decoder.failed /\ Separators(decoder.buffer) # {}

NextBlock(protocol, decoder) ==
  LET cut == First(Separators(decoder.buffer))
  IN  TakeBlock(protocol, [decoder EXCEPT !.buffer = SubSeq(@, cut + 2, Len(@))],
                SubSeq(decoder.buffer, 1, cut - 1))

\* An error leaves a result without even a precision.
Spoiled == [messages |-> <<>>, usage |-> [precision |-> "none", counts |-> <<>>]]

\* What a part becomes: a tool with its input, or what the assistant says.
PartMessage(part) == IF part.kind = "tool" THEN [role |-> "tool", text |-> part.input]
                     ELSE [role |-> "assistant", text |-> part.text]

\* Complete: the text, then the parts by their index.  The last block may lack
\* its empty line.
Assembled(assembly) ==
  LET inOrder == Picked(assembly.parts, DOMAIN assembly.parts)
      parts == [i \in DOMAIN inOrder |-> PartMessage(inOrder[i])]
  IN  [messages |-> (IF assembly.text = <<>> THEN <<>>
                     ELSE <<[role |-> "assistant", text |-> assembly.text]>>) \o parts,
       usage |-> assembly.usage]

Complete(protocol, decoder) ==
  LET flushed == TakeBlock(protocol, decoder, decoder.buffer)
  IN  IF flushed.failed THEN Spoiled ELSE Assembled(flushed.assembly)
-----------------------------------------------------------------------------
(* ParseOpenAIResponse, ParseAnthropicResponse: a body that is no stream,   *)
(* one payload around its fragments.                                        *)

Body == <<Token("open", NoPayload), Token("close", NoPayload)>>

\* A message for each text and each tool, in their order.  A body has one usage
\* object; of several the last would count.
ParseResponse(protocol, body, fragments) ==
  LET said == Picked(fragments, {i \in DOMAIN fragments : fragments[i].type \in {"text", "tool"}})
      reports == {i \in DOMAIN fragments : fragments[i].type = "usage"}
      usage(counts) == IF protocol = "anthropic" THEN AnthropicUsage(Unavailable, counts)
                       ELSE OpenAIUsage(Unavailable, counts)
  IN  IF body # Body THEN Spoiled
      ELSE [messages |-> [i \in DOMAIN said |->
                            [role |-> IF said[i].type = "tool" THEN "tool" ELSE "assistant",
                             text |-> <<said[i].text>>]],
            usage |-> IF reports = {} THEN Unavailable
                      ELSE usage(fragments[Max(reports)].counts)]
-----------------------------------------------------------------------------
(* What a provider sends when it sends all of it *)

\* A stream has one kind of line end.  Every payload has its line whole and, next
\* to other lines, an event of its own, which an empty line parts from the next;
\* the payloads are the fragments of the answer.
WholeStream(fragments, bytes) ==
  LET of(kinds) == {i \in DOMAIN bytes : bytes[i].kind \in kinds}
      opens == of({"open"})
      said == Picked(bytes, opens)
  IN  /\ \E lineEnd \in {"lf", "crlf"} :
           /\ of({"open", "close", "mark", "other", lineEnd}) = DOMAIN bytes
           /\ \A i, j \in of({"open", "mark"}) : i < j =>
                \E k \in i + 1 .. j - 2 : {k, k + 1} \subseteq of({lineEnd})
      /\ \A i \in opens : i + 1 \in DOMAIN bytes /\ bytes[i + 1] = Token("close", bytes[i].of)
      /\ \A i \in of({"close"}) : i - 1 \in opens
      /\ \A i \in of({"mark"}) : bytes[i] = Token("mark", NoPayload)
      /\ \A i \in opens : bytes[i] = Token("open", bytes[i].of)
      /\ fragments = [j \in DOMAIN said |-> said[j].of]
      /\ \A j \in DOMAIN fragments :
           /\ fragments[j].type \in {"text", "tool", "start", "usage"}
           /\ fragments[j].at \in Nat
           /\ IsSequence(fragments[j].given.text) /\ IsSequence(fragments[j].given.input)

\* A body has at most one usage object.
WholeBody(fragments, bytes) ==
  /\ bytes = Body
  /\ \A i, j \in DOMAIN fragments :
       fragments[i].type = "usage" /\ fragments[j].type = "usage" => i = j
=============================================================================
