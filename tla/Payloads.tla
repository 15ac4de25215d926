------------------------------ MODULE Payloads ------------------------------
(***************************************************************************)
(* What becomes of a client's history on its way to an upstream: it is     *)
(* pruned, parsed into unified messages, and written in the upstream's     *)
(* format.                                                                 *)
(*                                                                         *)
(* A client's message is a role and its blocks (text, thinking, tool_use,  *)
(* tool_result); a unified message is a role, its text, its calls and, for *)
(* a tool's result, the call it answers; an upstream's turn is a role and  *)
(* its parts.                                                              *)
(***************************************************************************)
EXTENDS Replies

CONSTANTS RecentTurnsToKeep, Tools, FileTools

ASSUME PayloadsAssumption ==
  RecentTurnsToKeep \in Nat \ {0} /\ FileTools \subseteq Tools

Block(type, text, call, id) == [type |-> type, text |-> text, call |-> call, id |-> id]
TextBlock(text) == Block("text", text, NoCall, 0)
ThinkingBlock(text) == Block("thinking", text, NoCall, 0)
ToolUse(call) == Block("tool_use", <<>>, call, 0)
ToolResult(id, text) == Block("tool_result", text, NoCall, id)

Of(blocks, type) == SelectSeq(blocks, LAMBDA b : b.type = type)

-----------------------------------------------------------------------------
(* Pruning.  Results are "big", "code", or short; "cut" is a big one's head *)
(* and tail.  "filler" stands for what the text filters drop.               *)

PruneText(text) == Without(text, {"filler"})

\* The names of the calls in the history, by id.
buildToolNameMap(messages) ==
  LET uses == {b.call : b \in UNION {ToSet(Of(messages[i].blocks, "tool_use")) : i \in DOMAIN messages}}
  IN [id \in {c.id : c \in uses} |-> (CHOOSE c \in uses : c.id = id).name]

\* Mutant: every result counts as old.
CutoffAtEnd(messages) == Len(messages) + 1

\* The first message of the recent turns; every result and every user message begins one.
Cutoff(messages) ==
  LET turns == SelectSeq([i \in DOMAIN messages |-> i], LAMBDA i : messages[i].role \in {"user", "tool"})
  IN IF Len(turns) <= RecentTurnsToKeep THEN 1
     ELSE turns[Len(turns) - RecentTurnsToKeep + 1]

looksLikeSourceCode(text) == \E a \in ToSet(text) : a.val = "code"

compactHistoricalString(text) == [i \in DOMAIN text |-> IF text[i].val = "big" THEN [text[i] EXCEPT !.val = "cut"] ELSE text[i]]

\* Old results are cut, but for source code and what a file tool has read.
Compacted(block, names) ==
  IF \/ block.type # "tool_result"
     \/ block.id \in DOMAIN names /\ names[block.id] \in FileTools
     \/ looksLikeSourceCode(block.text)
  THEN block ELSE [block EXCEPT !.text = compactHistoricalString(@)]

CompactSessionPayload(messages) ==
  LET names == buildToolNameMap(messages)
      cutoff == Cutoff(messages)
  IN [i \in DOMAIN messages |->
       IF i >= cutoff THEN messages[i]
       ELSE [messages[i] EXCEPT !.blocks = [j \in DOMAIN @ |-> Compacted(@[j], names)]]]

ExtractActiveToolNames(messages) == {buildToolNameMap(messages)[id] : id \in DOMAIN buildToolNameMap(messages)}

\* A tool that was called keeps its whole definition.
CompactToolDefinitions(messages) ==
  [t \in Tools |-> IF t \in ExtractActiveToolNames(messages) THEN "whole" ELSE "short"]

\* The filters leave tool output alone.
Filtered(block) == IF block.type = "text" THEN [block EXCEPT !.text = PruneText(@)] ELSE block

\* An Anthropic client's history is compacted only when it asks for it, to keep the
\* upstream's prompt cache.
PruneMessages(messages, source, forced) ==
  LET compacted == IF source = "openai" \/ forced THEN CompactSessionPayload(messages) ELSE messages
  IN [i \in DOMAIN messages |-> [compacted[i] EXCEPT !.blocks = [j \in DOMAIN @ |-> Filtered(@[j])]]]

-----------------------------------------------------------------------------
(* Parsing *)

Message(role, content, calls, id) == [role |-> role, content |-> content, calls |-> calls, id |-> id]

\* Texts are joined; thinking counts as text until there is some.
ContentText(blocks) ==
  FoldLeft(LAMBDA text, b : IF b.type = "text" \/ (b.type = "thinking" /\ text = <<>>)
                            THEN text \o b.text ELSE text,
           <<>>, blocks)

CallsOf(blocks) ==
  LET uses == Of(blocks, "tool_use") IN [i \in DOMAIN uses |-> uses[i].call]

Results(blocks) ==
  LET results == Of(blocks, "tool_result")
  IN [i \in DOMAIN results |-> Message("tool", results[i].text, <<>>, results[i].id)]

\* Mutant: a message's text comes before its results.
TextFirst(message) ==
  LET text == ContentText(message.blocks)
      calls == CallsOf(message.blocks)
      results == Results(message.blocks)
  IN (IF text # <<>> \/ calls # <<>> \/ results = <<>>
      THEN <<Message(message.role, text, calls, 0)>> ELSE <<>>) \o results

\* Mutant: the note that comes with results is dropped.
ResultsAlone(message) ==
  LET text == ContentText(message.blocks)
      calls == CallsOf(message.blocks)
      results == Results(message.blocks)
  IN IF results = <<>> THEN <<Message(message.role, text, calls, 0)>> ELSE results

\* A message's results come first, each as a message of its own.
Unified(message) ==
  LET text == ContentText(message.blocks)
      calls == CallsOf(message.blocks)
      results == Results(message.blocks)
  IN results \o (IF text # <<>> \/ calls # <<>> \/ results = <<>>
                 THEN <<Message(message.role, text, calls, 0)>> ELSE <<>>)

\* An OpenAI client sends each result as a message; its blocks are the message's fields.
UnifiedOpenAI(message) ==
  LET result == Of(message.blocks, "tool_result")
  IN <<IF result # <<>> THEN Message("tool", result[1].text, <<>>, result[1].id)
       ELSE Message(message.role, ContentText(Of(message.blocks, "text")), CallsOf(message.blocks), 0)>>

ParseUnifiedRequest(messages, source) ==
  FlattenSeq([i \in DOMAIN messages |->
    IF source = "anthropic" THEN Unified(messages[i]) ELSE UnifiedOpenAI(messages[i])])

-----------------------------------------------------------------------------
(* Writing *)

Part(type, text, call, id) == [type |-> type, text |-> text, call |-> call, id |-> id]
TextPart(text) == IF text = <<>> THEN <<>> ELSE <<Part("text", text, NoCall, 0)>>
CallPart(call) == Part("call", <<>>, call, 0)
CallParts(calls) == [i \in DOMAIN calls |-> CallPart(calls[i])]
ResultPart(m) == <<Part("result", m.content, NoCall, m.id)>>

Turn(role, parts) == [role |-> role, parts |-> parts]

\* A later system message is sent as a user's reminder.
OpenAIMessage(m, i) ==
  CASE m.role = "system" -> Turn(IF i = 1 THEN "system" ELSE "user", TextPart(m.content))
    [] m.role = "tool" -> Turn("tool", ResultPart(m))
    [] OTHER -> Turn(m.role, TextPart(m.content) \o CallParts(m.calls))

OpenAIPayload(messages) == [i \in DOMAIN messages |-> OpenAIMessage(messages[i], i)]

\* Turns of one role are merged, and empty ones left out.
Added(turns, turn) ==
  IF turn.parts = <<>> THEN turns
  ELSE IF turns # <<>> /\ Last(turns).role = turn.role
       THEN [turns EXCEPT ![Len(turns)].parts = @ \o turn.parts]
       ELSE Append(turns, turn)

\* System messages go to the system prompt.
AnthropicTurn(m) ==
  CASE m.role = "system" -> Turn("system", <<>>)
    [] m.role = "assistant" -> Turn("assistant", TextPart(m.content) \o CallParts(m.calls))
    [] m.role = "tool" -> Turn("user", IF m.id = 0 THEN TextPart(m.content) ELSE ResultPart(m))
    [] OTHER -> Turn("user", TextPart(m.content))

AnthropicPayload(messages) ==
  FoldLeft(LAMBDA turns, m : Added(turns, AnthropicTurn(m)), <<>>, messages)

GeminiTurn(m, called) ==
  CASE m.role = "system" -> Turn("user", <<>>)
    [] m.role = "assistant" -> Turn("model", TextPart(m.content) \o CallParts(m.calls))
    [] m.role = "tool" -> Turn("user", IF m.id \in called THEN ResultPart(m) ELSE TextPart(m.content))
    [] OTHER -> Turn("user", TextPart(m.content))

GeminiPayload(messages) ==
  LET Called(i) == UNION {{c.id : c \in ToSet(messages[j].calls)} : j \in 1 .. i - 1}
  IN FoldLeftDomain(LAMBDA turns, i : Added(turns, GeminiTurn(messages[i], Called(i))), <<>>, messages)

\* What an upstream that speaks the client's own format is sent: the client's messages.
OwnParts(blocks) ==
  FlattenSeq([i \in DOMAIN blocks |->
    CASE blocks[i].type = "text" -> TextPart(blocks[i].text)
      [] blocks[i].type = "tool_use" -> <<CallPart(blocks[i].call)>>
      [] blocks[i].type = "tool_result" -> ResultPart([content |-> blocks[i].text, id |-> blocks[i].id])
      [] OTHER -> <<Part("thinking", blocks[i].text, NoCall, 0)>>])

OwnPayload(messages) == [i \in DOMAIN messages |-> Turn(messages[i].role, OwnParts(messages[i].blocks))]

Wires == {"openai", "anthropic", "gemini"}

buildPayload(wire, source, messages) ==
  LET unified == ParseUnifiedRequest(messages, source)
  IN CASE wire = source -> OwnPayload(messages)
       [] wire = "openai" -> OpenAIPayload(unified)
       [] wire = "anthropic" -> AnthropicPayload(unified)
       [] wire = "gemini" -> GeminiPayload(unified)
=============================================================================
