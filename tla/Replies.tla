------------------------------ MODULE Replies ------------------------------
(***************************************************************************)
(* What becomes of a model's reply: calls written as text are turned into  *)
(* calls, thinking is moved out of the text, plan mode is kept intact, and *)
(* replies an agent cannot use are refused.                                *)
(*                                                                         *)
(* Text is a sequence of atoms.  An atom is a word, a fragment of markup,  *)
(* or a call written in one of the formats models use; `in' names the      *)
(* thinking tag it is inside of, and `open' says that its closing tag is   *)
(* missing, which happens to the last atom of a reply only.                *)
(***************************************************************************)
EXTENDS Integers, SequencesExt

NoCall == [id |-> 0, name |-> "", arg |-> <<>>]
Atom(kind, val, call) == [kind |-> kind, in |-> "", open |-> FALSE, val |-> val, call |-> call]

Word(val) == Atom("word", val, NoCall)
Written(kind, call) == Atom(kind, "", call)

\* Words that look like a plan, and words that say plan mode is being left.
PlanWords == {"plan"}
ExitWords == {"exiting"}

Tags == <<"think", "scratchpad", "thought">>
DSML == {"dsml", "dsmlTag"}
Hermes == {"hermes", "echo"}   \* <tool_call>, and an echoed <tool_response> or <tools>

HasKind(text, kinds) == \E i \in DOMAIN text : text[i].kind \in kinds
Without(text, kinds) == SelectSeq(text, LAMBDA a : a.kind \notin kinds)
Before(text, kind) == SubSeq(text, 1, SelectInSeq(text, LAMBDA a : a.kind = kind) - 1)

\* The thoughts tag by tag, and the text without them.
extractThinkingBlocks(text) ==
  [thinking |-> FlattenSeq([i \in DOMAIN Tags |->
                  LET Inside(a) == a.in = Tags[i] IN
                  LET inside == SelectSeq(text, Inside) IN
                  [j \in DOMAIN inside |-> [inside[j] EXCEPT !.in = ""]]]),
   text |-> SelectSeq(text, LAMBDA a : a.in = "")]

-----------------------------------------------------------------------------
(* Calls written as text.  Each parser returns the text without the calls. *)

Found(text, calls) == [text |-> text, calls |-> calls]

\* A call without a name is not one.
Calls(text, kind, open) ==
  LET Named(a) == a.kind = kind /\ a.open = open /\ a.call.name # ""
      named == SelectSeq(text, Named)
  IN [i \in DOMAIN named |-> named[i].call]

\* An unclosed call counts only when none is closed; what precedes it is kept as it is.
parseDSMLToolCalls(text) ==
  IF \E i \in DOMAIN text : text[i].kind = "dsml" /\ ~text[i].open
  THEN Found(Without(text, DSML), Calls(text, "dsml", FALSE))
  ELSE Found(Without(text, {"dsml"}), Calls(text, "dsml", TRUE))

StripDSMLTags(text) == Without(text, DSML)
StripHermesTags(text) == Without(text, Hermes)

parseToolCallBlocks(text) ==
  Found(StripHermesTags(text), Calls(text, "hermes", FALSE) \o Calls(text, "hermes", TRUE))

\* Fences that hold no call stay in the text.
NotCalled(text, kind) == SelectSeq(text, LAMBDA a : ~(a.kind = kind /\ a.call.name # ""))

parseMarkdownJSONToolCalls(text) ==
  Found(NotCalled(text, "json"), Calls(text, "json", FALSE) \o Calls(text, "json", TRUE))

\* "tool call: name(args)": what follows the first one is taken for its arguments.
extractStandardTextToolCalls(text) ==
  IF Cardinality({i \in DOMAIN text : text[i].kind = "legacy"}) = 1
  THEN Found(Before(text, "legacy"), Calls(text, "legacy", FALSE))
  ELSE Found(text, <<>>)

\* Commands in a plan are part of the plan.
parseMarkdownBashToolCalls(text) ==
  IF \E i \in DOMAIN text : text[i].val \in PlanWords \cup ExitWords
  THEN Found(text, <<>>)
  ELSE Found(NotCalled(text, "bash"), Calls(text, "bash", FALSE) \o Calls(text, "bash", TRUE))

Attempts(text) ==
  << parseMarkdownJSONToolCalls(text), extractStandardTextToolCalls(text),
     parseMarkdownBashToolCalls(text) >>

\* The first format that yields a call; tags of the first two are stripped in any case.
extractTextToolCalls(text) ==
  IF HasKind(text, DSML)
  THEN LET parsed == parseDSMLToolCalls(text)
       IN IF parsed.calls # <<>> THEN parsed ELSE Found(StripDSMLTags(text), <<>>)
  ELSE IF HasKind(text, Hermes) THEN parseToolCallBlocks(text)
  ELSE LET i == SelectInSeq(Attempts(text), LAMBDA found : found.calls # <<>>)
       IN IF i = 0 THEN Found(text, <<>>) ELSE Attempts(text)[i]

\* call:Name{...}: all of them are calls of declared tools, or the reply is refused.
extractLeakedCalls(text, tools) ==
  LET leaked == SelectSeq(text, LAMBDA a : a.kind = "leaked")
      known == \A i \in DOMAIN leaked : leaked[i].call.name \in tools
  IN IF leaked = <<>> THEN [text |-> text, calls |-> <<>>, leaked |-> FALSE]
     ELSE IF known THEN [text |-> Before(text, "leaked"), calls |-> Calls(text, "leaked", FALSE), leaked |-> FALSE]
     ELSE [text |-> text, calls |-> <<>>, leaked |-> TRUE]

-----------------------------------------------------------------------------
(* Plan mode *)

\* What the history says: the latest reminder, and what came after it.  The one
\* file of this model that a Write writes is the plan file.
extractPlanModeContext(messages) ==
  LET Reminds(m) == m.role \in {"user", "system"} /\ HasKind(m.content, {"reminder"})
      last == SelectLastInSeq(messages, Reminds)
      later == IF last = 0 THEN {} ELSE ToSet(SubSeq(messages, last + 1, Len(messages)))
      ExitOf(m) == m.role = "tool" /\ \E a \in ToSet(m.content) : a.val = "approved"
      WriteOf(m) == m.role = "assistant" /\ \E c \in ToSet(m.calls) : c.name \in {"Write", "Edit"}
      Exists(m) == \E a \in ToSet(m.content) : a.kind = "reminder" /\ a.val = "exists"
  IN [active |-> last # 0 /\ ~\E m \in later : ExitOf(m),
      written |-> last # 0 /\ ((\E m \in later : WriteOf(m)) \/ Exists(messages[last]))]

IsPlan(text) == \E a \in ToSet(text) : a.val \in PlanWords
SaysExit(text) == \E a \in ToSet(text) : a.val \in ExitWords

\* The plan a call of ExitPlanMode comes with: its argument, the text, or a plan in the thinking.
resolvePlanText(text, thinking, call) ==
  IF call.arg # <<>> THEN call.arg
  ELSE IF text # <<>> THEN text
  ELSE IF IsPlan(thinking) THEN thinking ELSE <<>>

Includes(text, part) == \E i \in 1 .. Len(text) : IsPrefix(part, SubSeq(text, i, Len(text)))

newPlanFileWrite(id, plan) == [id |-> id, name |-> "Write", arg |-> plan]

\* Mutant: the plan file is never written for the model.
NeedsPlanNever(ctx) == FALSE
NeedsPlanFile(ctx) == ctx.active /\ ~ctx.written

\* An ExitPlanMode shows its plan, and becomes a Write as long as the plan file is not written.
PlannedExit(ctx, thinking, acc, call) ==
  LET fromArgs == IF call.arg = <<>> /\ acc.text = <<>> THEN thinking ELSE call.arg
      plan == IF fromArgs = <<>> THEN acc.text ELSE fromArgs
      shown == IF acc.text = <<>> THEN plan
               ELSE IF Includes(acc.text, plan) THEN acc.text ELSE acc.text \o plan
  IN IF plan = <<>> THEN Found(acc.text, Append(acc.calls, call))
     ELSE Found(shown, Append(acc.calls,
            IF NeedsPlanFile(ctx) THEN newPlanFileWrite(call.id, plan) ELSE [call EXCEPT !.arg = plan]))

\* In plan mode a text that presents a plan and says so is given the call it lacks.
SynthesizedCall(ctx, text, id) ==
  IF NeedsPlanFile(ctx) THEN newPlanFileWrite(id, text)
  ELSE [id |-> id, name |-> "ExitPlanMode", arg |-> text]

handlePlanMode(text, thinking, calls, ctx, id) ==
  LET Next(acc, call) == IF call.name = "ExitPlanMode" THEN PlannedExit(ctx, thinking, acc, call)
                         ELSE Found(acc.text, Append(acc.calls, call))
      planned == FoldLeft(Next, Found(text, <<>>), calls)
  IN IF ctx.active /\ calls = <<>> /\ IsPlan(text) /\ SaysExit(text)
     THEN Found(text, <<SynthesizedCall(ctx, text, id)>>)
     ELSE planned

-----------------------------------------------------------------------------
(* The checks a reply has to pass.  A reply is [content, reasoning, calls].  *)

\* Calls written as text become calls; markup is stripped.
Repaired(reply, tools) ==
  LET found == extractTextToolCalls(reply.content)
      leaked == extractLeakedCalls(found.text, tools)
  IN IF reply.calls # <<>> THEN [reply EXCEPT !.content = StripDSMLTags(@)]
     ELSE IF found.calls # <<>> THEN [reply EXCEPT !.content = found.text, !.calls = found.calls]
     ELSE [reply EXCEPT !.content = leaked.text, !.calls = leaked.calls]

LeaksCall(reply, tools) ==
  reply.calls = <<>> /\ extractLeakedCalls(reply.content, tools).leaked

visibleReplyText(reply) ==
  LET text == extractThinkingBlocks(reply.content).text
  IN IF reply.reasoning # <<>> /\ text = reply.reasoning THEN <<>> ELSE text

Undeclared(reply, tools) == \E c \in ToSet(reply.calls) : c.name \notin tools

isEmptyExitPlanMode(messages, reply) ==
  LET split == extractThinkingBlocks(reply.content)
  IN /\ NeedsPlanFile(extractPlanModeContext(messages))
     /\ \E c \in ToSet(reply.calls) :
          c.name = "ExitPlanMode" /\ resolvePlanText(split.text, reply.reasoning \o split.thinking, c) = <<>>

\* The same calls, in any order and whatever their ids.
areToolCallsEqual(calls1, calls2) ==
  LET Key(c) == <<c.name, c.arg>>
      Count(calls, k) == Cardinality({i \in DOMAIN calls : Key(calls[i]) = k})
  IN /\ Len(calls1) = Len(calls2)
     /\ \A c \in ToSet(calls1) : Count(calls1, Key(c)) = Count(calls2, Key(c))

Automated(m) == m.content # <<>> /\ Without(m.content, {"reminder"}) = <<>>

LastAssistant(messages) == SelectLastInSeq(messages, LAMBDA m : m.role = "assistant")

\* Mutant: turns before the last one are not looked at.
NoPrior(messages, calls) == FALSE

hasPriorIdenticalToolCall(messages, calls) ==
  \E i \in 1 .. LastAssistant(messages) - 1 :
    messages[i].role = "assistant" /\ areToolCallsEqual(messages[i].calls, calls)

\* A turn of an agent, with no human in between, that repeats the last one.
isRepetitionLoop(messages, reply) ==
  LET last == LastAssistant(messages)
      since == SubSeq(messages, last + 1, Len(messages))
      human == \E m \in ToSet(since) : m.role = "user" /\ ~Automated(m)
      failed == \E m \in ToSet(since) : m.role = "tool" /\ \E a \in ToSet(m.content) : a.val = "failed"
      sameText == reply.content = messages[last].content
      sameCalls == /\ reply.calls # <<>> /\ messages[last].calls # <<>>
                   /\ areToolCallsEqual(reply.calls, messages[last].calls)
  IN /\ last # 0 /\ ~human
     /\ \/ sameCalls /\ (sameText \/ failed \/ hasPriorIdenticalToolCall(messages, reply.calls))
        \/ reply.calls = <<>> /\ messages[last].calls = <<>> /\ sameText

\* Stalled, degenerate and undeclared-parameter replies are refused by their wording.
checkReply(reply, tools, messages) ==
  /\ ~LeaksCall(reply, tools)
  /\ visibleReplyText(reply) # <<>> \/ reply.calls # <<>>
  /\ ~Undeclared(reply, tools)
  /\ ~isEmptyExitPlanMode(messages, reply)
  /\ ~isRepetitionLoop(messages, reply)

-----------------------------------------------------------------------------
(* The client's formats *)

\* Mutant: markup beside structured calls is left in the text.
Unstripped(text) == text
Stripped(text) == StripHermesTags(StripDSMLTags(text))

\* The content blocks of the Anthropic message: thinking, then text, then calls.
ConvertOpenAIToAnthropicResponseForRequest(reply, messages, id) ==
  LET split == extractThinkingBlocks(reply.content)
      thinking == reply.reasoning \o split.thinking
      text == IF reply.reasoning # <<>> /\ split.text = reply.reasoning THEN <<>> ELSE split.text
      found == IF reply.calls = <<>> THEN extractTextToolCalls(text)
               ELSE Found(Stripped(text), reply.calls)
      planned == handlePlanMode(found.text, thinking, found.calls, extractPlanModeContext(messages), id)
  IN [thinking |-> thinking, text |-> planned.text, calls |-> planned.calls]

buildOpenAICompletion(reply) ==
  [thinking |-> reply.reasoning, text |-> reply.content, calls |-> reply.calls]
=============================================================================
