---------------------------- MODULE Conversation ----------------------------
(***************************************************************************)
(* An agent's conversation through the gateway, turn after turn.  The      *)
(* client sends its whole history each time; the gateway prunes it, writes *)
(* it for an upstream of any format, repairs or refuses the reply, and     *)
(* answers in the client's format; the client runs the calls, in plan mode *)
(* writes its plan file, and asks again.                                   *)
(***************************************************************************)
EXTENDS Payloads

CONSTANTS
  Sources,      \* formats of clients: "anthropic", "openai"
  Replies,      \* what upstreams reply; the ids of the calls are 1, 2, ...
  Outcomes,     \* outcomes of a Bash call, among "big", "short", "failed"
  MaxMessages   \* bound: messages of a history

ASSUME ConversationAssumption ==
  /\ Sources \subseteq {"anthropic", "openai"} /\ MaxMessages \in Nat
  /\ Outcomes \subseteq {"big", "short", "failed"}

VARIABLES
  source,     \* the client's format
  messages,   \* the client's history
  client,     \* its plan mode and its plan file
  payload,    \* what the last upstream was sent
  delivered,  \* history: the upstream's reply the client was just given, and how
  stored,     \* the reply that is cached for the last request, if one is
  nextId      \* the id of the next call

vars == <<source, messages, client, payload, delivered, stored, nextId>>

NoPayload == [wire |-> "", turns |-> <<>>, tools |-> [t \in Tools |-> "whole"], pruned |-> <<>>]
Nothing == [thinking |-> <<>>, text |-> <<>>, calls |-> <<>>]

\* `how' is the wire of the upstream, or "" when there is nothing to tell.
None == [how |-> "", calls |-> <<>>]

Init ==
  /\ source \in Sources
  /\ messages = <<>>
  /\ client = [planning |-> FALSE, file |-> <<>>]
  /\ payload = NoPayload /\ delivered = None /\ stored = Nothing
  /\ nextId = 0

-----------------------------------------------------------------------------
(* The client.  Claude Code is not part of the repository: it is modelled   *)
(* from what the gateway and its tests expect of it.                        *)

Room(n) == Len(messages) + n <= MaxMessages

Asked == messages # <<>> /\ Last(messages).role # "assistant"
Calling == ~Asked /\ messages # <<>> /\ Of(Last(messages).blocks, "tool_use") # <<>>

Reminder == TextBlock(<<Atom("reminder", IF client'.file = <<>> THEN "create" ELSE "exists", NoCall)>>)

Reminders(planning) == IF planning THEN <<Reminder>> ELSE <<>>

\* A human's message; plan mode may begin with it.  A system message may follow it.
Say(plan, update) ==
  /\ ~Asked /\ ~Calling /\ Room(2)
  /\ plan => source = "anthropic" /\ ~client.planning /\ messages = <<>>
  /\ client' = [client EXCEPT !.planning = @ \/ plan]
  /\ messages' = messages
       \o <<[role |-> "user", blocks |-> Reminders(client'.planning) \o <<TextBlock(<<Word("asks"), Atom("filler", "", NoCall)>>)>>]>>
       \o (IF update THEN <<[role |-> "system", blocks |-> <<TextBlock(<<Word("update")>>)>>]>> ELSE <<>>)
  /\ delivered' = None /\ stored' = Nothing
  /\ UNCHANGED <<source, payload, nextId>>

\* What running a call returns; only an ExitPlanMode with a plan file is approved.
OutcomesOf(call) ==
  CASE call.name = "Bash" -> Outcomes
    [] call.name \in FileTools -> {"code"}
    [] call.name = "Write" -> {"short"}
    [] call.name = "ExitPlanMode" -> {IF client.file # <<>> THEN "approved" ELSE "failed"}

Uses == CallsOf(Last(messages).blocks)

Answers(outcome) == [i \in DOMAIN Uses |-> ToolResult(Uses[i].id, <<Word(outcome[i]), Atom("filler", "", NoCall)>>)]

\* An OpenAI client sends each result as a message.
ToolMessages(outcome, note) ==
  IF source = "anthropic" THEN <<[role |-> "user", blocks |-> Answers(outcome) \o note]>>
  ELSE [i \in DOMAIN Uses |-> [role |-> "tool", blocks |-> <<Answers(outcome)[i]>>]]

\* The plan file holds what was written last; leaving plan mode takes an approved plan.
AfterCall(c, call) ==
  CASE ~c.planning -> c
    [] call.name = "Write" -> [c EXCEPT !.file = call.arg]
    [] call.name = "ExitPlanMode" -> [c EXCEPT !.planning = c.file = <<>>]
    [] OTHER -> c

\* With the results come nothing, a reminder of plan mode, or what a human adds.
Notes == IF source = "openai" THEN {<<>>}
         ELSE {<<>>, <<TextBlock(<<Word("adds")>>)>>} \cup {Reminders(client'.planning)}

RunTools ==
  /\ Calling /\ Room(Len(Uses))
  /\ client' = FoldLeft(AfterCall, client, Uses)
  /\ \E note \in Notes : \E outcome \in [DOMAIN Uses -> UNION {OutcomesOf(Uses[i]) : i \in DOMAIN Uses}] :
       /\ \A i \in DOMAIN Uses : outcome[i] \in OutcomesOf(Uses[i])
       /\ messages' = messages \o ToolMessages(outcome, note)
  /\ delivered' = None /\ stored' = Nothing
  /\ UNCHANGED <<source, payload, nextId>>

-----------------------------------------------------------------------------
(* The gateway *)

\* The request: pruned, and written for the upstream that is tried.
Ask(wire, forced) ==
  /\ Asked /\ payload.pruned = <<>> /\ Room(1)
  /\ LET pruned == PruneMessages(messages, source, forced)
     IN payload' = [wire |-> wire, turns |-> buildPayload(wire, source, pruned),
                    tools |-> CompactToolDefinitions(messages), pruned |-> pruned]
  /\ UNCHANGED <<source, messages, client, delivered, stored, nextId>>

Numbered(call) == IF call = NoCall THEN call ELSE [call EXCEPT !.id = @ + nextId]

Received(r) ==
  [r EXCEPT !.content = [i \in DOMAIN @ |-> [@[i] EXCEPT !.call = Numbered(@)]],
            !.calls = [i \in DOMAIN @ |-> Numbered(@[i])]]

MessageOf(said) ==
  [role |-> "assistant",
   blocks |-> (IF said.thinking = <<>> THEN <<>> ELSE <<ThinkingBlock(said.thinking)>>)
              \o (IF said.text = <<>> /\ (said.thinking # <<>> \/ said.calls # <<>>) THEN <<>> ELSE <<TextBlock(said.text)>>)
              \o [i \in DOMAIN said.calls |-> ToolUse(said.calls[i])]]

Deliver(how, r, said, cached) ==
  /\ delivered' = [how |-> how, calls |-> r.calls]
  /\ messages' = Append(messages, MessageOf(said))
  /\ stored' = cached
  /\ payload' = NoPayload
  /\ nextId' = nextId + 3
  /\ UNCHANGED <<source, client>>

Seen == ParseUnifiedRequest(payload.pruned, source)

AsReceived(r) == [thinking |-> r.reasoning, text |-> r.content, calls |-> r.calls]

\* The router's reply in the client's format, or Anthropic's own reply as it is; it is
\* cached as it is sent.
Translated(r, repaired) ==
  CASE source = "openai" -> buildOpenAICompletion(repaired)
    [] payload.wire = "anthropic" -> AsReceived(r)
    [] OTHER -> ConvertOpenAIToAnthropicResponseForRequest(repaired, Seen, nextId + 3)

Routed(given) ==
  /\ payload.pruned # <<>>
  /\ LET r == Received(given)
         repaired == Repaired(r, Tools)
         said == Translated(r, repaired)
     IN /\ ~LeaksCall(r, Tools)
        /\ checkReply(repaired, Tools, Seen)
        /\ Deliver(payload.wire, r, said, said)

\* A reply is refused, or its upstream fails: the next target is tried.
FailOver ==
  /\ payload.pruned # <<>>
  /\ payload' = NoPayload
  /\ UNCHANGED <<source, messages, client, delivered, stored, nextId>>

\* What the collectors keep of a stream; a stream without anything they keep is not cached.
AnthropicCollected(r) == AsReceived(r)
OpenAICollected(r) == IF r.content = <<>> THEN Nothing ELSE [Nothing EXCEPT !.text = r.content]

\* Without a router the upstream's stream is passed on as it is.
PassOn(given) ==
  /\ payload.pruned # <<>> /\ payload.wire = source
  /\ LET r == Received(given)
     IN Deliver("passed", r, AsReceived(r),
               IF source = "anthropic" THEN AnthropicCollected(r) ELSE OpenAICollected(r))

Next ==
  \/ \E plan, update \in BOOLEAN : Say(plan, update)
  \/ RunTools
  \/ \E wire \in Wires, forced \in BOOLEAN : Ask(wire, forced)
  \/ \E given \in Replies : Routed(given) \/ PassOn(given)
  \/ FailOver

Spec == Init /\ [][Next]_vars

-----------------------------------------------------------------------------
(* Properties *)

PartsOf(turns) == FlattenSeq([i \in DOMAIN turns |->
                    [j \in DOMAIN turns[i].parts |-> [role |-> turns[i].role, part |-> turns[i].parts[j]]]])
CallIds(parts) == LET calls == SelectSeq(parts, LAMBDA p : p.part.type = "call")
                  IN [i \in DOMAIN calls |-> calls[i].part.call.id]
ResultIds(parts) == LET results == SelectSeq(parts, LAMBDA p : p.part.type = "result")
                    IN [i \in DOMAIN results |-> results[i].part.id]

\* Every upstream format wants a turn's calls answered before anything else is said, and
\* Anthropic and Gemini want turns to alternate: however many results, notes and system
\* messages the client put between them, a payload written from another format has each
\* run of calls followed at once by exactly its results, and no two turns of one role.
PayloadWellFormed ==
  LET parts == PartsOf(payload.turns)
      Is(i, type) == i \in DOMAIN parts /\ parts[i].part.type = type
  IN payload.wire # source =>
       /\ \A i \in DOMAIN parts : Is(i, "call") /\ ~Is(i + 1, "call") =>
            LET n == CHOOSE n \in 1 .. i : /\ \A k \in i - n + 1 .. i : Is(k, "call")
                                           /\ ~Is(i - n, "call")
                Ids(from) == {IF Is(k, "call") THEN parts[k].part.call.id ELSE parts[k].part.id : k \in from}
            IN /\ \A k \in i + 1 .. i + n : Is(k, "result")
               /\ Ids(i + 1 .. i + n) = Ids(i - n + 1 .. i)
               /\ ~Is(i + n + 1, "result")
       /\ payload.wire \in {"anthropic", "gemini"} =>
            \A i \in 1 .. Len(payload.turns) - 1 : payload.turns[i].role # payload.turns[i + 1].role

Count(seq, Test(_)) == Len(SelectSeq(seq, Test))
SaidBy(m) == FlattenSeq([i \in DOMAIN m.blocks |->
               IF m.blocks[i].type = "text" THEN Without(m.blocks[i].text, {"filler"}) ELSE <<>>])
Occurs(text, parts) == \E p \in ToSet(parts) : Includes(p.part.text, text)

\* Nothing that was said is lost or said twice on the way to an upstream: every call and
\* every result of the history is in the payload once, and so is the text of every message
\* but the filler that pruning drops and the system messages that the Anthropic and the
\* Gemini adapters keep elsewhere.
NothingLost ==
  payload.wire # "" =>
    LET parts == PartsOf(payload.turns)
    IN \A m \in ToSet(messages) : \A b \in ToSet(m.blocks) :
         /\ b.type = "tool_use" => Count(CallIds(parts), LAMBDA id : id = b.call.id) = 1
         /\ b.type = "tool_result" => Count(ResultIds(parts), LAMBDA id : id = b.id) = 1
         /\ b.type = "text" /\ ~(m.role = "system" /\ payload.wire \in {"anthropic", "gemini"})
              => Occurs(Without(b.text, {"filler"}), parts)

\* The last turns' results, source code and what file tools have read reach the upstream
\* word for word, and so do the definitions of the tools that were called.
ContextKept ==
  payload.wire # "" =>
    LET parts == PartsOf(payload.turns)
        calls == UNION {ToSet(CallsOf(m.blocks)) : m \in ToSet(messages)}
        Recent(i) == Cardinality({j \in i + 1 .. Len(messages) : messages[j].role \in {"user", "tool"}}) < RecentTurnsToKeep
        Whole(b) == \E p \in ToSet(parts) : p.part.type = "result" /\ p.part.id = b.id /\ p.part.text = b.text
    IN /\ \A i \in DOMAIN messages : \A b \in ToSet(Of(messages[i].blocks, "tool_result")) :
            Recent(i) \/ looksLikeSourceCode(b.text) \/ (\E c \in calls : c.id = b.id /\ c.name \in FileTools) => Whole(b)
       /\ \A c \in calls : c.name \in Tools => payload.tools[c.name] = "whole"

\* What an Anthropic client of the router sees of an upstream of another format never
\* shows the calls it is given a second time, as the markup the model wrote them in.
Markup == {"dsml", "hermes", "json", "bash", "leaked"}
Translating == delivered.how \in Wires \ {"anthropic"} /\ source = "anthropic"
NoCallShown ==
  Translating =>
    LET text == UNION {ToSet(b.text) : b \in ToSet(Of(Last(messages).blocks, "text"))}
        calls == ToSet(CallsOf(Last(messages).blocks))
    IN \A a \in text : a.kind \notin DSML \cup Hermes /\ (a.kind \in Markup => a.call \notin calls)

Names(calls) == {c.name : c \in ToSet(calls)}
NamesIn(m) == Names(CallsOf(m.blocks))

\* Plan mode is left only with a plan: as long as no Write was called since plan mode
\* began, the router delivers no ExitPlanMode of an upstream it translates, however the
\* model wrote it; and an ExitPlanMode that comes after the Write is delivered.
PlanFirst ==
  Translating /\ client.planning =>
    LET wrote == \E m \in ToSet(Front(messages)) : "Write" \in NamesIn(m)
    IN IF wrote THEN "ExitPlanMode" \in Names(delivered.calls) => "ExitPlanMode" \in NamesIn(Last(messages))
       ELSE "ExitPlanMode" \notin NamesIn(Last(messages))

AutonomousSince(i) ==
  \A k \in i + 1 .. Len(messages) : messages[k].role = "user" =>
    \A b \in ToSet(Of(messages[k].blocks, "text")) : Without(b.text, {"reminder"}) = <<>>
AssistantTurns == SelectSeq([i \in DOMAIN messages |-> i], LAMBDA i : messages[i].role = "assistant")

\* The same calls were just delivered for the third time, and no human said a word.
ThirdTime ==
  LET n == Len(AssistantTurns)
      calls(i) == CallsOf(messages[AssistantTurns[i]].blocks)
  IN /\ delivered.how \in Wires /\ n >= 3 /\ calls(n) # <<>> /\ AutonomousSince(AssistantTurns[n - 1])
     /\ areToolCallsEqual(calls(n), calls(n - 1)) /\ areToolCallsEqual(calls(n), calls(n - 2))

\* An agent that no human interrupts is not left in a loop: whatever text and thinking
\* differ, the router never delivers the same calls for the third time in a row, except
\* for an ExitPlanMode, whose argument handlePlanMode has rewritten in the history.
LoopBroken == ThirdTime => "ExitPlanMode" \in NamesIn(Last(messages))

\* What is cached for a request is the reply the client got.
ReplayIsTheReply ==
  messages # <<>> /\ Last(messages).role = "assistant" /\ stored # Nothing => MessageOf(stored) = Last(messages)
=============================================================================
