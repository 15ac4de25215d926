------------------------------ MODULE Streams ------------------------------
(***************************************************************************)
(* One live attempt, from the upstream's stream to the client's.  An       *)
(* adapter's goroutine reads the body and sends events through a channel;  *)
(* streamAttempt selects over the events, the error channel, the idle      *)
(* timer and the request's context; liveGate holds text back until it can  *)
(* no longer turn out to be markup or noise; the sink writes to the        *)
(* client, who may leave at any time.  A reply that never committed is     *)
(* replayed whole.                                                         *)
(*                                                                         *)
(* Text is a sequence of tokens: "w" a word, "n" wordless noise, "m1" and  *)
(* "m2" the halves of a marker the gate looks for, "u" markup that the     *)
(* translator strips and the gate does not look for.                       *)
(***************************************************************************)
EXTENDS Integers, SequencesExt

CONSTANTS
  Tokens, Indices,  \* the tokens an upstream uses, and its tool-call indices
  Protocols,        \* "openai", "anthropic", "gemini", and "unary" without a stream
  Replies,          \* texts of whole replies
  PreviousTurns,    \* texts the previous assistant turn may have
  Capacity,         \* of the event channel, 100
  HoldBack,         \* liveHoldback: one token less than a marker
  StallLength,      \* maxStallTextLen: tokens of the longest stall
  NoiseLength,      \* minDegenerateRunes: tokens of the shortest noise
  MaxChunks         \* bound: chunks an upstream sends

ASSUME StreamsAssumption ==
  /\ Tokens \subseteq {"w", "n", "m1", "m2", "u"}
  /\ Protocols \subseteq {"openai", "anthropic", "gemini", "unary"}
  /\ Replies \cup PreviousTurns \subseteq Seq(Tokens)
  /\ Capacity \in Nat \ {0} /\ HoldBack \in Nat \ {0} /\ StallLength \in Nat
  /\ NoiseLength \in Nat \ {0} /\ MaxChunks \in Nat

VARIABLES
  protocol, previous, \* of the upstream, and the previous turn's text
  reader, \* the adapter's goroutine
  queue,  \* the event channel
  errq,   \* an error waits in the error channel
  cons,   \* streamAttempt and, once it has returned, its caller
  wire,   \* what the client has been written
  gone    \* the client has left: its context is canceled

\* A tool call is the sequence of the fragments it was assembled from; <<0>> is one
\* the translator found in the text.  An upstream's error, a timeout, a cancellation
\* and a failed write all end an attempt alike, as an "error".
vars == <<protocol, previous, reader, queue, errq, cons, wire, gone>>

Init ==
  /\ protocol \in Protocols /\ previous \in PreviousTurns
  /\ reader = [pc |-> "opening", refused |-> FALSE, pending |-> <<>>, calls |-> <<>>,
               heard |-> 0, last |-> FALSE,
               text |-> <<>>, frags |-> <<>>, \* history: what it read
               whole |-> FALSE, failed |-> FALSE] \* history: how the stream ended
  /\ queue = <<>> /\ errq = FALSE
  /\ cons = [pc |-> "opening", events |-> TRUE, errs |-> TRUE, text |-> <<>>,
             thought |-> FALSE, calls |-> <<>>, committed |-> FALSE, result |-> "none",
             out |-> <<>>,  \* client events still to be written by a call of the sink
             final |-> [text |-> <<>>, calls |-> <<>>]] \* history: the reply after the checks
  /\ wire = <<>> /\ gone = FALSE

\* Mutant: returning does not cancel.
CanceledByClient == gone

\* The context of the attempt: canceled with the request's, and on return.
Canceled == gone \/ cons.pc \in {"returned", "done"}

-----------------------------------------------------------------------------
(* The adapters' readers *)

TextEvent(text) == [type |-> "text_delta", text |-> text]
ThinkingEvent == [type |-> "thinking_delta"]
CallEvent(call) == [type |-> "tool_call", call |-> call]

Ends(r) == [r EXCEPT !.pc = "ended"]

\* StreamChat fails, or has a stream to read.
Refuse ==
  /\ reader.pc = "opening"
  /\ reader' = [Ends(reader) EXCEPT !.refused = TRUE]
  /\ UNCHANGED <<protocol, previous, queue, errq, cons, wire, gone>>

Open ==
  /\ reader.pc = "opening" /\ protocol \in {"openai", "anthropic"}
  /\ reader' = [reader EXCEPT !.pc = "reading"]
  /\ UNCHANGED <<protocol, previous, queue, errq, cons, wire, gone>>

\* What SendChat makes of a whole reply; the parts of its calls are not told apart.
WholeReply(text, thinks, n) == [text |-> text, thought |-> thinks, calls |-> [i \in 1 .. n |-> <<i>>]]

WholeReplies == {WholeReply(text, thinks, n) : text \in Replies, thinks \in BOOLEAN, n \in 0 .. 1}

Read(reply) ==
  [Ends(reader) EXCEPT !.text = reply.text, !.whole = TRUE, !.frags = [i \in DOMAIN reply.calls |-> i]]

\* Gemini's StreamChat sends its whole reply through a channel it fits.
OpenWhole ==
  /\ reader.pc = "opening" /\ protocol = "gemini"
  /\ \E reply \in WholeReplies :
       /\ queue' = (IF reply.thought THEN <<ThinkingEvent>> ELSE <<>>)
                   \o (IF reply.text # <<>> THEN <<TextEvent(reply.text)>> ELSE <<>>)
                   \o [i \in DOMAIN reply.calls |-> CallEvent(reply.calls[i])]
       /\ reader' = Read(reply)
  /\ UNCHANGED <<protocol, previous, errq, cons, wire, gone>>

\* The goroutine blocks in the body's Read, or in a send.  A canceled body breaks
\* off: the lines that are still buffered then are left out.
InBody == reader.pc = "reading" /\ reader.pending = <<>>
Reading == InBody /\ ~Canceled

Heard(r) == [r EXCEPT !.heard = @ + 1]

ReadDelta ==
  /\ Reading /\ reader.heard < MaxChunks
  /\ \/ \E t \in Tokens :
          reader' = [Heard(reader) EXCEPT !.pending = <<TextEvent(<<t>>)>>, !.text = Append(@, t)]
     \/ reader' = [Heard(reader) EXCEPT !.pending = <<ThinkingEvent>>]
  /\ UNCHANGED <<protocol, previous, queue, errq, cons, wire, gone>>

Known(i) == \E k \in DOMAIN reader.calls : reader.calls[k].index = i

\* A fragment goes to the call of its index, which it may begin.
WithFragment(calls, i, part) ==
  IF \E k \in DOMAIN calls : calls[k].index = i
  THEN [k \in DOMAIN calls |->
         IF calls[k].index = i THEN [calls[k] EXCEPT !.parts = Append(@, part)] ELSE calls[k]]
  ELSE Append(calls, [index |-> i, parts |-> <<part>>])

\* OpenAI upstreams may interleave the fragments of several calls, under indices
\* of their own; Anthropic sends the blocks of a message one after the other.
ReadFragment ==
  /\ Reading /\ reader.heard < MaxChunks
  /\ \E i \in Indices :
       /\ protocol = "anthropic" /\ reader.calls = <<>> => i \notin ToSet(reader.frags)
       /\ protocol = "anthropic" /\ reader.calls # <<>> => Known(i)
       /\ reader' = [Heard(reader) EXCEPT
            !.calls = WithFragment(@, i, Len(reader.frags) + 1), !.frags = Append(@, i)]
  /\ UNCHANGED <<protocol, previous, queue, errq, cons, wire, gone>>

Assembled(calls) == [k \in DOMAIN calls |-> CallEvent(calls[k].parts)]

\* content_block_stop
ReadBlockStop ==
  /\ Reading /\ protocol = "anthropic" /\ reader.calls # <<>>
  /\ reader' = [reader EXCEPT !.calls = <<>>, !.pending = Assembled(reader.calls)]
  /\ UNCHANGED <<protocol, previous, queue, errq, cons, wire, gone>>

\* [DONE] or message_stop, or the end of the body.  OpenAI's calls are sent now;
\* the finish and done events, which carry neither text nor calls, are left out.
ReadEnd ==
  /\ Reading
  /\ \E stopped \in BOOLEAN :
       /\ protocol = "anthropic" /\ stopped => reader.calls = <<>>
       /\ LET events == IF protocol = "openai" THEN Assembled(reader.calls) ELSE <<>>
          IN  reader' = [reader EXCEPT
                !.pending = events, !.last = TRUE, !.whole = stopped \/ protocol = "openai",
                !.pc = IF events = <<>> THEN "ended" ELSE @]
  /\ UNCHANGED <<protocol, previous, queue, errq, cons, wire, gone>>

\* An error chunk, or a body that breaks off as it does once it is canceled.
ReadError ==
  /\ InBody
  /\ reader' = [Ends(reader) EXCEPT !.failed = TRUE]
  /\ errq' = TRUE
  /\ UNCHANGED <<protocol, previous, queue, cons, wire, gone>>

HasRoom == Len(queue) < Capacity

\* send and emit: the event goes into the channel, or nobody waits for it any more.
Send ==
  /\ reader.pending # <<>> /\ reader.pc = "reading"
  /\ \/ /\ HasRoom
        /\ queue' = Append(queue, Head(reader.pending))
        /\ reader' = [reader EXCEPT !.pending = Tail(@),
             !.pc = IF reader.last /\ Len(reader.pending) = 1 THEN "ended" ELSE @]
     \/ /\ Canceled
        /\ reader' = Ends([reader EXCEPT !.pending = <<>>])
        /\ UNCHANGED queue
  /\ UNCHANGED <<protocol, previous, errq, cons, wire, gone>>

\* Both channels are closed when the goroutine ends.
Closed == reader.pc = "ended"

-----------------------------------------------------------------------------
(* What the client is written *)

Start == [type |-> "message_start"]
BlockStart(i, kind) == [type |-> "content_block_start", index |-> i, kind |-> kind]
TextDelta(i, text) == [type |-> "text_delta", index |-> i, text |-> text]
CallDelta(i, call) == [type |-> "input_json_delta", index |-> i, call |-> call]
ThinkingDelta(i) == [type |-> "thinking_delta", index |-> i]
BlockStop(i) == [type |-> "content_block_stop", index |-> i]
Total == [type |-> "message_delta"]
Stop == [type |-> "message_stop"]
Error == [type |-> "error"]

Count(w, type) == Cardinality({k \in DOMAIN w : w[k].type = type})

NextIndex(w) == Count(w, "content_block_start")
TextOpen(w) == Count(w, "content_block_start") > Count(w, "content_block_stop")

TextOf(w) == FlattenSeq([k \in DOMAIN w |-> IF w[k].type = "text_delta" THEN w[k].text ELSE <<>>])
Thinking(i) == <<BlockStart(i, "thinking"), ThinkingDelta(i), BlockStop(i)>>
TextBlock(i, text) == <<BlockStart(i, "text"), TextDelta(i, text), BlockStop(i)>>
ToolUse(i, call) == <<BlockStart(i, "tool_use"), CallDelta(i, call), BlockStop(i)>>

\* openText and the delta; closeText.
ContinueText(w, text) ==
  IF text = <<>> THEN <<>>
  ELSE IF TextOpen(w) THEN <<TextDelta(NextIndex(w) - 1, text)>>
  ELSE <<BlockStart(NextIndex(w), "text"), TextDelta(NextIndex(w), text)>>

CloseText(w) == IF TextOpen(w) THEN <<BlockStop(NextIndex(w) - 1)>> ELSE <<>>

ToolUses(i, calls) == FlattenSeq([k \in DOMAIN calls |-> ToolUse(i + k - 1, calls[k])])

\* Mutant: a tool_use block follows an open text block.
TextLeftOpen(w, rest) == <<>>

\* The stream's text block ends when the validated text has been sent.
ClosedAfter(w, rest) == CloseText(w \o rest)

\* Finish: what was held back, the tool calls and the stop.  Text that does not
\* continue what was sent is not sent.
Finish(w, reply) ==
  LET rest == IF IsPrefix(TextOf(w), reply.text)
              THEN ContinueText(w, SubSeq(reply.text, Len(TextOf(w)) + 1, Len(reply.text)))
              ELSE <<>>
      text == rest \o ClosedAfter(w, rest)
  IN  text \o ToolUses(NextIndex(w \o text), reply.calls) \o <<Total, Stop>>

Fail(w) == CloseText(w) \o <<Error>>

\* replayAnthropicSSE, of a reply that has not been streamed.
Replay(thought, reply) ==
  LET thinking == IF thought THEN Thinking(0) ELSE <<>>
      i == NextIndex(thinking)
      text == IF reply.text # <<>> \/ (~thought /\ reply.calls = <<>>)
              THEN TextBlock(i, reply.text) ELSE <<>>
  IN  <<Start>> \o thinking \o text \o ToolUses(NextIndex(thinking \o text), reply.calls)
      \o <<Total, Stop>>

-----------------------------------------------------------------------------
(* liveGate *)

MarkersIn(text) == {k \in 1 .. Len(text) - 1 : text[k] = "m1" /\ text[k + 1] = "m2"}

\* The length of what comes before the trailing wordless run.
WordlessTail(text) ==
  LET words == {k \in DOMAIN text : text[k] # "n"}
  IN  IF words = {} THEN 0 ELSE Max(words)

Degenerate(text) == Len(text) - WordlessTail(text) >= NoiseLength

shouldCommit(text) ==
  /\ Len(text) > StallLength
  /\ MarkersIn(text) = {}
  /\ ~IsPrefix(text, previous) \/ previous = <<>>

\* Mutant: nothing is held back for a marker that has only begun.
FlushesAll(text) ==
  Min({Len(text), WordlessTail(text)} \cup {k - 1 : k \in MarkersIn(text)})

\* How much of the text may be sent.
FlushEnd(text) ==
  Min({Len(text) - HoldBack, WordlessTail(text)} \cup {k - 1 : k \in MarkersIn(text)})

\* What addText has the sink write, the text so far being text.
Streamed(c, text) ==
  LET started == IF c.committed THEN <<>>
                 ELSE <<Start>> \o (IF c.thought THEN Thinking(0) ELSE <<>>)
      sent == Len(TextOf(wire))
  IN  started \o ContinueText(wire \o started,
                   IF FlushEnd(text) > sent THEN SubSeq(text, sent + 1, FlushEnd(text)) ELSE <<>>)

Commits(c, text) == c.committed \/ shouldCommit(text)

\* addText of a text that is not degenerate.
Adds(c, delta) ==
  LET text == c.text \o delta
  IN  [c EXCEPT !.text = text, !.committed = Commits(c, text),
                !.out = IF Commits(c, text) THEN Streamed(c, text) ELSE <<>>]

-----------------------------------------------------------------------------
(* streamAttempt *)

At(pc) == cons.pc = pc /\ cons.out = <<>>

Returns(result) == [cons EXCEPT !.pc = "returned", !.result = result]

\* An attempt without a sink: the reply comes whole, to be checked and replayed.
SendChat ==
  /\ At("opening") /\ protocol = "unary" /\ reader.pc = "opening"
  /\ \E reply \in WholeReplies :
       /\ reader' = Read(reply)
       /\ cons' = [Returns("ok") EXCEPT !.text = reply.text, !.thought = reply.thought,
                                       !.calls = reply.calls]
  /\ UNCHANGED <<protocol, previous, queue, errq, wire, gone>>

Opened ==
  /\ At("opening") /\ reader.pc # "opening"
  /\ cons' = IF reader.refused THEN Returns("error") ELSE [cons EXCEPT !.pc = "select"]
  /\ UNCHANGED <<protocol, previous, reader, queue, errq, wire, gone>>

TakeEvent ==
  /\ At("select") /\ cons.events /\ queue # <<>>
  /\ queue' = Tail(queue)
  /\ LET event == Head(queue)
     IN  cons' = CASE event.type = "thinking_delta" -> [cons EXCEPT !.thought = @ \/ ~cons.committed]
                   [] event.type = "tool_call" -> [cons EXCEPT !.calls = Append(@, event.call)]
                   [] event.type = "text_delta" ->
                        LET text == cons.text \o event.text
                        IN  IF Degenerate(text)
                            THEN [Returns("noise") EXCEPT !.text = SubSeq(text, 1, WordlessTail(text))]
                            ELSE Adds(cons, event.text)
  /\ UNCHANGED <<protocol, previous, reader, errq, wire, gone>>

\* Mutant: the attempt is over when its events are, whatever the error channel holds.
OverWithEvents(events, errs) == ~events

\* The loop ends once both channels have been seen closed.
Over(events, errs) == ~events /\ ~errs

SeesClosed(events, errs) ==
  cons' = IF Over(events, errs) THEN [Returns("ok") EXCEPT !.events = events, !.errs = errs]
          ELSE [cons EXCEPT !.events = events, !.errs = errs]

EventsClosed ==
  /\ At("select") /\ cons.events /\ queue = <<>> /\ Closed
  /\ SeesClosed(FALSE, cons.errs)
  /\ UNCHANGED <<protocol, previous, reader, queue, errq, wire, gone>>

ErrsClosed ==
  /\ At("select") /\ cons.errs /\ ~errq /\ Closed
  /\ SeesClosed(cons.events, FALSE)
  /\ UNCHANGED <<protocol, previous, reader, queue, errq, wire, gone>>

\* The events still queued come before the error they preceded.
TakeError ==
  /\ At("select") /\ cons.errs /\ errq
  /\ errq' = FALSE
  /\ cons' = IF cons.events THEN [cons EXCEPT !.pc = "drain"] ELSE Returns("error")
  /\ UNCHANGED <<protocol, previous, reader, queue, wire, gone>>

Drain ==
  /\ At("drain")
  /\ \/ /\ queue # <<>>
        /\ LET event == Head(queue)
           IN  cons' = IF event.type # "text_delta" THEN cons
                       ELSE IF Degenerate(cons.text \o event.text)
                       THEN [Returns("error") EXCEPT !.text = @ \o event.text]
                       ELSE Adds(cons, event.text)
        /\ queue' = Tail(queue)
     \/ /\ queue = <<>> /\ Closed
        /\ cons' = Returns("error")
        /\ UNCHANGED queue
  /\ UNCHANGED <<protocol, previous, reader, errq, wire, gone>>

\* The idle timer, which premium targets do without.
IdleTimeout ==
  /\ At("opening") \/ At("select")
  /\ cons' = Returns("error")
  /\ UNCHANGED <<protocol, previous, reader, queue, errq, wire, gone>>

ContextDone ==
  /\ gone /\ (At("opening") \/ At("select"))
  /\ cons' = Returns("error")
  /\ UNCHANGED <<protocol, previous, reader, queue, errq, wire, gone>>

\* A call of the sink writes one event after the other.
Write ==
  /\ cons.out # <<>> /\ ~gone
  /\ wire' = Append(wire, Head(cons.out))
  /\ cons' = [cons EXCEPT !.out = Tail(@)]
  /\ UNCHANGED <<protocol, previous, reader, queue, errq, gone>>

\* A write fails once the client has left, and ends the call.
WriteFails ==
  /\ cons.out # <<>> /\ gone
  /\ cons' = [(IF cons.pc = "done" THEN cons ELSE Returns("error")) EXCEPT !.out = <<>>]
  /\ UNCHANGED <<protocol, previous, reader, queue, errq, wire, gone>>

-----------------------------------------------------------------------------
(* DispatchChat: the checks on the whole reply, and what becomes of it. *)

\* The translator's text and calls: markup is prose after all, is stripped, or
\* is a tool call if the reply has no others.
Prose(text) ==
  FlattenSeq([k \in DOMAIN text |->
    IF k \in MarkersIn(text) \/ k - 1 \in MarkersIn(text) THEN <<>> ELSE <<text[k]>>])

Shown(text) == FlattenSeq([k \in DOMAIN text |-> IF text[k] = "u" THEN <<>> ELSE <<text[k]>>])

Translations(text, calls) ==
  LET shown == Shown(text)
  IN  {[text |-> shown, calls |-> calls], [text |-> Prose(shown), calls |-> calls]}
        \cup (IF calls = <<>> /\ MarkersIn(shown) # {}
              THEN {[text |-> Prose(shown), calls |-> <<<<0>>>>]} ELSE {})

Concludes(out, reply) == cons' = [cons EXCEPT !.pc = "done", !.out = out, !.final = reply]

\* The reply is valid, or continued or given its notice; or, once it has been
\* streamed, cut where the noise starts.
Deliver ==
  /\ At("returned") /\ (cons.result = "ok" \/ (cons.result = "noise" /\ cons.committed))
  /\ \E tail \in {<<>>} \cup (IF cons.committed /\ cons.result = "ok" THEN {<<"w">>} ELSE {}) :
       \E reply \in Translations(cons.text \o tail, cons.calls) :
         Concludes(IF cons.committed THEN Finish(wire, reply) ELSE Replay(cons.thought, reply), reply)
  /\ UNCHANGED <<protocol, previous, reader, queue, errq, wire, gone>>

\* The checks reject the reply, or the attempt failed: the chain goes on, unless
\* the reply has been streamed.
GiveUp ==
  /\ At("returned")
  /\ cons.result = "noise" => ~cons.committed
  /\ Concludes(IF cons.committed THEN Fail(wire) ELSE <<>>, cons.final)
  /\ UNCHANGED <<protocol, previous, reader, queue, errq, wire, gone>>

\* A departure while the end of a message is written changes nothing but that.
Leave ==
  /\ ~gone /\ cons.pc # "done"
  /\ gone' = TRUE
  /\ UNCHANGED <<protocol, previous, reader, queue, errq, cons, wire>>

-----------------------------------------------------------------------------
ReaderStep == Refuse \/ Open \/ OpenWhole \/ ReadDelta \/ ReadFragment \/ ReadBlockStop \/ ReadEnd \/ ReadError \/ Send

ConsumerStep ==
  \/ SendChat \/ Opened \/ TakeEvent \/ EventsClosed \/ ErrsClosed \/ TakeError \/ Drain
  \/ IdleTimeout \/ ContextDone \/ Write \/ WriteFails \/ Deliver \/ GiveUp

Next == ReaderStep \/ ConsumerStep \/ Leave

Spec == Init /\ [][Next]_vars

\* An upstream owes no further byte; a canceled request owes the end of its body.
FairSpec ==
  /\ Spec
  /\ WF_vars(ConsumerStep) /\ WF_vars(Send)
  /\ WF_vars(Canceled /\ (Refuse \/ ReadError))

-----------------------------------------------------------------------------
\* The message w so far, as its protocol sees it.
Phase(w) ==
  IF w = <<>> THEN "unsent"
  ELSE CASE Last(w) = Stop  -> "stopped"
         [] Last(w) = Error -> "failed"
         [] Last(w) = Total -> "totalled"
         [] OTHER           -> "started"

OpenBlocks(w) ==
  {k \in DOMAIN w : /\ w[k].type = "content_block_start"
                    /\ \A j \in k .. Len(w) : w[j] # BlockStop(w[k].index)}

OpenBlock(w) == IF OpenBlocks(w) = {} THEN "none" ELSE w[Max(OpenBlocks(w))].kind

Deltas == {"text_delta", "thinking_delta", "input_json_delta"}

LastDelta(w) ==
  LET deltas == {k \in DOMAIN w : w[k].type \in Deltas}
  IN  IF deltas = {} THEN 0 ELSE w[Max(deltas)].index + 1

\* Whatever the upstream sends, whenever the gate commits and however the attempt
\* ends, the client reads a well-formed message, as far as it reads.
Message == INSTANCE MessageStream WITH
             phase <- Phase(wire),
             block <- OpenBlock(wire),
             count <- NextIndex(wire),
             last  <- LastDelta(wire)
WellFormed == Message!Spec

\* How AnthropicStreamCollector, and any client, puts a message together.
Fed(blocks, event) ==
  CASE event.type = "content_block_start" ->
         Append(blocks, [index |-> event.index, kind |-> event.kind, text |-> <<>>, call |-> <<>>])
    [] event.type = "text_delta" ->
         [k \in DOMAIN blocks |-> IF blocks[k].index = event.index
            THEN [blocks[k] EXCEPT !.text = @ \o event.text] ELSE blocks[k]]
    [] event.type = "input_json_delta" ->
         [k \in DOMAIN blocks |-> IF blocks[k].index = event.index
            THEN [blocks[k] EXCEPT !.call = @ \o event.call] ELSE blocks[k]]
    [] OTHER -> blocks

Blocks(w) ==
  LET blocks[n \in 0 .. Len(w)] == IF n = 0 THEN <<>> ELSE Fed(blocks[n - 1], w[n])
  IN  blocks[Len(w)]

BuildMessage(w) ==
  LET blocks == Blocks(w)
  IN  [text  |-> FlattenSeq([k \in DOMAIN blocks |->
                   IF blocks[k].kind = "text" THEN blocks[k].text ELSE <<>>]),
       calls |-> FlattenSeq([k \in DOMAIN blocks |->
                   IF blocks[k].kind = "tool_use" THEN <<blocks[k].call>> ELSE <<>>])]

\* A message that ends well is the validated reply, whole and once: the text sent
\* before the checks is a part of it (no markup, no noise, nothing cut off), the
\* rest and the tool calls follow.
ClientGetsReply ==
  Phase(wire) = "stopped" /\ "u" \notin ToSet(cons.text) => BuildMessage(wire) = cons.final

\* Each call has the fragments of its index, in their order, and the calls have the
\* order in which they were begun.
AreCallsOf(calls, frags) ==
  /\ UNION {ToSet(calls[n]) : n \in DOMAIN calls} = DOMAIN frags
  /\ \A n \in DOMAIN calls :
       calls[n] # <<>> /\ \A i, j \in DOMAIN calls[n] : i < j => calls[n][i] < calls[n][j]
  /\ \A m, n \in DOMAIN calls :
       /\ m < n => calls[m][1] < calls[n][1]
       /\ \A i \in DOMAIN calls[m], j \in DOMAIN calls[n] :
            frags[calls[m][i]] = frags[calls[n][j]] <=> m = n

\* An attempt that succeeds for a client that is still there has the whole reply,
\* each call put together from its own fragments; an error is never a success,
\* in whatever order the two channels are served.
ReplyComplete ==
  cons.result = "ok" =>
    /\ ~reader.failed
    /\ reader.whole /\ ~gone => cons.text = reader.text /\ AreCallsOf(cons.calls, reader.frags)

\* Neither the attempt nor the reader's goroutine and its connection outlive the
\* request: not when the attempt gave up before the stream was opened, nor when
\* the reader is blocked in a send nobody takes.
Settles == <>(reader.pc = "ended" /\ cons.pc = "done" /\ cons.out = <<>>)

-----------------------------------------------------------------------------
(* Types, and the inductive invariant of the proofs. *)

Text == Seq(Tokens \cup {"w"})
Call == Seq(Nat)

Chunk ==
  {ThinkingEvent} \cup [type : {"text_delta"}, text : Text] \cup [type : {"tool_call"}, call : Call]

Event ==
  {Start, Total, Stop, Error}
    \cup [type : {"content_block_start"}, index : Nat, kind : {"thinking", "text", "tool_use"}]
    \cup [type : {"text_delta"}, index : Nat, text : Text]
    \cup [type : {"thinking_delta"}, index : Nat]
    \cup [type : {"input_json_delta"}, index : Nat, call : Call]
    \cup [type : {"content_block_stop"}, index : Nat]

Reader ==
  [pc : {"opening", "reading", "ended"}, refused : BOOLEAN, pending : Seq(Chunk),
   calls : Seq([index : Indices, parts : Call]), heard : 0 .. MaxChunks, last : BOOLEAN,
   text : Text, frags : Seq(Indices \cup Nat), whole : BOOLEAN, failed : BOOLEAN]

Consumer ==
  [pc : {"opening", "select", "drain", "returned", "done"}, events : BOOLEAN, errs : BOOLEAN,
   text : Text, thought : BOOLEAN, calls : Seq(Call), committed : BOOLEAN,
   result : {"none", "ok", "noise", "error"}, out : Seq(Event),
   final : [text : Text, calls : Seq(Call)]]

TypeOK ==
  /\ protocol \in Protocols /\ previous \in PreviousTurns
  /\ reader \in Reader /\ queue \in Seq(Chunk) /\ errq \in BOOLEAN
  /\ cons \in Consumer /\ wire \in Seq(Event) /\ gone \in BOOLEAN

Nothing == [type |-> "nothing"]

\* The last event of s, which follows a.
LastOf(a, s) == IF s = <<>> THEN a ELSE Last(s)

DeltaOf(kind) ==
  CASE kind = "thinking" -> "thinking_delta"
    [] kind = "text"     -> "text_delta"
    [] kind = "tool_use" -> "input_json_delta"

Between(a) == a = Start \/ a.type = "content_block_stop"
NextAfter(a) == IF a.type \in {"nothing", "message_start"} THEN 0 ELSE a.index + 1
InBlock(a) == a.type = "content_block_start" \/ a.type \in Deltas

\* What an event may follow.
Follows(a, e) ==
  \/ a = Nothing /\ e = Start
  \/ Between(a) /\ e \in {Total, Error}
  \/ Between(a) /\ e.type = "content_block_start" /\ e.index = NextAfter(a)
  \/ a.type = "content_block_start" /\ e.type = DeltaOf(a.kind) /\ e.index = a.index
  \/ a.type \in Deltas /\ e = BlockStop(a.index)
  \/ a.type = "text_delta" /\ e.type = "text_delta" /\ e.index = a.index
  \/ a = Total /\ e = Stop

\* The events s, after a, make a message as far as it goes.
Leads(a, s) == \A k \in DOMAIN s : Follows(IF k = 1 THEN a ELSE s[k - 1], s[k])

\* All that the client is sent, if it stays.
Sent == wire \o cons.out

Resting(a) == Between(a) \/ a.type = "text_delta"

\* The client's message: well-formed, and between two calls of the gate it can be
\* continued, closed or broken off.
MessageOK ==
  /\ ~gone => Leads(Nothing, Sent)
  /\ ~cons.committed /\ cons.pc # "done" => Sent = <<>>
  /\ ~gone /\ cons.committed /\ cons.pc # "done" => Resting(LastOf(Nothing, Sent))
  /\ gone => LastOf(Nothing, wire) # Stop

\* The calls among the events w, as they come or as they are written.
CallsOf(w) ==
  FlattenSeq([k \in DOMAIN w |->
    IF w[k].type \in {"tool_call", "input_json_delta"} THEN <<w[k].call>> ELSE <<>>])

\* What has been begun and not been sent.
Unsent ==
  IF protocol = "openai" /\ reader.last THEN <<>>
  ELSE [k \in DOMAIN reader.calls |-> reader.calls[k].parts]

Attempting == cons.pc \in {"opening", "select"}

Taken == CallsOf(queue) \o CallsOf(reader.pending)

\* Nothing is lost or told apart wrongly on the way from the body to streamAttempt.
ReadSoFar ==
  ~gone /\ Attempting =>
    /\ cons.text \o TextOf(queue) \o TextOf(reader.pending) = reader.text
    /\ AreCallsOf(cons.calls \o Taken \o Unsent, reader.frags)
    /\ protocol = "openai" /\ ~reader.last => cons.calls = <<>> /\ Taken = <<>>

ReaderOK ==
  /\ reader.pc = "opening" =>
       /\ ~reader.failed /\ ~reader.whole /\ ~reader.last /\ reader.frags = <<>>
       /\ reader.text = <<>> /\ reader.calls = <<>>
  /\ reader.pc = "reading" => protocol \in {"openai", "anthropic"}
  /\ reader.pc \in {"opening", "ended"} => reader.pending = <<>>
  /\ reader.last /\ reader.pc = "reading" => reader.pending # <<>>
  /\ reader.failed => Closed /\ (Attempting => errq)
  /\ reader.whole => reader.last \/ Closed
  /\ reader.whole => reader.calls = <<>> \/ (protocol = "openai" /\ reader.last)
  /\ \A k \in DOMAIN reader.calls :
       LET call == reader.calls[k]
       IN  /\ call.parts # <<>>
           /\ \A j \in DOMAIN call.parts :
                call.parts[j] \in DOMAIN reader.frags /\ reader.frags[call.parts[j]] = call.index

ConsumerOK ==
  /\ cons.pc = "opening" => cons.events /\ cons.errs /\ ~cons.committed
  /\ cons.pc = "opening" => cons.text = <<>> /\ cons.calls = <<>>
  /\ reader.pc = "opening" /\ Attempting => cons.pc = "opening"
  /\ cons.pc \notin {"returned", "done"} => cons.result = "none"
  /\ ~cons.events => Closed /\ queue = <<>>
  /\ ~cons.errs => Closed /\ ~reader.failed
  /\ cons.result = "ok" => Closed

\* What has been streamed of the text: no markup, no noise that no word follows.
StreamedOK ==
  ~gone /\ cons.committed /\ cons.pc # "done" =>
    LET sent == TextOf(Sent)
    IN  /\ IsPrefix(sent, cons.text)
        /\ \A k \in MarkersIn(cons.text) : Len(sent) < k
        /\ cons.pc \in {"select", "drain"} =>
             /\ Len(sent) <= WordlessTail(cons.text)
             /\ sent = <<>> \/ Len(sent) + HoldBack <= Len(cons.text)
        /\ CallsOf(Sent) = <<>>

FinalOK ==
  cons.pc = "done" /\ ~gone /\ "u" \notin ToSet(cons.text) /\ LastOf(Nothing, Sent) = Stop =>
    TextOf(Sent) = cons.final.text /\ CallsOf(Sent) = cons.final.calls

Inductive ==
  /\ TypeOK /\ MessageOK /\ ReaderOK /\ ConsumerOK /\ ReadSoFar /\ ReplyComplete
  /\ StreamedOK /\ FinalOK

=============================================================================
