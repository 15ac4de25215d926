--------------------------- MODULE MessageStream ---------------------------
(***************************************************************************)
(* What a client of the Anthropic messages protocol may be sent: a message *)
(* starts, its content blocks follow one at a time with consecutive        *)
(* indices, a delta belongs to the block that is open, and the message     *)
(* ends once, with its totals and a stop or with an error, between blocks. *)
(* Whoever writes it may be cut off anywhere.                              *)
(***************************************************************************)
EXTENDS Naturals

VARIABLES
  phase, \* of the message
  block, \* the kind of the block that is open, "none" between blocks
  count, \* blocks started so far
  last   \* the index the last delta was sent for

streamVars == <<phase, block, count, last>>

Kinds == {"thinking", "text", "tool_use"}

Init == phase = "unsent" /\ block = "none" /\ count = 0 /\ last = 0

MessageStart ==
  /\ phase = "unsent" /\ phase' = "started"
  /\ UNCHANGED <<block, count, last>>

BlockStart ==
  /\ phase = "started" /\ block = "none"
  /\ block' \in Kinds /\ count' = count + 1
  /\ UNCHANGED <<phase, last>>

Delta ==
  /\ block # "none"
  /\ last' = count
  /\ UNCHANGED <<phase, block, count>>

BlockStop ==
  /\ block # "none" /\ last = count /\ block' = "none"
  /\ UNCHANGED <<phase, count, last>>

Totals ==
  /\ phase = "started" /\ block = "none" /\ phase' = "totalled"
  /\ UNCHANGED <<block, count, last>>

End ==
  /\ block = "none"
  /\ \/ phase = "totalled" /\ phase' = "stopped"
     \/ phase = "started" /\ phase' = "failed"
  /\ UNCHANGED <<block, count, last>>

Next == MessageStart \/ BlockStart \/ Delta \/ BlockStop \/ Totals \/ End

Spec == Init /\ [][Next]_streamVars
=============================================================================
