--------------------------- MODULE ReplyContract ---------------------------
(***************************************************************************)
(* What one DispatchChat promises its client, whatever the chain behind it *)
(* does.  A client that asked for a live stream may see text start; the    *)
(* stream then starts once only and ends exactly once, finished or failed, *)
(* as the contract of LiveSink says.  Without a stream the reply or the    *)
(* error comes whole.  Either way an answer comes.                         *)
(***************************************************************************)
CONSTANTS Requests, Live \* the requests, and those that accept a live stream

VARIABLES
  stream, \* what the sink of each request has been told
  answer  \* what DispatchChat has returned, "none" until it does

contractVars == <<stream, answer>>

\* A reply that ends a finished stream, and an error that ends a failed one.
\* "cut": the text before a degenerate run, sent as if it were the reply.
Finished == {"whole", "unverified", "cut"}
Failed   == {"canceled", "broken"}

\* What is returned when nothing has been streamed.
Direct == {"whole", "unverified", "canceled", "exhausted", "skipped"}

Init ==
  /\ stream = [r \in Requests |-> "none"]
  /\ answer = [r \in Requests |-> "none"]

Begin(r) ==
  /\ r \in Live
  /\ stream[r] = "none" /\ answer[r] = "none"
  /\ stream' = [stream EXCEPT ![r] = "open"]
  /\ UNCHANGED answer

EndStream(r) ==
  /\ stream[r] = "open"
  /\ \/ /\ stream' = [stream EXCEPT ![r] = "finished"]
        /\ \E a \in Finished : answer' = [answer EXCEPT ![r] = a]
     \/ /\ stream' = [stream EXCEPT ![r] = "failed"]
        /\ \E a \in Failed : answer' = [answer EXCEPT ![r] = a]

Answer(r) ==
  /\ stream[r] = "none" /\ answer[r] = "none"
  /\ \E a \in Direct : answer' = [answer EXCEPT ![r] = a]
  /\ UNCHANGED stream

Next == \E r \in Requests : Begin(r) \/ EndStream(r) \/ Answer(r)

Safety == Init /\ [][Next]_contractVars

Spec ==
  /\ Safety
  /\ \A r \in Requests : WF_contractVars(EndStream(r) \/ Answer(r))
=============================================================================
