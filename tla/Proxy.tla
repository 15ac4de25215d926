------------------------------- MODULE Proxy --------------------------------
(***************************************************************************)
(* Proxy.proxyToTarget: what happens to a request between its admission and *)
(* the last byte to its client.  A request first looks in the cache; one of *)
(* those that miss with the same hash leads (InFlightCoalescer) and the     *)
(* others wait for it; then it is dispatched by the router or sent straight *)
(* upstream, may run read-only tools in the proxy between dispatches, is    *)
(* written to the client, recorded and cached.  While the router works, the *)
(* keep-alive goroutine writes to a streaming client as well.               *)
(*                                                                         *)
(* Of DispatchChat only what ReplyContract promises is used here.           *)
(***************************************************************************)
EXTENDS Integers, Sequences

CONSTANTS
  Requests, Keys,
  KeyOf,      \* the cache hash of each request
  Bypass,     \* requests that may not be cached, or ask to bypass the cache
  Streaming,  \* requests for an SSE reply
  Live,       \* Anthropic streams under routes.live_streaming
  Opted,      \* requests that leave the in-proxy tools on
  MaxTurns    \* maxInProxyTurns, 3

ASSUME ProxyAssumption ==
  /\ KeyOf \in [Requests -> Keys]
  /\ Live \subseteq Streaming
  /\ Bypass \cup Streaming \cup Opted \subseteq Requests
  /\ MaxTurns \in Nat

VARIABLES
  cached,   \* the hashes both tiers of the exact cache can serve
  inflight, \* the hashes registered with the coalescer
  waiters,  \* the requests whose channel is on the list of a hash
  task,     \* the locals of proxyToTarget
  beat,     \* the keep-alive writer of each request
  out,      \* what each client has received
  rows,     \* the ledger records of each request
  evicted   \* history: hashes that have left the cache

vars == <<cached, inflight, waiters, task, beat, out, rows, evicted>>

\* What a client receives: a status line, SSE comments, a reply as JSON or as a
\* stream from its message_start to its stop, a failure as JSON or as an event.
Events == {"head", "comment", "body", "start", "stop", "failure", "error"}

BeatState == {"off", "armed", "beating", "stopped", "ended"}

Places == {"lookup", "join", "wait", "recheck", "semantic", "admit", "dispatch",
           "tools", "turn", "write", "store", "direct", "upstream", "leave", "done"}

Task ==
  [pc : Places, leads : BOOLEAN, woken : BOOLEAN, gone : BOOLEAN, open : BOOLEAN,
   liveSent : BOOLEAN, turn : 0 .. MaxTurns, leader : Requests \cup {"none"},
   got : BOOLEAN, stored : BOOLEAN, missed : BOOLEAN, broken : BOOLEAN,
   relived : BOOLEAN]

TypeOK ==
  /\ cached \subseteq Keys /\ inflight \subseteq Keys /\ evicted \subseteq Keys
  /\ waiters \in [Keys -> SUBSET Requests]
  /\ task \in [Requests -> Task]
  /\ beat \in [Requests -> BeatState]
  /\ out \in [Requests -> Seq(Events)]
  /\ rows \in [Requests -> Nat]

Init ==
  /\ cached = {} /\ inflight = {} /\ waiters = [k \in Keys |-> {}]
  /\ task = [r \in Requests |->
       [pc |-> IF r \in Bypass THEN "admit" ELSE "lookup",
        leads |-> FALSE,    \* Done is deferred
        woken |-> FALSE,    \* its channel is closed
        gone |-> FALSE,     \* the client has left
        open |-> FALSE,     \* this dispatch has committed to the live sink
        liveSent |-> FALSE, \* the first dispatch had
        turn |-> 0,         \* in-proxy turns taken
        leader |-> "none",  \* history: whom it waits for
        got |-> FALSE,      \* history: a whole reply was obtained
        stored |-> FALSE,   \* history: it put its reply into the cache
        missed |-> FALSE,   \* history: woken, it did not find a reply
        broken |-> FALSE,   \* history: the upstream broke off a direct reply
        relived |-> FALSE]] \* history: a dispatch of a turn committed
  /\ beat = [r \in Requests |-> "off"]
  /\ out = [r \in Requests |-> <<>>]
  /\ rows = [r \in Requests |-> 0]
  /\ evicted = {}

-----------------------------------------------------------------------------
(* What is written to the client. *)

\* Nothing reaches a client that has gone.
Sends(r, events) ==
  out' = [out EXCEPT ![r] = IF task[r].gone THEN @ ELSE @ \o events]

\* The keep-alive goroutine has written the status line; errors become events.
Headed(r) == beat[r] \in {"beating", "ended"}

\* net/http sends the first status line and ignores the others.
StatusLine(r) ==
  IF \E i \in 1 .. Len(out[r]) : out[r][i] = "head" THEN <<>> ELSE <<"head">>

\* Mutant: stop does not end the loop.
StillBeating(state) == state

\* keepAliveWriter.stop: after it nobody else writes to the client.
Stopped(state) ==
  CASE state = "armed" -> "stopped" [] state = "beating" -> "ended" [] OTHER -> state

\* A reply as JSON, or replayed as SSE.
WholeReply(r) ==
  StatusLine(r) \o (IF r \in Streaming THEN <<"start", "stop">> ELSE <<"body">>)

\* writeError, with what keepAliveWriter.finish makes of it.
SendsError(r) ==
  Sends(r, IF Headed(r) THEN <<"error">> ELSE StatusLine(r) \o <<"failure">>)

\* Mutant: only replies that the client has received are recorded.
BilledIfHeard(r) == rows' = [rows EXCEPT ![r] = IF task[r].gone THEN @ ELSE @ + 1]

\* recordLog
Billed(r) == rows' = [rows EXCEPT ![r] = @ + 1]

GoesTo(r, pc) == task' = [task EXCEPT ![r].pc = pc]

-----------------------------------------------------------------------------
(* The cache and the coalescer *)

\* A hit of either cache is written and recorded.
Serve(r) ==
  /\ Sends(r, WholeReply(r)) /\ Billed(r)
  /\ task' = [task EXCEPT ![r].pc = "leave", ![r].got = TRUE]

CacheHit(r) ==
  /\ task[r].pc \in {"lookup", "recheck"} /\ KeyOf[r] \in cached
  /\ Serve(r)
  /\ UNCHANGED <<cached, inflight, waiters, beat, evicted>>

CacheMiss(r) ==
  /\ task[r].pc = "lookup" /\ KeyOf[r] \notin cached
  /\ GoesTo(r, "join")
  /\ UNCHANGED <<cached, inflight, waiters, beat, out, rows, evicted>>

\* Start: the first of a hash leads, the others get a channel to wait on.
Lead(r) ==
  /\ task[r].pc = "join" /\ KeyOf[r] \notin inflight
  /\ inflight' = inflight \cup {KeyOf[r]}
  /\ task' = [task EXCEPT ![r].pc = "semantic", ![r].leads = TRUE]
  /\ UNCHANGED <<cached, waiters, beat, out, rows, evicted>>

Leads(r, k) == task[r].leads /\ KeyOf[r] = k

Follow(r) ==
  /\ task[r].pc = "join" /\ KeyOf[r] \in inflight
  /\ waiters' = [waiters EXCEPT ![KeyOf[r]] = @ \cup {r}]
  /\ task' = [task EXCEPT ![r].pc = "wait",
       ![r].leader = CHOOSE l \in Requests : Leads(l, KeyOf[r])]
  /\ UNCHANGED <<cached, inflight, beat, out, rows, evicted>>

Woken(r) ==
  /\ task[r].pc = "wait" /\ task[r].woken
  /\ GoesTo(r, "recheck")
  /\ UNCHANGED <<cached, inflight, waiters, beat, out, rows, evicted>>

\* After 60 s a waiter goes on alone.
WaitTimesOut(r) ==
  /\ task[r].pc = "wait"
  /\ GoesTo(r, "semantic")
  /\ UNCHANGED <<cached, inflight, waiters, beat, out, rows, evicted>>

WaitCanceled(r) ==
  /\ task[r].pc = "wait" /\ task[r].gone
  /\ GoesTo(r, "leave")
  /\ UNCHANGED <<cached, inflight, waiters, beat, out, rows, evicted>>

MissAgain(r) ==
  /\ task[r].pc = "recheck" /\ KeyOf[r] \notin cached
  /\ task' = [task EXCEPT ![r].pc = "semantic", ![r].missed = TRUE]
  /\ UNCHANGED <<cached, inflight, waiters, beat, out, rows, evicted>>

\* The semantic cache has a reply to a similar question, or not.
SemanticHit(r) ==
  /\ task[r].pc = "semantic"
  /\ Serve(r)
  /\ UNCHANGED <<cached, inflight, waiters, beat, evicted>>

SemanticMiss(r) ==
  /\ task[r].pc = "semantic"
  /\ GoesTo(r, "admit")
  /\ UNCHANGED <<cached, inflight, waiters, beat, out, rows, evicted>>

\* Done: every channel on the list of k is closed.
Released(k, tasks) ==
  [r \in Requests |-> [tasks[r] EXCEPT !.woken = @ \/ r \in waiters[k]]]

\* The deferred calls, at any return.
Leave(r) ==
  /\ task[r].pc = "leave"
  /\ beat' = [beat EXCEPT ![r] = Stopped(@)]
  /\ LET left == [task EXCEPT ![r].pc = "done", ![r].leads = FALSE]
     IN  IF task[r].leads
         THEN /\ task' = Released(KeyOf[r], left)
              /\ inflight' = inflight \ {KeyOf[r]}
              /\ waiters' = [waiters EXCEPT ![KeyOf[r]] = {}]
         ELSE /\ task' = left
              /\ UNCHANGED <<inflight, waiters>>
  /\ UNCHANGED <<cached, out, rows, evicted>>

-----------------------------------------------------------------------------
(* Routed dispatch *)

\* The budget was found exceeded when the request was admitted.
OverBudget(r) ==
  /\ task[r].pc = "admit"
  /\ SendsError(r)
  /\ GoesTo(r, "leave")
  /\ UNCHANGED <<cached, inflight, waiters, beat, rows, evicted>>

Route(r) ==
  /\ task[r].pc = "admit"
  /\ GoesTo(r, "dispatch")
  /\ beat' = [beat EXCEPT ![r] = IF r \in Streaming THEN "armed" ELSE @]
  /\ UNCHANGED <<cached, inflight, waiters, out, rows, evicted>>

\* The client brought its own provider key, and asked for no route.
GoDirect(r) ==
  /\ task[r].pc = "admit"
  /\ GoesTo(r, "direct")
  /\ UNCHANGED <<cached, inflight, waiters, beat, out, rows, evicted>>

KeepAlive(r) ==
  /\ \/ beat[r] = "armed" /\ Sends(r, <<"head", "comment">>)
     \/ beat[r] = "beating" /\ out[r] # <<>>
        /\ IF out[r][Len(out[r])] = "comment" THEN UNCHANGED out
           ELSE Sends(r, <<"comment">>)
  /\ beat' = [beat EXCEPT ![r] = "beating"]
  /\ UNCHANGED <<cached, inflight, waiters, task, rows, evicted>>

Dispatching(r) == task[r].pc \in {"dispatch", "turn"}

\* Commit of the live sink, whose context goes to every dispatch.  One of a turn may
\* commit too, though whether the sink had was asked before the turns: what a turn
\* has streamed is then written again.
Commit(r) ==
  /\ Dispatching(r) /\ r \in Live /\ ~task[r].open
  /\ beat' = [beat EXCEPT ![r] = Stopped(@)]
  /\ Sends(r, StatusLine(r) \o <<"start">>)
  /\ task' = [task EXCEPT ![r].open = TRUE, ![r].relived = @ \/ task[r].pc = "turn"]
  /\ UNCHANGED <<cached, inflight, waiters, rows, evicted>>

\* Mutant: turns are not counted.
UncountedTurn(t) == [t EXCEPT !.pc = "tools", !.open = FALSE]

\* The tools of the reply are run here, and their results dispatched.
NextTurn(t) == [t EXCEPT !.pc = "tools", !.turn = @ + 1, !.open = FALSE]

TurnsLeft(t) == t.turn < MaxTurns

\* A dispatch returns a reply, all of whose tool calls the proxy may run or not.
Dispatched(r) ==
  /\ Dispatching(r)
  /\ beat' = [beat EXCEPT ![r] = Stopped(@)]
  /\ IF task[r].open THEN Sends(r, <<"stop">>) ELSE UNCHANGED out
  /\ LET sent == IF task[r].pc = "dispatch" THEN task[r].open ELSE FALSE
         t == [task[r] EXCEPT !.got = TRUE, !.liveSent = sent, !.pc = "write"]
     IN  \/ task' = [task EXCEPT ![r] = t]
         \/ /\ r \in Opted /\ ~sent /\ TurnsLeft(t)
            /\ task' = [task EXCEPT ![r] = NextTurn(t)]
  /\ UNCHANGED <<cached, inflight, waiters, rows, evicted>>

RunTools(r) ==
  /\ task[r].pc = "tools"
  /\ GoesTo(r, "turn")
  /\ UNCHANGED <<cached, inflight, waiters, beat, out, rows, evicted>>

\* The router gave up, or was canceled, with nothing streamed that the client
\* can still see: the next way upstream is tried, unless the route is free-first.
Undispatched(r) ==
  /\ task[r].pc = "dispatch" /\ (task[r].open => task[r].gone)
  /\ beat' = [beat EXCEPT ![r] = Stopped(@)]
  /\ \/ GoesTo(r, "direct") /\ UNCHANGED out
     \/ GoesTo(r, "leave")
        /\ SendsError(r)
  /\ UNCHANGED <<cached, inflight, waiters, rows, evicted>>

\* CommittedStreamError: the text was cut before noise, or ends in an error.
StreamFailed(r) ==
  /\ task[r].pc = "dispatch" /\ task[r].open
  /\ \E event \in {"stop", "error"} : Sends(r, <<event>>)
  /\ Billed(r)
  /\ GoesTo(r, "leave")
  /\ UNCHANGED <<cached, inflight, waiters, beat, evicted>>

\* The dispatch of a turn fails: the reply of the turn before is the reply.
TurnFailed(r) ==
  /\ task[r].pc = "turn"
  /\ IF task[r].open THEN \E event \in {"stop", "error"} : Sends(r, <<event>>)
     ELSE UNCHANGED out
  /\ GoesTo(r, "write")
  /\ UNCHANGED <<cached, inflight, waiters, beat, rows, evicted>>

Write(r) ==
  /\ task[r].pc = "write"
  /\ IF task[r].liveSent THEN UNCHANGED out ELSE Sends(r, WholeReply(r))
  /\ Billed(r)
  /\ GoesTo(r, "store")
  /\ UNCHANGED <<cached, inflight, waiters, beat, evicted>>

\* Mutant: the reply is only queued for the database.
NotYetCached(k) == cached

\* Set writes to memory at once.
CachedWith(k) == cached \cup {k}

\* A reply is cached if the request may be and the reply holds no secret.
Store(r) ==
  /\ task[r].pc = "store"
  /\ \/ /\ r \notin Bypass
        /\ cached' = CachedWith(KeyOf[r])
        /\ task' = [task EXCEPT ![r].pc = "leave", ![r].stored = TRUE]
     \/ GoesTo(r, "leave") /\ UNCHANGED cached
  /\ UNCHANGED <<inflight, waiters, beat, out, rows, evicted>>

-----------------------------------------------------------------------------
(* Direct upstream *)

\* No upstream key, the call fails, or its answer is an error that is passed on.
DirectError(r) ==
  /\ task[r].pc = "direct"
  /\ SendsError(r)
  /\ GoesTo(r, "leave")
  /\ UNCHANGED <<cached, inflight, waiters, beat, rows, evicted>>

\* Anthropic is over its limit: the free chain, without a sink, may help.  Its
\* reply is not cached.
EmergencyFailover(r) ==
  /\ task[r].pc = "direct"
  /\ Serve(r)
  /\ UNCHANGED <<cached, inflight, waiters, beat, evicted>>

\* The upstream answers 200, and its reply begins.
DirectReply(r) ==
  /\ task[r].pc = "direct" /\ ~task[r].gone
  /\ Sends(r, StatusLine(r) \o (IF r \in Streaming THEN <<"start">> ELSE <<>>))
  /\ GoesTo(r, "upstream")
  /\ UNCHANGED <<cached, inflight, waiters, beat, rows, evicted>>

DirectWhole(r) ==
  /\ task[r].pc = "upstream" /\ (r \in Streaming => ~task[r].gone)
  /\ Sends(r, IF r \in Streaming THEN <<"stop">> ELSE <<"body">>)
  /\ Billed(r)
  /\ task' = [task EXCEPT ![r].pc = "store", ![r].got = TRUE]
  /\ UNCHANGED <<cached, inflight, waiters, beat, evicted>>

\* The upstream, or the client, breaks off.
DirectBroken(r) ==
  /\ task[r].pc = "upstream"
  /\ task' = [task EXCEPT ![r].pc = "leave", ![r].broken = TRUE]
  /\ UNCHANGED <<cached, inflight, waiters, beat, out, rows, evicted>>

-----------------------------------------------------------------------------
Cancel(r) ==
  /\ task[r].pc # "done" /\ ~task[r].gone
  /\ task' = [task EXCEPT ![r].gone = TRUE]
  /\ UNCHANGED <<cached, inflight, waiters, beat, out, rows, evicted>>

\* An entry expires, is deleted, or gives way to others.
Evict(k) ==
  /\ k \in cached
  /\ cached' = cached \ {k} /\ evicted' = evicted \cup {k}
  /\ UNCHANGED <<inflight, waiters, task, beat, out, rows>>

Step(r) ==
  \/ CacheHit(r) \/ CacheMiss(r) \/ Lead(r) \/ Follow(r)
  \/ Woken(r) \/ WaitTimesOut(r) \/ WaitCanceled(r) \/ MissAgain(r)
  \/ SemanticHit(r) \/ SemanticMiss(r) \/ OverBudget(r) \/ Route(r) \/ GoDirect(r)
  \/ Commit(r) \/ Dispatched(r) \/ Undispatched(r) \/ StreamFailed(r) \/ RunTools(r)
  \/ TurnFailed(r) \/ Write(r) \/ Store(r)
  \/ DirectError(r) \/ EmergencyFailover(r) \/ DirectReply(r) \/ DirectWhole(r)
  \/ DirectBroken(r) \/ Leave(r)

Next ==
  \/ \E r \in Requests : Step(r) \/ KeepAlive(r) \/ Cancel(r)
  \/ \E k \in Keys : Evict(k)

Spec == Init /\ [][Next]_vars

\* A handler runs in its own goroutine; a wait ends after 60 s, a dispatch by the
\* contract of DispatchChat, a direct call by the HTTP client's timeout.
FairSpec == Spec /\ \A r \in Requests : WF_vars(Step(r))

-----------------------------------------------------------------------------
Whole == {<<"body">>, <<"start", "stop">>, <<"start", "error">>, <<"failure">>, <<"error">>}

Begun == {<<>>, <<"start">>}

Comments(n) == [i \in 1 .. n |-> "comment"]

\* After the status line and comments, a client has had part of a reply.
Hears(s, part) == \E n \in 0 .. Len(s) : s = <<"head">> \o Comments(n) \o part

HearsWhole(s) == \E part \in Whole : Hears(s, part)

InOrder(s) == s = <<>> \/ \E part \in Whole \cup Begun : Hears(s, part)

\* Whichever way a reply comes about and whoever writes to the client, it is one
\* reply: a status line, comments only before the reply begins, then a body or a
\* stream that ends once or a failure.  A request that is over has had all of it,
\* unless its client left or the upstream of a direct reply broke off.  One kind
\* of request is excepted, that of a turn whose dispatch commits: the code streams
\* its reply and then writes it once more.
OneReply ==
  \A r \in Requests : ~task[r].relived =>
    /\ InOrder(out[r])
    /\ task[r].pc = "done" => task[r].gone \/ task[r].broken \/ HearsWhole(out[r])

\* Coalescing saves the upstream a call: a request that was told its leader is
\* done goes on without a reply only if the leader cached none, unless the entry
\* has been evicted.
WaitersServed ==
  \A r \in Requests :
    task[r].missed /\ KeyOf[r] \notin evicted => ~task[task[r].leader].stored

\* However many dispatches, turns and fallbacks it takes, a request has at most one
\* row in the ledger, and has one if a whole reply was obtained for it, whether or
\* not its client stayed.
BilledOnce ==
  \A r \in Requests :
    /\ rows[r] <= 1
    /\ task[r].pc = "done" /\ task[r].got => rows[r] = 1

\* Every request comes to an end, those that wait for each other included.
Answered == \A r \in Requests : <>(task[r].pc = "done")

-----------------------------------------------------------------------------
(* Why they hold. *)

\* A task t with n rows in the ledger: its row comes with its way out, and a reply
\* is not obtained before it is dispatched.
Recorded(t, n) ==
  /\ t.pc \in {"lookup", "join", "wait", "recheck", "semantic", "admit", "dispatch",
              "direct", "upstream"} => n = 0 /\ ~t.got
  /\ t.pc \in {"tools", "turn", "write"} => n = 0
  /\ t.pc = "store" => n = 1
  /\ t.pc \in {"leave", "done"} => n \in {0, 1} /\ (t.got => n = 1)

\* A hash in flight has one leader, for whom its waiters wait.
Led ==
  /\ \A r \in Requests : task[r].leads => KeyOf[r] \in inflight /\ task[r].pc # "done"
  /\ \A r, q \in Requests :
       task[r].leads /\ task[q].leads /\ KeyOf[r] = KeyOf[q] => r = q
  /\ \A k \in inflight : \E l \in Requests : Leads(l, k)
  /\ \A k \in Keys : \A r \in waiters[k] :
       KeyOf[r] = k /\ task[r].leader \in Requests /\ Leads(task[r].leader, k)

\* Who was woken has a leader that is done; what was stored is in the cache or has
\* left it.
Waited(r) ==
  /\ task[r].pc \in {"lookup", "join"} => ~task[r].woken /\ r \notin waiters[KeyOf[r]]
  /\ task[r].pc = "recheck" \/ task[r].missed => task[r].woken
  /\ task[r].woken =>
       /\ task[r].leader \in Requests
       /\ KeyOf[task[r].leader] = KeyOf[r] /\ task[task[r].leader].pc = "done"
  /\ task[r].stored =>
       task[r].pc \in {"leave", "done"} /\ KeyOf[r] \in cached \cup evicted

Inductive ==
  /\ TypeOK /\ Led /\ WaitersServed
  /\ \A r \in Requests : Recorded(task[r], rows[r]) /\ Waited(r)

\* Where a request has not begun to answer.
Early == {"lookup", "join", "wait", "recheck", "semantic", "admit"}

\* The client has had nothing but what the keep-alive goroutine wrote.
Quiet(state, s) ==
  IF state \in {"beating", "ended"} THEN Hears(s, <<>>) ELSE s = <<>>

\* What the client of a task t has been told, which is still there: s.
Told(r, t, state, s) ==
  /\ t.pc \in Early \cup {"tools", "direct"} => Quiet(state, s)
  /\ t.pc \in {"dispatch", "turn"} => IF t.open THEN Hears(s, <<"start">>) ELSE Quiet(state, s)
  /\ t.pc = "write" => IF t.liveSent THEN Hears(s, <<"start", "stop">>) ELSE Quiet(state, s)
  /\ t.pc = "upstream" => Hears(s, IF r \in Streaming THEN <<"start">> ELSE <<>>)
  /\ t.pc \in {"store", "leave", "done"} => t.broken \/ HearsWhole(s)

\* The keep-alive goroutine writes while the first dispatch has not committed.
Paced(t, state) ==
  /\ t.pc \in Early => state = "off" /\ ~t.open
  /\ state \in {"armed", "beating"} => t.pc = "dispatch" /\ ~t.open
  /\ t.pc \in {"tools", "turn"} => ~t.liveSent
  /\ t.pc = "tools" => ~t.open

\* A request whose turn committed is excepted, as in OneReply.
Answers(r, t, state, s) ==
  /\ Paced(t, state)
  /\ ~t.relived =>
       /\ InOrder(s)
       /\ ~t.gone => Told(r, t, state, s)
       /\ t.open => t.pc # "turn"

Answering == \A r \in Requests : Answers(r, task[r], beat[r], out[r])
=============================================================================
