------------------------------ MODULE Dispatch ------------------------------
(***************************************************************************)
(* Router.DispatchChat: concurrent requests walk their fallback chains over *)
(* circuit breakers and a model catalog they share.  Every step is one     *)
(* locked call on a breaker or on the catalog, with the request's own work *)
(* around it; other requests, the clock and the client's departure come in *)
(* between.  A live request may commit its reply to the client, after which *)
(* there is no failover: a stalled turn or an unverified claim is continued *)
(* (continueTurn), anything else ends the stream.                          *)
(***************************************************************************)
EXTENDS BreakerOps, CatalogOps, Sequences

CONSTANTS
  Requests, Targets, \* dispatches, and the provider/model pairs they route to
  Chain,             \* the ordered targets of each request
  Live,              \* the requests that carry a LiveSink
  Unfit,             \* targets too small for the prompt or not in their listing
  Barred,            \* excluded models, and targets with no provider configured
  Troubled,          \* targets that earlier traffic may have left open or inactive
  MaxContinuations   \* maxContinuationAttempts, 3

ASSUME DispatchAssumption ==
  /\ Chain \in [Requests -> Seq(Targets)]
  /\ Live \subseteq Requests
  /\ Unfit \cup Barred \cup Troubled \subseteq Targets
  /\ MaxContinuations \in Nat

VARIABLES
  breakers, \* the breaker of each target
  catalog,  \* the catalog entry of each target
  task,     \* the local state of each DispatchChat
  stream,   \* what each request's sink has been told
  answer    \* what each DispatchChat has returned

vars == <<breakers, catalog, task, stream, answer>>

\* An attempt's errors, told apart by what DispatchChat does about them.  Sending
\* fails with an outage (or a timeout), a quota, a request the upstream refuses
\* (400, 401, 403), or a model that is gone (404 "retired", 410 "decommissioned").
\* A reply is rejected by checkReply as degenerate "noise", as a "stall", as a
\* repetition "loop", or for another reason.
SendErrors == {"outage", "quota", "refused", "retired", "decommissioned"}
Rejections == {"noise", "stall", "loop", "rejected"}
ModelGone  == {"retired", "decommissioned"}

isCircuitBreakerError(e) == e \notin {"refused", "retired"}

TripsAtOnce(e) == e \in {"quota", "loop"}

\* Once the client has gone, a failed send is a cancellation.  The noise of a
\* stream is found while it is read, that of a whole reply by checkReply.
ErrorsOf(r) ==
  (IF task[r].gone THEN {} ELSE SendErrors)
    \cup (IF task[r].gone /\ r \in Live THEN Rejections \ {"noise"} ELSE Rejections)

Places == {"next", "admit", "send", "remind", "revive", "quota", "done"} \cup ModelGone

\* What DispatchChat keeps between its calls on the breakers and the catalog.
Task ==
  [pc : Places, mode : {"chain", "stall", "verify"}, pos : Nat \ {0}, home : Nat,
   tries : Nat, claimed : Nat, failed : BOOLEAN, gone : BOOLEAN,
   claimant : BOOLEAN, called : BOOLEAN]

TypeOK ==
  /\ breakers \in [Targets -> Breaker]
  /\ catalog \in [Targets -> Entry]
  /\ task \in [Requests -> Task]
  /\ \A r \in Requests :
       /\ task[r].pos <= Len(Chain[r]) + 1
       /\ task[r].home <= Len(Chain[r]) /\ task[r].claimed <= Len(Chain[r])
       /\ task[r].tries <= MaxContinuations
  /\ stream \in [Requests -> {"none", "open", "finished", "failed"}]
  /\ answer \in [Requests -> {"none", "whole", "unverified", "cut", "canceled",
                              "broken", "exhausted", "skipped"}]

\* The locals of a dispatch before its loop, or after its return.
Local(place) ==
  [pc |-> place, mode |-> "chain", pos |-> 1,
   home |-> 0,        \* the target whose streamed turn is continued
   tries |-> 0,       \* continuation attempts made
   claimed |-> 0,     \* the target whose unverified claim is remembered
   failed |-> FALSE,  \* lastErr is set
   gone |-> FALSE,    \* the request's context is canceled
   claimant |-> FALSE, \* history: a reply nobody has seen made a claim
   called |-> FALSE]   \* history: an upstream was called

Init ==
  /\ breakers \in {b \in [Targets -> {NewCircuitBreaker, AfterTrip(NewCircuitBreaker)}] :
                    \A t \in Targets \ Troubled : b[t] = NewCircuitBreaker}
  /\ catalog \in {c \in [Targets -> {Healthy, Gone}] :
                   \A t \in Targets \ Troubled : c[t] = Healthy}
  /\ task = [r \in Requests |-> Local("next")]
  /\ stream = [r \in Requests |-> "none"]
  /\ answer = [r \in Requests |-> "none"]

-----------------------------------------------------------------------------
(* The walk along a chain, by DispatchChat and by continueTurn alike. *)

Target(r) == Chain[r][task[r].pos]

Committed(r) == stream[r] = "open"

More(r) == task[r].pos <= Len(Chain[r])

Sending(r) == task[r].pc = "send" /\ task[r].mode = "chain"

Continuing(r) == task[r].pc = "send" /\ task[r].mode # "chain"

\* The loop goes on to another target.
AtTarget(r) ==
  /\ task[r].pc = "next" /\ More(r) /\ ~task[r].gone
  /\ task[r].mode # "chain" => task[r].tries < MaxContinuations

NextTarget(t) == [t EXCEPT !.pc = "next", !.pos = @ + 1]

SkipUnfit(r) ==
  /\ AtTarget(r)
  /\ Target(r) \in Unfit
  /\ task' = [task EXCEPT ![r] = NextTarget(@)]
  /\ UNCHANGED <<breakers, catalog, stream, answer>>

\* Usable, then the checks that need no shared state.
CheckUsable(r) ==
  /\ AtTarget(r)
  /\ Target(r) \notin Unfit
  /\ catalog' = [catalog EXCEPT ![Target(r)] = AfterUsable(@)]
  /\ task' = [task EXCEPT ![r] =
       IF IsUsable(catalog[Target(r)]) /\ Target(r) \notin Barred
       THEN [@ EXCEPT !.pc = "admit"]
       ELSE NextTarget(@)]
  /\ UNCHANGED <<breakers, stream, answer>>

\* A call to the upstream begins.
CountedCall(t) ==
  [t EXCEPT !.pc = "send", !.called = TRUE,
            !.tries = IF t.mode = "chain" THEN @ ELSE @ + 1]

Admit(r) ==
  /\ task[r].pc = "admit"
  /\ breakers' = [breakers EXCEPT ![Target(r)] = AfterAllow(@)]
  /\ task' = [task EXCEPT ![r] =
       IF Allows(breakers[Target(r)]) THEN CountedCall(@) ELSE NextTarget(@)]
  /\ UNCHANGED <<catalog, stream, answer>>

\* DispatchChat returns.
Return(r, a) ==
  /\ task' = [task EXCEPT ![r] = Local("done")]
  /\ answer' = [answer EXCEPT ![r] = a]

\* Mutant: the sink is told although nothing was committed.
EndsStreamAnyway(r, how) == stream' = [stream EXCEPT ![r] = how]

\* Tells the sink of a committed reply how its stream ends.
EndsStream(r, how) ==
  stream' = [stream EXCEPT ![r] = IF Committed(r) THEN how ELSE @]

\* The client left between two targets.
StopCanceled(r) ==
  /\ task[r].pc = "next" /\ task[r].mode = "chain" /\ More(r) /\ task[r].gone
  /\ Return(r, "canceled")
  /\ UNCHANGED <<breakers, catalog, stream>>

-----------------------------------------------------------------------------
(* What comes of an attempt. *)

\* streamAttempt: enough text has passed the checks, and goes to the client.
Commit(r) ==
  /\ Sending(r) /\ r \in Live /\ ~Committed(r)
  /\ stream' = [stream EXCEPT ![r] = "open"]
  /\ UNCHANGED <<breakers, catalog, task, answer>>

\* The client left while the upstream was working.
Canceled(r) ==
  /\ Sending(r) /\ task[r].gone
  /\ Return(r, "canceled")
  /\ EndsStream(r, "failed")
  /\ UNCHANGED <<breakers, catalog>>

\* A valid reply, at once or to the reminder to verify.
Succeed(r) ==
  /\ Sending(r) \/ task[r].pc = "remind"
  /\ breakers' = [breakers EXCEPT ![Target(r)] = AfterSuccess(@)]
  /\ task' = [task EXCEPT ![r].pc = "revive"]
  /\ UNCHANGED <<catalog, stream, answer>>

\* MarkActive, Finish and the return.
Revive(r) ==
  /\ task[r].pc = "revive"
  /\ catalog' = [catalog EXCEPT ![Target(r)] = Healthy]
  /\ EndsStream(r, "finished")
  /\ Return(r, "whole")
  /\ UNCHANGED breakers

\* Mutant: lastErr is not set.
UnrecordedFailure(t) == NextTarget(t)

\* The target failed: lastErr is set and the chain moves on.
FailedTarget(t) == [NextTarget(t) EXCEPT !.failed = TRUE]

\* Mutant: the reply with the claim is not remembered.
ForgottenClaim(t) == FailedTarget(t)

RememberedClaim(t) == [FailedTarget(t) EXCEPT !.claimed = t.pos]

\* An unverified claim nobody has seen yet: ask the same target once for the
\* missing call, unless that no longer fits its context window.
Claim(r) ==
  /\ Sending(r) /\ ~Committed(r)
  /\ \/ task' = [task EXCEPT ![r].pc = "remind", ![r].claimant = TRUE]
     \/ task' = [task EXCEPT ![r] = [RememberedClaim(@) EXCEPT !.claimant = TRUE]]
  /\ UNCHANGED <<breakers, catalog, stream, answer>>

Declined(r) ==
  /\ task[r].pc = "remind"
  /\ task' = [task EXCEPT ![r] = RememberedClaim(@)]
  /\ UNCHANGED <<breakers, catalog, stream, answer>>

ContinuedTurn(t, mode) == [t EXCEPT !.pc = "next", !.mode = mode, !.home = t.pos]

\* A stalled turn, or an unverified claim, that the client has already read.
Continue(r) ==
  /\ Sending(r) /\ Committed(r)
  /\ \E mode \in {"stall", "verify"} :
       task' = [task EXCEPT ![r] = ContinuedTurn(@, mode)]
  /\ UNCHANGED <<breakers, catalog, stream, answer>>

MarkInactive(r) ==
  /\ Sending(r)
  /\ \E e \in ModelGone \cap ErrorsOf(r) : task' = [task EXCEPT ![r].pc = e]
  /\ catalog' = [catalog EXCEPT ![Target(r)] = Gone]
  /\ UNCHANGED <<breakers, stream, answer>>

\* The errors an attempt may leave to be dealt with.
Raised(r) ==
  IF task[r].pc \in ModelGone THEN {task[r].pc}
  ELSE IF Sending(r) THEN ErrorsOf(r) \ ModelGone ELSE {}

\* RecordFailure on target, when the error counts.
Charged(b, counts) == IF counts THEN AfterFailure(b) ELSE b

Charge(target, counts) ==
  breakers' = [breakers EXCEPT ![target] = Charged(@, counts)]

\* Nothing has been streamed: the chain moves on.
FailOver(r) ==
  /\ ~Committed(r)
  /\ \E e \in Raised(r) :
       /\ Charge(Target(r), isCircuitBreakerError(e))
       /\ task' = [task EXCEPT ![r] =
            IF TripsAtOnce(e) THEN [@ EXCEPT !.pc = "quota"]
            ELSE FailedTarget(@)]
  /\ UNCHANGED <<catalog, stream, answer>>

TripNow(r) ==
  /\ task[r].pc = "quota"
  /\ breakers' = [breakers EXCEPT ![Target(r)] = AfterTrip(@)]
  /\ task' = [task EXCEPT ![r] = FailedTarget(@)]
  /\ UNCHANGED <<catalog, stream, answer>>

\* DispatchChat charges the target and returns: the stream cannot be replaced.
EndCharged(r, target, counts, how, a) ==
  /\ Charge(target, counts)
  /\ stream' = [stream EXCEPT ![r] = how]
  /\ Return(r, a)
  /\ UNCHANGED catalog

\* The reply degenerated after the commit: what came before it is the reply.
CutShort(r) ==
  /\ Committed(r)
  /\ "noise" \in Raised(r)
  /\ EndCharged(r, Target(r), TRUE, "finished", "cut")

BreakOff(r) ==
  /\ Committed(r)
  /\ \E e \in Raised(r) \ {"noise", "stall"} :
       EndCharged(r, Target(r), isCircuitBreakerError(e), "failed", "broken")

-----------------------------------------------------------------------------
(* continueTurn, and the end of the chain. *)

Continued(r) ==
  /\ Continuing(r)
  /\ breakers' = [breakers EXCEPT ![Target(r)] = AfterSuccess(@)]
  /\ stream' = [stream EXCEPT ![r] = "finished"]
  /\ Return(r, "whole")
  /\ UNCHANGED catalog

\* A target that only declines to verify has not failed, nor has one that stalls
\* again; "silent" is a reply without the tool call.
ContinuationCounts(r, e) ==
  /\ isCircuitBreakerError(e)
  /\ e # "stall"
  /\ task[r].mode = "verify" => e \in SendErrors

ContinuationFailed(r) ==
  /\ Continuing(r)
  /\ \E counts \in {ContinuationCounts(r, e) : e \in ErrorsOf(r) \cup {"silent"}}
                     \cup (IF task[r].gone THEN {FALSE} ELSE {}) :
       /\ Charge(Target(r), counts)
       /\ task' = [task EXCEPT ![r] = NextTarget(@)]
  /\ UNCHANGED <<catalog, stream, answer>>

\* No target made the missing call.  The claim gets its notice; the stalled turn
\* ends as a failure of the target that stalled.
GiveUp(r) ==
  /\ task[r].pc = "next" /\ task[r].mode # "chain" /\ ~AtTarget(r)
  /\ \/ /\ task[r].mode = "verify"
        /\ stream' = [stream EXCEPT ![r] = "finished"]
        /\ Return(r, "unverified")
        /\ UNCHANGED <<breakers, catalog>>
     \/ /\ task[r].mode = "stall"
        /\ EndCharged(r, Chain[r][task[r].home], isCircuitBreakerError("stall"),
                      "failed", "broken")

Exhausted(r) ==
  /\ task[r].pc = "next" /\ task[r].mode = "chain" /\ ~More(r)
  /\ Return(r, IF task[r].claimed # 0 THEN "unverified"
               ELSE IF task[r].failed THEN "exhausted" ELSE "skipped")
  /\ UNCHANGED <<breakers, catalog, stream>>

-----------------------------------------------------------------------------
Cancel(r) ==
  /\ answer[r] = "none" /\ ~task[r].gone
  /\ task' = [task EXCEPT ![r].gone = TRUE]
  /\ UNCHANGED <<breakers, catalog, stream, answer>>

\* Only an open breaker's time is ever read.
Tick ==
  /\ breakers' = [t \in Targets |->
       IF breakers[t].state = "OPEN" THEN AfterTick(breakers[t]) ELSE breakers[t]]
  /\ catalog' = [t \in Targets |-> AfterWait(catalog[t])]
  /\ UNCHANGED <<task, stream, answer>>

Step(r) ==
  \/ SkipUnfit(r) \/ CheckUsable(r) \/ Admit(r) \/ StopCanceled(r)
  \/ Commit(r) \/ Canceled(r) \/ Succeed(r) \/ Revive(r)
  \/ Claim(r) \/ Declined(r) \/ Continue(r) \/ MarkInactive(r)
  \/ FailOver(r) \/ TripNow(r) \/ CutShort(r) \/ BreakOff(r)
  \/ Continued(r) \/ ContinuationFailed(r) \/ GiveUp(r) \/ Exhausted(r)

Next == \/ \E r \in Requests : Step(r) \/ Cancel(r)
        \/ Tick

Spec == Init /\ [][Next]_vars

\* Every dispatch runs in its own goroutine and every attempt ends: by the
\* attempt or idle timeout, the transport's own, or the upstream's reply.
FairSpec == Spec /\ \A r \in Requests : WF_vars(Step(r))

-----------------------------------------------------------------------------
\* The walk over shared breakers and catalog keeps the promise of DispatchChat
\* to its client: one stream at most, ended once and the way LiveSink's contract
\* says, no answer of the chain after text was streamed, and always an answer.
Contract == INSTANCE ReplyContract WITH Requests <- Requests, Live <- Live,
                                       stream <- stream, answer <- answer
KeepsContract == Contract!Spec

\* A reply whose claim nobody verified is never lost: a chain in which some
\* target made one ends with a reply, that one or a later target's (which may be
\* cut or break off while it is streamed), unless the client left.
ClaimDelivered ==
  [][\A r \in Requests :
       task[r].claimant /\ answer'[r] # answer[r] =>
         answer'[r] \in {"whole", "unverified", "cut", "broken"} \/ task[r].gone]_vars

\* "every target was skipped" is said exactly when no upstream was called.
SkippedMeansUncalled ==
  [][\A r \in Requests :
       /\ answer'[r] = "skipped" /\ answer[r] = "none" => ~task[r].called
       /\ answer'[r] = "exhausted" /\ answer[r] = "none" => task[r].called]_vars

\* What the client of r has seen, and what r remembers, where r is.  A turn is
\* continued only on an open stream; a chain with a stream is at its target still.
Placed(r, t, s, a) ==
  /\ t.pc = "done" <=> a # "none"
  /\ t.pc # "done" => s \in {"none", "open"}
  /\ s # "none" => r \in Live
  /\ t.pc \notin {"next", "done"} => t.pos <= Len(Chain[r])
  /\ t.mode # "chain" =>
       /\ t.pc \in {"next", "admit", "send"} /\ s = "open" /\ t.home # 0
       /\ t.pc = "admit" => t.tries < MaxContinuations
  /\ t.mode = "chain" /\ t.pc \in {"next", "admit", "remind", "quota"} => s = "none"
  /\ t.mode = "chain" /\ t.pc \in {"next", "admit"} => (t.called => t.failed)
  /\ t.mode = "chain" /\ t.pc \notin {"remind", "revive", "done"} =>
       (t.claimant => t.claimed # 0)
  /\ t.failed => t.called
  /\ t.pc \notin {"next", "admit", "done"} => t.called

Inductive ==
  /\ TypeOK
  /\ \A x \in Targets : Coherent(breakers[x])
  /\ \A r \in Requests : Placed(r, task[r], stream[r], answer[r])
=============================================================================
