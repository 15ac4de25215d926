--------------------------- MODULE CircuitBreaker ---------------------------
(***************************************************************************)
(* One breaker shared by concurrent dispatches.  A dispatch asks Allow,    *)
(* waits for its upstream with no lock held, and reports what happened; by *)
(* then others may have tripped, half-opened, closed or reset the breaker, *)
(* so a report may be late by any amount.  An administrator may reset the  *)
(* breaker at any time.                                                    *)
(***************************************************************************)
EXTENDS BreakerOps

CONSTANT Callers \* the dispatches that use this breaker

VARIABLES
  breaker, \* the CircuitBreaker
  pc,      \* where each request is
  quiet    \* history: ticks since the last trip, MaxCooldown if none or reset

breakerVars == <<breaker, pc, quiet>>

\* "flight": let through, waiting for the upstream.  "quota": the failure is
\* recorded, and TripImmediate, a second call under the lock, is still to come.
BreakerPlaces == {"idle", "flight", "quota"}

BreakerTypeOK ==
  /\ breaker \in Breaker
  /\ pc \in [Callers -> BreakerPlaces]
  /\ quiet \in 0 .. MaxCooldown

BreakerInit ==
  /\ breaker = NewCircuitBreaker
  /\ pc = [r \in Callers |-> "idle"]
  /\ quiet = MaxCooldown

Goto(r, from, to) ==
  /\ pc[r] = from
  /\ pc' = [pc EXCEPT ![r] = to]

\* A trip restarts the count of quiet ticks: every trip puts since back to 0.
ObserveTrip(tripped) == quiet' = IF tripped THEN 0 ELSE quiet

\* The breaker check of DispatchChat and dispatchableTarget; a refused request
\* moves on to its next target and may come back.
Allow(r) ==
  /\ pc[r] = "idle"
  /\ breaker' = AfterAllow(breaker)
  /\ pc' = IF Allows(breaker) THEN [pc EXCEPT ![r] = "flight"] ELSE pc
  /\ UNCHANGED quiet

\* A validated reply.
RecordSuccess(r) ==
  /\ Goto(r, "flight", "idle")
  /\ breaker' = AfterSuccess(breaker)
  /\ UNCHANGED quiet

\* The client left, the reply was an unverified claim, or the error is one
\* isCircuitBreakerError exempts (400, 401, 403, 404): the breaker is not told.
EndUncounted(r) ==
  /\ Goto(r, "flight", "idle")
  /\ UNCHANGED <<breaker, quiet>>

\* An outage, a timeout or a rejected reply; when the error names a quota or a
\* repetition loop, the caller goes on to trip the breaker.
RecordFailure(r) ==
  /\ \E next \in {"idle", "quota"} : Goto(r, "flight", next)
  /\ breaker' = AfterFailure(breaker)
  /\ ObserveTrip(breaker.state # "OPEN" /\ breaker'.state = "OPEN")

TripImmediate(r) ==
  /\ Goto(r, "quota", "idle")
  /\ breaker' = AfterTrip(breaker)
  /\ ObserveTrip(TRUE)

\* The admin endpoints that reset one breaker or all of them.
Reset ==
  /\ breaker' = AfterReset(breaker)
  /\ quiet' = MaxCooldown
  /\ UNCHANGED pc

BreakerTick ==
  /\ breaker' = AfterTick(breaker)
  /\ quiet' = AtMost(quiet + 1, MaxCooldown)
  /\ UNCHANGED pc

Report(r) == RecordSuccess(r) \/ EndUncounted(r) \/ RecordFailure(r) \/ TripImmediate(r)

BreakerNext ==
  \/ \E r \in Callers :
       Allow(r) \/ RecordSuccess(r) \/ EndUncounted(r) \/ RecordFailure(r) \/ TripImmediate(r)
  \/ Reset
  \/ BreakerTick

BreakerSpec == BreakerInit /\ [][BreakerNext]_breakerVars

(***************************************************************************)
(* Fairness: the clock runs, requests keep coming, and every request that  *)
(* was let through ends (each attempt is bounded by a timeout or by the     *)
(* upstream's own reply).  Nothing is assumed of how a request ends, nor   *)
(* of an administrator.                                                    *)
(***************************************************************************)
BreakerFairness ==
  /\ WF_breakerVars(BreakerTick)
  /\ \A r \in Callers : WF_breakerVars(Allow(r)) /\ WF_breakerVars(Report(r))

BreakerFairSpec == BreakerSpec /\ BreakerFairness

-----------------------------------------------------------------------------
\* Whatever order late reports arrive in, the breaker between two calls is
\* coherent: CLOSED always means base cooldown and a count below the threshold,
\* HALF_OPEN always means too few probe successes to close.
BreakerCoherent == Coherent(breaker)

\* After a trip, whoever caused it and however many reports arrive late, no
\* request is let through until at least the base cooldown has passed, unless
\* an administrator resets the breaker.
QuietAfterTrip ==
  [][\A r \in Callers :
       pc[r] = "idle" /\ pc'[r] = "flight" => quiet >= BaseCooldown]_breakerVars

\* An open breaker closes only through a half-open phase in which it has seen
\* the required number of successes, or by a reset; in particular a success
\* reported late, while the breaker is open, does not close it.
ClosesOnlyAfterProbing ==
  [][breaker.state # "CLOSED" /\ breaker'.state = "CLOSED" =>
       \/ breaker.state = "HALF_OPEN" /\ breaker.successes = SuccessThreshold - 1
       \/ Reset]_breakerVars

\* However many probes of one half-open phase fail, the backoff doubles once:
\* a cooldown only grows on the step that leaves HALF_OPEN for OPEN.
BackoffOncePerPhase ==
  [][breaker'.cooldown > breaker.cooldown =>
       /\ breaker.state = "HALF_OPEN"
       /\ breaker'.state = "OPEN"
       /\ breaker'.cooldown = AtMost(2 * breaker.cooldown, MaxCooldown)]_breakerVars

\* The inductive invariant of the proofs: while the breaker is open the quiet
\* time is the age of its trip, and once it lets traffic through the base
\* cooldown has passed.
QuietTracksTrip ==
  IF breaker.state = "OPEN" THEN quiet = breaker.since ELSE quiet >= BaseCooldown

BreakerInductive == BreakerTypeOK /\ BreakerCoherent /\ QuietTracksTrip

\* An open breaker lets traffic through again: late quota failures restart its
\* cooldown, but only as often as there are requests still in flight.
OpenRecovers == breaker.state = "OPEN" ~> breaker.state # "OPEN"
=============================================================================
