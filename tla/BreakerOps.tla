----------------------------- MODULE BreakerOps -----------------------------
(***************************************************************************)
(* One CircuitBreaker of internal/router as a record, and its methods as   *)
(* functions from the record before the call to the record after it.  Every *)
(* method holds the breaker's mutex for its whole body, so a call is one   *)
(* step of whoever makes it.                                               *)
(*                                                                         *)
(* Time is the field "since": the ticks since lastTrippedAt.  It stops at  *)
(* MaxCooldown, past which no comparison in the code can change.  The      *)
(* failure count stops at FailureThreshold for the same reason: it is only *)
(* ever compared with the threshold, and only in CLOSED.                   *)
(***************************************************************************)
EXTENDS Integers

CONSTANTS
  FailureThreshold, \* failureThreshold, 5 in NewCircuitBreaker
  SuccessThreshold, \* successThreshold, 2
  BaseCooldown,     \* cooldownDuration, 30 seconds
  MaxCooldown       \* the cap of the backoff, 5 minutes

ASSUME BreakerAssumption ==
  /\ FailureThreshold \in Nat \ {0}
  /\ SuccessThreshold \in Nat \ {0}
  /\ BaseCooldown \in Nat \ {0}
  /\ MaxCooldown \in Nat
  /\ BaseCooldown <= MaxCooldown

CircuitState == {"CLOSED", "OPEN", "HALF_OPEN"}

Breaker ==
  [state     : CircuitState,
   failures  : 0 .. FailureThreshold,
   successes : 0 .. SuccessThreshold,
   cooldown  : BaseCooldown .. MaxCooldown,
   since     : 0 .. MaxCooldown]

NewCircuitBreaker ==
  [state |-> "CLOSED", failures |-> 0, successes |-> 0,
   cooldown |-> BaseCooldown, since |-> 0]

AtMost(n, limit) == IF n > limit THEN limit ELSE n

CooldownOver(b) == b.since >= b.cooldown

\* What Allow answers, and the breaker it leaves behind.
Allows(b) == b.state = "OPEN" => CooldownOver(b)

\* Mutant: a refused request restarts the cooldown.
AllowRestamps(b) ==
  IF b.state # "OPEN" THEN b
  ELSE IF CooldownOver(b) THEN [b EXCEPT !.state = "HALF_OPEN", !.successes = 0]
       ELSE [b EXCEPT !.since = 0]

AfterAllow(b) ==
  IF b.state = "OPEN" /\ CooldownOver(b)
  THEN [b EXCEPT !.state = "HALF_OPEN", !.successes = 0]
  ELSE b

\* Mutant: a trip that keeps the time of the previous one.
TripUnstamped(b) == [b EXCEPT !.state = "OPEN", !.successes = 0]

AfterTrip(b) == [b EXCEPT !.state = "OPEN", !.since = 0, !.successes = 0]

\* Mutant: closing keeps the cooldown that failed probes have grown.
RestoredSlow(b) == [b EXCEPT !.state = "CLOSED", !.successes = 0]

\* Back to healthy: by enough successful probes, or by Reset.
Restored(b) ==
  [b EXCEPT !.state = "CLOSED", !.successes = 0, !.cooldown = BaseCooldown]

\* Mutant: a success closes an open breaker as well.
SuccessClosesAny(b) ==
  [(IF b.state = "CLOSED" THEN b ELSE Restored(b)) EXCEPT !.failures = 0]

AfterSuccess(b) ==
  LET healthy == [b EXCEPT !.failures = 0]
  IN  IF b.state # "HALF_OPEN" THEN healthy
      ELSE IF b.successes + 1 >= SuccessThreshold THEN Restored(healthy)
      ELSE [healthy EXCEPT !.successes = @ + 1]

Counted(b) == [b EXCEPT !.failures = AtMost(@ + 1, FailureThreshold)]

\* Mutant: the backoff has no cap.
BackedOffUncapped(b) == [b EXCEPT !.cooldown = 2 * @]

BackedOff(b) == [b EXCEPT !.cooldown = AtMost(2 * @, MaxCooldown)]

AfterFailure(b) ==
  IF b.state = "HALF_OPEN" THEN AfterTrip(BackedOff(Counted(b)))
  ELSE IF b.state = "CLOSED" /\ Counted(b).failures >= FailureThreshold
       THEN AfterTrip(Counted(b))
  ELSE Counted(b)

AfterReset(b) == [Restored(b) EXCEPT !.failures = 0]

\* One tick of the clock that Allow compares lastTrippedAt with.
AfterTick(b) == [b EXCEPT !.since = AtMost(@ + 1, MaxCooldown)]

(***************************************************************************)
(* What a breaker looks like between two calls: a closed one has its base  *)
(* cooldown and is below the failure threshold, only a half-open one counts *)
(* probe successes, and it is below the threshold that would have closed it. *)
(***************************************************************************)
Coherent(b) ==
  /\ b.state = "CLOSED" => b.failures < FailureThreshold /\ b.cooldown = BaseCooldown
  /\ b.state = "HALF_OPEN" => b.successes < SuccessThreshold
  /\ b.state # "HALF_OPEN" => b.successes = 0
=============================================================================
