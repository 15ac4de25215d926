---------------------------- MODULE RouterProofs ----------------------------
(***************************************************************************)
(* The router's parts and the whole: a circuit breaker under any number of *)
(* callers, the model catalog, and the dispatches that keep the contract    *)
(* with their clients, for any number of requests that share any breakers  *)
(* and catalog, over chains of any length.                                 *)
(***************************************************************************)
EXTENDS CircuitBreaker, ModelCatalog, Dispatch, TLAPS

-----------------------------------------------------------------------------
(* What each method returns, given a well-formed breaker. *)

Sound(b) == b \in Breaker /\ Coherent(b)

\* A record that differs from a breaker in two fields is one that differs in
\* the first from one that differs in the second.
LEMMA SetStateSuccesses ==
  ASSUME NEW b \in Breaker, NEW x \in CircuitState
  PROVE  [b EXCEPT !.state = x, !.successes = 0] \in Breaker
<1> DEFINE c == [b EXCEPT !.state = x]
<1>1. c \in Breaker
  BY DEF Breaker
<1>2. [b EXCEPT !.state = x, !.successes = 0] = [c EXCEPT !.successes = 0]
  OBVIOUS
<1> HIDE DEF c
<1>3. [c EXCEPT !.successes = 0] \in Breaker
  BY <1>1, BreakerAssumption DEF Breaker
<1> QED BY <1>2, <1>3

LEMMA AllowSound ==
  ASSUME NEW b, Sound(b)
  PROVE  Sound(AfterAllow(b))
<1>1. CASE b.state = "OPEN" /\ CooldownOver(b)
  <2>1. AfterAllow(b) = [b EXCEPT !.state = "HALF_OPEN", !.successes = 0]
    BY <1>1 DEF AfterAllow
  <2>2. "HALF_OPEN" \in CircuitState /\ b \in Breaker
    BY DEF CircuitState, Sound
  <2>3. AfterAllow(b) \in Breaker
    <3>1. [b EXCEPT !.state = "HALF_OPEN", !.successes = 0] \in Breaker
      BY <2>2, SetStateSuccesses
    <3> QED BY <2>1, <3>1
  <2>4. AfterAllow(b).state = "HALF_OPEN" /\ AfterAllow(b).successes = 0
    BY <2>1, <2>2 DEF Breaker
  <2> QED BY <2>3, <2>4, BreakerAssumption DEF Sound, Coherent
<1>2. CASE ~(b.state = "OPEN" /\ CooldownOver(b))
  BY <1>2 DEF AfterAllow
<1> QED BY <1>1, <1>2

LEMMA TripSound ==
  ASSUME NEW b \in Breaker
  PROVE  /\ Sound(AfterTrip(b))
         /\ AfterTrip(b).state = "OPEN"
         /\ AfterTrip(b).since = 0
         /\ AfterTrip(b).cooldown = b.cooldown
<1> DEFINE c == [b EXCEPT !.state = "OPEN"]
           d == [c EXCEPT !.since = 0]
<1>1. AfterTrip(b) = [d EXCEPT !.successes = 0]
  BY DEF AfterTrip
<1>2. c \in Breaker
  BY DEF Breaker, CircuitState
<1>3. d \in Breaker
  <2> HIDE DEF c
  <2> QED BY <1>2, BreakerAssumption DEF Breaker
<1>4. /\ AfterTrip(b).state = "OPEN"
      /\ AfterTrip(b).since = 0
      /\ AfterTrip(b).successes = 0
      /\ AfterTrip(b).cooldown = b.cooldown
  BY DEF AfterTrip, Breaker
<1> HIDE DEF d
<1>5. AfterTrip(b) \in Breaker
  BY <1>1, <1>3, BreakerAssumption DEF Breaker
<1> QED BY <1>4, <1>5 DEF Sound, Coherent

LEMMA RestoredSound ==
  ASSUME NEW b \in Breaker, b.failures < FailureThreshold
  PROVE  Sound(Restored(b))
<1> DEFINE c == [b EXCEPT !.state = "CLOSED"]
           d == [c EXCEPT !.successes = 0]
<1>1. Restored(b) = [d EXCEPT !.cooldown = BaseCooldown]
  BY DEF Restored
<1>2. c \in Breaker
  BY DEF Breaker, CircuitState
<1>3. d \in Breaker
  <2> HIDE DEF c
  <2> QED BY <1>2, BreakerAssumption DEF Breaker
<1>4. /\ Restored(b).state = "CLOSED"
      /\ Restored(b).successes = 0
      /\ Restored(b).cooldown = BaseCooldown
      /\ Restored(b).failures = b.failures
  BY DEF Restored, Breaker
<1> HIDE DEF d
<1>5. Restored(b) \in Breaker
  BY <1>1, <1>3, BreakerAssumption DEF Breaker
<1> QED BY <1>4, <1>5 DEF Sound, Coherent

LEMMA SuccessSound ==
  ASSUME NEW b, Sound(b)
  PROVE  Sound(AfterSuccess(b))
<1> DEFINE healthy == [b EXCEPT !.failures = 0]
<1>1. /\ healthy \in Breaker
      /\ healthy.failures = 0
      /\ healthy.successes = b.successes
      /\ healthy.state = b.state
      /\ healthy.cooldown = b.cooldown
  BY BreakerAssumption DEF Sound, Breaker
<1>2. AfterSuccess(b) =
        IF b.state # "HALF_OPEN" THEN healthy
        ELSE IF b.successes + 1 >= SuccessThreshold THEN Restored(healthy)
        ELSE [healthy EXCEPT !.successes = @ + 1]
  BY DEF AfterSuccess
<1> HIDE DEF healthy
<1>3. CASE b.state # "HALF_OPEN"
  BY <1>1, <1>2, <1>3, BreakerAssumption DEF Sound, Coherent
<1>4. CASE b.state = "HALF_OPEN" /\ b.successes + 1 >= SuccessThreshold
  BY <1>1, <1>2, <1>4, RestoredSound, BreakerAssumption
<1>5. CASE b.state = "HALF_OPEN" /\ ~(b.successes + 1 >= SuccessThreshold)
  <2> DEFINE n == [healthy EXCEPT !.successes = healthy.successes + 1]
  <2>1. AfterSuccess(b) = n
    BY <1>2, <1>5
  <2>2. n \in Breaker /\ n.state = "HALF_OPEN" /\ n.successes = b.successes + 1
    BY <1>1, <1>5, BreakerAssumption DEF Sound, Breaker
  <2>3. n.successes < SuccessThreshold
    BY <1>5, <2>2, BreakerAssumption DEF Sound, Breaker
  <2> HIDE DEF n
  <2> QED BY <2>1, <2>2, <2>3 DEF Sound, Coherent
<1> QED BY <1>3, <1>4, <1>5

LEMMA CountedInBreaker ==
  ASSUME NEW b \in Breaker
  PROVE  Counted(b) \in Breaker
BY BreakerAssumption DEF Breaker, Counted, AtMost

LEMMA BackedOffInBreaker ==
  ASSUME NEW b \in Breaker
  PROVE  BackedOff(b) \in Breaker
BY BreakerAssumption DEF Breaker, BackedOff, AtMost

LEMMA FailureSound ==
  ASSUME NEW b, Sound(b)
  PROVE  Sound(AfterFailure(b))
<1>1. b \in Breaker /\ Counted(b) \in Breaker /\ BackedOff(Counted(b)) \in Breaker
  BY CountedInBreaker, BackedOffInBreaker DEF Sound
<1>2. CASE b.state = "HALF_OPEN"
  BY <1>1, <1>2, TripSound DEF AfterFailure
<1>3. CASE b.state = "CLOSED" /\ Counted(b).failures >= FailureThreshold
  BY <1>1, <1>3, TripSound DEF AfterFailure
<1>4. CASE b.state = "CLOSED" /\ ~(Counted(b).failures >= FailureThreshold)
  <2>1. AfterFailure(b) = Counted(b)
    BY <1>4 DEF AfterFailure
  <2> QED
    BY <1>1, <1>4, <2>1, BreakerAssumption
    DEF Sound, Breaker, Coherent, CircuitState, Counted
<1>5. CASE b.state = "OPEN"
  <2>1. AfterFailure(b) = Counted(b)
    BY <1>5 DEF AfterFailure
  <2> QED
    BY <1>1, <1>5, <2>1 DEF Sound, Breaker, Coherent, Counted
<1> QED BY <1>1, <1>2, <1>3, <1>4, <1>5 DEF Breaker, CircuitState

LEMMA ResetSound ==
  ASSUME NEW b \in Breaker
  PROVE  Sound(AfterReset(b)) /\ AfterReset(b).state = "CLOSED"
<1> DEFINE z == [b EXCEPT !.failures = 0]
<1>1. z \in Breaker /\ z.failures < FailureThreshold
  BY BreakerAssumption DEF Breaker
<1>2. AfterReset(b) = Restored(z)
  BY DEF AfterReset, Restored, Breaker
<1>3. Restored(z).state = "CLOSED"
  BY DEF Restored, Breaker
<1> HIDE DEF z
<1> QED BY <1>1, <1>2, <1>3, RestoredSound

LEMMA TickSound ==
  ASSUME NEW b, Sound(b)
  PROVE  Sound(AfterTick(b))
BY BreakerAssumption
DEF Sound, Breaker, Coherent, CircuitState, AfterTick, AtMost

LEMMA NewSound == Sound(NewCircuitBreaker)
BY BreakerAssumption
DEF Sound, Breaker, Coherent, CircuitState, NewCircuitBreaker

\* What a report can do to the phase and to the time of the last trip.
LEMMA SuccessPhase ==
  ASSUME NEW b, Sound(b)
  PROVE  /\ AfterSuccess(b).since = b.since
         /\ AfterSuccess(b).cooldown <= b.cooldown
         /\ AfterSuccess(b).state = "OPEN" <=> b.state = "OPEN"
         /\ b.state # "CLOSED" /\ AfterSuccess(b).state = "CLOSED" =>
              b.state = "HALF_OPEN" /\ b.successes = SuccessThreshold - 1
<1> b \in Breaker
  BY DEF Sound
<1>1. CASE b.state # "HALF_OPEN"
  BY <1>1, BreakerAssumption DEF AfterSuccess, Breaker, CircuitState
<1>2. CASE b.state = "HALF_OPEN" /\ b.successes + 1 >= SuccessThreshold
  <2>1. AfterSuccess(b) = Restored([b EXCEPT !.failures = 0])
    BY <1>2 DEF AfterSuccess
  <2>2. /\ Restored([b EXCEPT !.failures = 0]).since = b.since
        /\ Restored([b EXCEPT !.failures = 0]).cooldown = BaseCooldown
        /\ Restored([b EXCEPT !.failures = 0]).state = "CLOSED"
    BY DEF Restored, Breaker
  <2>3. b.successes < SuccessThreshold /\ b.successes \in 0 .. SuccessThreshold
    BY <1>2 DEF Sound, Coherent, Breaker
  <2>4. BaseCooldown <= b.cooldown
    BY BreakerAssumption DEF Breaker
  <2> QED BY <1>2, <2>1, <2>2, <2>3, <2>4, BreakerAssumption
<1>3. CASE b.state = "HALF_OPEN" /\ ~(b.successes + 1 >= SuccessThreshold)
  <2>1. AfterSuccess(b) = [[b EXCEPT !.failures = 0] EXCEPT !.successes = @ + 1]
    BY <1>3 DEF AfterSuccess
  <2> QED BY <1>3, <2>1, BreakerAssumption DEF Breaker
<1> QED BY <1>1, <1>2, <1>3

LEMMA FailurePhase ==
  ASSUME NEW b, Sound(b)
  PROVE  /\ AfterFailure(b).state # "OPEN" => b.state = "CLOSED"
         /\ b.state = "OPEN" => AfterFailure(b).since = b.since
         /\ b.state # "OPEN" /\ AfterFailure(b).state = "OPEN" =>
              AfterFailure(b).since = 0
         /\ AfterFailure(b).state = "CLOSED" => b.state = "CLOSED"
         /\ b.state # "HALF_OPEN" => AfterFailure(b).cooldown = b.cooldown
         /\ b.state = "HALF_OPEN" =>
              /\ AfterFailure(b).state = "OPEN"
              /\ AfterFailure(b).cooldown = AtMost(2 * b.cooldown, MaxCooldown)
<1>1. /\ b \in Breaker
      /\ Counted(b) \in Breaker
      /\ BackedOff(Counted(b)) \in Breaker
  BY CountedInBreaker, BackedOffInBreaker DEF Sound
<1>2. /\ Counted(b).state = b.state
      /\ Counted(b).since = b.since
      /\ Counted(b).cooldown = b.cooldown
      /\ BackedOff(Counted(b)).cooldown = AtMost(2 * b.cooldown, MaxCooldown)
  BY <1>1 DEF Counted, BackedOff, Breaker
<1>3. CASE b.state = "HALF_OPEN"
  <2>1. AfterFailure(b) = AfterTrip(BackedOff(Counted(b)))
    BY <1>3 DEF AfterFailure
  <2> QED BY <1>1, <1>2, <1>3, <2>1, TripSound
<1>4. CASE b.state = "CLOSED" /\ Counted(b).failures >= FailureThreshold
  <2>1. AfterFailure(b) = AfterTrip(Counted(b))
    BY <1>4 DEF AfterFailure
  <2> QED BY <1>1, <1>2, <1>4, <2>1, TripSound
<1>5. CASE /\ b.state # "HALF_OPEN"
           /\ ~(b.state = "CLOSED" /\ Counted(b).failures >= FailureThreshold)
  <2>1. AfterFailure(b) = Counted(b)
    BY <1>5 DEF AfterFailure
  <2> QED BY <1>1, <1>2, <1>5, <2>1 DEF Breaker, CircuitState
<1> QED BY <1>3, <1>4, <1>5

LEMMA TickPhase ==
  ASSUME NEW b \in Breaker
  PROVE  /\ AfterTick(b).state = b.state
         /\ AfterTick(b).since = AtMost(b.since + 1, MaxCooldown)
         /\ AfterTick(b).cooldown = b.cooldown
BY DEF AfterTick, Breaker

LEMMA AllowPhase ==
  ASSUME NEW b \in Breaker
  PROVE  /\ AfterAllow(b).since = b.since
         /\ AfterAllow(b).cooldown = b.cooldown
         /\ AfterAllow(b).state = IF b.state = "OPEN" /\ CooldownOver(b)
                                  THEN "HALF_OPEN" ELSE b.state
BY DEF AfterAllow, Breaker

-----------------------------------------------------------------------------
(* The inductive invariant. *)

LEMMA BreakerInitInductive == BreakerInit => BreakerInductive
<1> SUFFICES ASSUME BreakerInit PROVE BreakerInductive
  OBVIOUS
<1>1. Sound(breaker)
  BY NewSound DEF BreakerInit
<1>2. breaker.state = "CLOSED"
  BY DEF BreakerInit, NewCircuitBreaker
<1>3. BreakerTypeOK
  BY <1>1, BreakerAssumption DEF BreakerInit, BreakerTypeOK, Sound, BreakerPlaces, CircuitState
<1> QED
  BY <1>1, <1>2, <1>3, BreakerAssumption
  DEF BreakerInit, BreakerInductive, BreakerCoherent, QuietTracksTrip, Sound

LEMMA BreakerStepInductive == BreakerInductive /\ [BreakerNext]_breakerVars => BreakerInductive'
<1> SUFFICES ASSUME BreakerInductive, [BreakerNext]_breakerVars PROVE BreakerInductive'
  OBVIOUS
<1> USE BreakerAssumption
<1>1. Sound(breaker) /\ breaker \in Breaker /\ quiet \in 0 .. MaxCooldown
  BY DEF BreakerInductive, BreakerCoherent, BreakerTypeOK, Sound
<1> DEFINE Kept == /\ Sound(breaker')
                   /\ pc' \in [Callers -> BreakerPlaces]
                   /\ quiet' \in 0 .. MaxCooldown
                   /\ QuietTracksTrip'
<1>2. SUFFICES Kept
  BY DEF BreakerInductive, BreakerCoherent, BreakerTypeOK, Sound
<1>3. ASSUME NEW r \in Callers, Allow(r)
      PROVE  Kept
  <2>1. Sound(breaker')
    BY <1>1, <1>3, AllowSound DEF Allow
  <2>2. pc' \in [Callers -> BreakerPlaces]
    BY <1>3 DEF Allow, BreakerInductive, BreakerTypeOK, BreakerPlaces
  <2>3. QuietTracksTrip'
    BY <1>1, <1>3, AllowPhase
    DEF Allow, BreakerInductive, QuietTracksTrip, CooldownOver, Breaker
  <2> QED BY <1>1, <1>3, <2>1, <2>2, <2>3 DEF Allow
<1>4. ASSUME NEW r \in Callers, RecordSuccess(r)
      PROVE  Kept
  <2>1. breaker' = AfterSuccess(breaker) /\ quiet' = quiet
    BY <1>4 DEF RecordSuccess
  <2>2. pc' \in [Callers -> BreakerPlaces]
    BY <1>4 DEF RecordSuccess, Goto, BreakerInductive, BreakerTypeOK, BreakerPlaces
  <2>3. Sound(breaker')
    BY <1>1, <2>1, SuccessSound
  <2>4. QuietTracksTrip'
    BY <1>1, <2>1, SuccessPhase DEF BreakerInductive, QuietTracksTrip
  <2> QED BY <1>1, <2>1, <2>2, <2>3, <2>4 DEF BreakerInductive, BreakerTypeOK
<1>5. ASSUME NEW r \in Callers, EndUncounted(r)
      PROVE  Kept
  BY <1>1, <1>5
  DEF EndUncounted, Goto, BreakerInductive, BreakerTypeOK, BreakerPlaces, QuietTracksTrip
<1>6. ASSUME NEW r \in Callers, RecordFailure(r)
      PROVE  Kept
  <2>1. /\ breaker' = AfterFailure(breaker)
        /\ quiet' = IF breaker.state # "OPEN" /\ breaker'.state = "OPEN"
                    THEN 0 ELSE quiet
    BY <1>6 DEF RecordFailure, ObserveTrip
  <2>2. pc' \in [Callers -> BreakerPlaces]
    BY <1>6 DEF RecordFailure, Goto, BreakerInductive, BreakerTypeOK, BreakerPlaces
  <2>3. Sound(breaker')
    BY <1>1, <2>1, FailureSound
  <2>4. QuietTracksTrip'
    BY <1>1, <2>1, FailurePhase DEF BreakerInductive, QuietTracksTrip
  <2> QED BY <1>1, <2>1, <2>2, <2>3, <2>4 DEF BreakerInductive, BreakerTypeOK
<1>7. ASSUME NEW r \in Callers, TripImmediate(r)
      PROVE  Kept
  <2>1. breaker' = AfterTrip(breaker) /\ quiet' = 0
    BY <1>7 DEF TripImmediate, ObserveTrip
  <2>2. pc' \in [Callers -> BreakerPlaces]
    BY <1>7 DEF TripImmediate, Goto, BreakerInductive, BreakerTypeOK, BreakerPlaces
  <2> QED
    BY <1>1, <2>1, <2>2, TripSound DEF BreakerInductive, BreakerTypeOK, QuietTracksTrip
<1>8. CASE Reset
  <2>1. breaker' = AfterReset(breaker) /\ pc' = pc /\ quiet' = MaxCooldown
    BY <1>8 DEF Reset
  <2> QED BY <1>1, <2>1, ResetSound DEF BreakerInductive, BreakerTypeOK, QuietTracksTrip
<1>9. CASE BreakerTick
  <2>1. /\ breaker' = AfterTick(breaker)
        /\ pc' = pc
        /\ quiet' = AtMost(quiet + 1, MaxCooldown)
    BY <1>9 DEF BreakerTick
  <2>2. quiet' \in 0 .. MaxCooldown /\ (quiet >= BaseCooldown => quiet' >= BaseCooldown)
    BY <1>1, <2>1 DEF AtMost
  <2>3. Sound(breaker')
    BY <1>1, <2>1, TickSound
  <2>4. QuietTracksTrip'
    BY <1>1, <2>1, <2>2, TickPhase DEF BreakerInductive, QuietTracksTrip
  <2> QED BY <2>1, <2>2, <2>3, <2>4 DEF BreakerInductive, BreakerTypeOK
<1>10. CASE UNCHANGED breakerVars
  BY <1>1, <1>10 DEF breakerVars, BreakerInductive, BreakerTypeOK, QuietTracksTrip
<1> QED
  BY <1>3, <1>4, <1>5, <1>6, <1>7, <1>8, <1>9, <1>10 DEF BreakerNext

LEMMA BreakerAlwaysInductive == BreakerSpec => []BreakerInductive
BY BreakerInitInductive, BreakerStepInductive, PTL DEF BreakerSpec

\* Types: the counters and the backoff stay within their bounds.
THEOREM BreakerTypeCorrect == BreakerSpec => []BreakerTypeOK
<1>1. BreakerInductive => BreakerTypeOK
  BY DEF BreakerInductive
<1> QED BY <1>1, BreakerAlwaysInductive, PTL

\* The breaker is coherent between any two calls (circuit_breaker.go:73-147).
THEOREM BreakerAlwaysCoherent == BreakerSpec => []BreakerCoherent
<1>1. BreakerInductive => BreakerCoherent
  BY DEF BreakerInductive
<1> QED BY <1>1, BreakerAlwaysInductive, PTL

\* No request is let through within the base cooldown of a trip
\* (circuit_breaker.go:56-63).
THEOREM NoRequestSoonAfterTrip == BreakerSpec => QuietAfterTrip
<1>1. BreakerInductive /\ [BreakerNext]_breakerVars =>
        [\A r \in Callers :
           pc[r] = "idle" /\ pc'[r] = "flight" => quiet >= BaseCooldown]_breakerVars
  <2> SUFFICES ASSUME BreakerInductive, BreakerNext, NEW r \in Callers,
                      pc[r] = "idle", pc'[r] = "flight"
               PROVE  quiet >= BaseCooldown
    OBVIOUS
  <2>1. Allow(r)
    BY DEF BreakerNext, Allow, RecordSuccess, EndUncounted, RecordFailure, TripImmediate,
           Reset, BreakerTick, Goto, BreakerInductive, BreakerTypeOK
  <2>2. Allows(breaker)
    BY <2>1 DEF Allow
  <2> QED
    BY <2>2, BreakerAssumption
    DEF Allows, CooldownOver, BreakerInductive, QuietTracksTrip, BreakerTypeOK, Breaker
<1> QED BY <1>1, BreakerAlwaysInductive, PTL DEF BreakerSpec, QuietAfterTrip

\* An open breaker closes only after enough successful probes, or by a reset
\* (circuit_breaker.go:79-87).
THEOREM ClosingNeedsProbes == BreakerSpec => ClosesOnlyAfterProbing
<1>1. BreakerInductive /\ [BreakerNext]_breakerVars =>
        [breaker.state # "CLOSED" /\ breaker'.state = "CLOSED" =>
           \/ breaker.state = "HALF_OPEN" /\ breaker.successes = SuccessThreshold - 1
           \/ Reset]_breakerVars
  <2> SUFFICES ASSUME BreakerInductive, BreakerNext, ~Reset,
                      breaker.state # "CLOSED", breaker'.state = "CLOSED"
               PROVE  breaker.state = "HALF_OPEN" /\ breaker.successes = SuccessThreshold - 1
    OBVIOUS
  <2>1. Sound(breaker) /\ breaker \in Breaker
    BY DEF BreakerInductive, BreakerCoherent, BreakerTypeOK, Sound
  <2>2. \/ breaker' = AfterAllow(breaker)
        \/ breaker' = AfterSuccess(breaker)
        \/ breaker' = breaker
        \/ breaker' = AfterFailure(breaker)
        \/ breaker' = AfterTrip(breaker)
        \/ breaker' = AfterTick(breaker)
    BY DEF BreakerNext, Allow, RecordSuccess, EndUncounted, RecordFailure, TripImmediate, BreakerTick
  <2> QED
    BY <2>1, <2>2, AllowPhase, SuccessPhase, FailurePhase, TripSound, TickPhase
<1> QED BY <1>1, BreakerAlwaysInductive, PTL DEF BreakerSpec, ClosesOnlyAfterProbing

\* The backoff doubles only on the step that ends a half-open phase
\* (circuit_breaker.go:102-108).
THEOREM BackoffGrowsOncePerPhase == BreakerSpec => BackoffOncePerPhase
<1>1. BreakerInductive /\ [BreakerNext]_breakerVars =>
        [breaker'.cooldown > breaker.cooldown =>
           /\ breaker.state = "HALF_OPEN"
           /\ breaker'.state = "OPEN"
           /\ breaker'.cooldown = AtMost(2 * breaker.cooldown, MaxCooldown)]_breakerVars
  <2> SUFFICES ASSUME BreakerInductive, BreakerNext, breaker'.cooldown > breaker.cooldown
               PROVE  /\ breaker.state = "HALF_OPEN"
                      /\ breaker'.state = "OPEN"
                      /\ breaker'.cooldown = AtMost(2 * breaker.cooldown, MaxCooldown)
    OBVIOUS
  <2>1. /\ Sound(breaker)
        /\ breaker \in Breaker
        /\ breaker.cooldown \in Int
        /\ BaseCooldown <= breaker.cooldown
    BY BreakerAssumption DEF BreakerInductive, BreakerCoherent, BreakerTypeOK, Sound, Breaker
  <2>2. \/ breaker' = AfterAllow(breaker)
        \/ breaker' = AfterSuccess(breaker)
        \/ breaker' = breaker
        \/ breaker' = AfterFailure(breaker)
        \/ breaker' = AfterTrip(breaker)
        \/ breaker' = AfterReset(breaker)
        \/ breaker' = AfterTick(breaker)
    BY DEF BreakerNext, Allow, RecordSuccess, EndUncounted, RecordFailure, TripImmediate,
           Reset, BreakerTick
  <2>3. AfterReset(breaker).cooldown = BaseCooldown
    BY <2>1 DEF AfterReset, Restored, Breaker
  <2>4. breaker' # AfterSuccess(breaker)
    <3>1. AfterSuccess(breaker).cooldown <= breaker.cooldown
      BY <2>1, SuccessPhase
    <3>2. AfterSuccess(breaker).cooldown \in Int
      BY <2>1, SuccessSound, BreakerAssumption DEF Sound, Breaker
    <3> QED BY <2>1, <3>1, <3>2
  <2> QED
    BY <2>1, <2>2, <2>3, <2>4, AllowPhase, FailurePhase, TripSound, TickPhase,
       BreakerAssumption
<1> QED BY <1>1, BreakerAlwaysInductive, PTL DEF BreakerSpec, BackoffOncePerPhase

-----------------------------------------------------------------------------
(* What the catalog's methods return. *)

LEMMA VerdictsAreEntries == Healthy \in Entry /\ Gone \in Entry
BY RecheckAssumption DEF Healthy, Gone, Entry

LEMMA UsableEntry ==
  ASSUME NEW e \in Entry
  PROVE  /\ AfterUsable(e) \in Entry
         /\ AfterUsable(e).status = e.status
         /\ RecheckDue(e) => AfterUsable(e).age = 0
         /\ ~RecheckDue(e) => AfterUsable(e) = e
BY RecheckAssumption DEF AfterUsable, Entry

LEMMA WaitEntry ==
  ASSUME NEW e \in Entry
  PROVE  /\ AfterWait(e) \in Entry
         /\ AfterWait(e).status = e.status
         /\ AfterWait(e).age <= e.age + 1
BY RecheckAssumption DEF AfterWait, Entry

-----------------------------------------------------------------------------
(* The tasks of requests. *)

LEMMA TaskShapes ==
  ASSUME NEW t \in AskerTask
  PROVE  /\ t.pc \in {"idle", "sent", "reactivate", "persist"}
         /\ t.pc # "idle" => t.model \in Models
         /\ t.pc = "persist" =>
              /\ t \in [pc : {"persist"}, model : Models, entry : Entry]
              /\ t.entry \in Entry
BY DEF AskerTask, Idle

LEMMA NewTasks ==
  ASSUME NEW m \in Models
  PROVE  /\ Idle \in AskerTask
         /\ [pc |-> "sent", model |-> m] \in AskerTask
         /\ [pc |-> "reactivate", model |-> m] \in AskerTask
         /\ \A e \in Entry : [pc |-> "persist", model |-> m, entry |-> e] \in AskerTask
BY DEF AskerTask, Idle

LEMMA WaitingTask ==
  ASSUME NEW t \in AskerTask, t.pc = "persist"
  PROVE  [t EXCEPT !.entry = AfterWait(t.entry)] \in AskerTask
<1>1. t \in [pc : {"persist"}, model : Models, entry : Entry] /\ t.entry \in Entry
  BY TaskShapes
<1>2. AfterWait(t.entry) \in Entry
  BY <1>1, WaitEntry
<1>3. [t EXCEPT !.entry = AfterWait(t.entry)]
        \in [pc : {"persist"}, model : Models, entry : Entry]
  BY <1>1, <1>2
<1> QED BY <1>3 DEF AskerTask

LEMMA IdleIsIdle ==
  ASSUME NEW t \in AskerTask, t.pc = "idle"
  PROVE  t = Idle
BY DEF AskerTask, Idle

-----------------------------------------------------------------------------
(* The inductive invariant. *)

LEMMA CatalogInitInductive == CatalogInit => CatalogInductive
<1> SUFFICES ASSUME CatalogInit PROVE CatalogInductive
  OBVIOUS
<1>1. CatalogTypeOK
  BY VerdictsAreEntries, RecheckAssumption DEF CatalogInit, CatalogTypeOK, AskerTask
<1>2. AgeWithinGrant
  BY DEF CatalogInit, AgeWithinGrant, Healthy
<1> QED BY <1>1, <1>2 DEF CatalogInductive

\* A new verdict of a model, which the request will persist.
LEMMA RecordKeeps ==
  ASSUME CatalogInductive, NEW r \in Askers, NEW e \in Entry, e.age = 0,
         asker[r].model \in Models, Record(r, e)
  PROVE  CatalogInductive'
<1>1. CatalogTypeOK
  BY DEF CatalogInductive
<1>2. CatalogTypeOK'
  <2>1. entries' \in [Models -> Entry]
    BY <1>1 DEF Record, CatalogTypeOK
  <2>2. [pc |-> "persist", model |-> asker[r].model, entry |-> e] \in AskerTask
    BY NewTasks
  <2>3. asker' \in [Askers -> AskerTask]
    BY <1>1, <2>2 DEF Record, CatalogTypeOK
  <2> QED BY <1>1, <2>1, <2>3 DEF Record, CatalogTypeOK
<1>3. AgeWithinGrant'
  BY <1>1, RecheckAssumption DEF Record, CatalogTypeOK, CatalogInductive, AgeWithinGrant
<1> QED BY <1>2, <1>3 DEF CatalogInductive

LEMMA CatalogStepInductive == CatalogInductive /\ [CatalogNext]_catalogVars => CatalogInductive'
<1> SUFFICES ASSUME CatalogInductive, [CatalogNext]_catalogVars PROVE CatalogInductive'
  OBVIOUS
<1>1. CatalogTypeOK
  BY DEF CatalogInductive
<1>2. AgeWithinGrant
  BY DEF CatalogInductive
<1>3. ASSUME NEW r \in Askers, NEW m \in Models, Usable(r, m) PROVE CatalogInductive'
  <2>1. entries[m] \in Entry
    BY <1>1 DEF CatalogTypeOK
  <2>2. entries' \in [Models -> Entry]
    BY <1>1, <1>3, <2>1, UsableEntry DEF Usable, CatalogTypeOK
  <2>3. asker' \in [Askers -> AskerTask]
    BY <1>1, <1>3, NewTasks DEF Usable, CatalogTypeOK
  <2>4. granted' \in [Models -> 0 .. RecheckTTL]
    BY <1>1, <1>3, RecheckAssumption DEF Usable, CatalogTypeOK
  <2>5. CatalogTypeOK'
    BY <1>1, <1>3, <2>2, <2>3, <2>4 DEF Usable, CatalogTypeOK
  <2>6. ASSUME NEW n \in Models, entries'[n].status = "inactive"
        PROVE  entries'[n].age <= granted'[n]
    <3>1. CASE n = m /\ RecheckDue(entries[m])
      BY <1>1, <1>3, <2>1, <3>1, UsableEntry, RecheckAssumption DEF Usable, CatalogTypeOK
    <3>2. CASE ~(n = m /\ RecheckDue(entries[m]))
      BY <1>1, <1>2, <1>3, <2>1, <2>6, <3>2, UsableEntry
      DEF Usable, CatalogTypeOK, AgeWithinGrant
    <3> QED BY <3>1, <3>2
  <2> QED BY <2>5, <2>6 DEF CatalogInductive, AgeWithinGrant
<1>4. ASSUME NEW r \in Askers, NoVerdict(r) PROVE CatalogInductive'
  <2>1. CatalogTypeOK'
    BY <1>1, <1>4 DEF NoVerdict, CatalogTypeOK, AskerTask
  <2> QED BY <1>2, <1>4, <2>1 DEF NoVerdict, CatalogInductive, AgeWithinGrant
<1>5. ASSUME NEW r \in Askers, CatalogMarkInactive(r) PROVE CatalogInductive'
  <2>1. asker[r].model \in Models
    BY <1>1, <1>5, TaskShapes DEF CatalogMarkInactive, CatalogTypeOK
  <2> QED BY <1>5, <2>1, RecordKeeps, VerdictsAreEntries DEF CatalogMarkInactive, Gone
<1>6. ASSUME NEW r \in Askers, MarkActive(r) PROVE CatalogInductive'
  <2>1. CASE Marks(entries[asker[r].model])
    <3>1. asker[r].model \in Models
      BY <1>1, <1>6, TaskShapes DEF MarkActive, CatalogTypeOK
    <3> QED BY <1>6, <2>1, <3>1, RecordKeeps, VerdictsAreEntries DEF MarkActive, Healthy
  <2>2. CASE ~Marks(entries[asker[r].model])
    <3>1. CatalogTypeOK'
      BY <1>1, <1>6, <2>2 DEF MarkActive, CatalogTypeOK, AskerTask
    <3> QED BY <1>2, <1>6, <2>2, <3>1 DEF MarkActive, CatalogInductive, AgeWithinGrant
  <2> QED BY <2>1, <2>2
<1>7. ASSUME NEW r \in Askers, NEW m \in Models, Reactivate(r, m) PROVE CatalogInductive'
  <2>1. CatalogTypeOK'
    BY <1>1, <1>7, NewTasks DEF Reactivate, CatalogTypeOK
  <2> QED BY <1>2, <1>7, <2>1 DEF Reactivate, CatalogInductive, AgeWithinGrant
<1>8. ASSUME NEW r \in Askers, Persist(r) PROVE CatalogInductive'
  <2>1. asker[r].entry \in Entry
    BY <1>1, <1>8, TaskShapes DEF Persist, CatalogTypeOK
  <2>2. CatalogTypeOK'
    BY <1>1, <1>8, <2>1 DEF Persist, CatalogTypeOK, AskerTask
  <2> QED BY <1>2, <1>8, <2>2 DEF Persist, CatalogInductive, AgeWithinGrant
<1>9. CASE Restart
  <2>1. CatalogTypeOK'
    BY <1>1, <1>9, RecheckAssumption DEF Restart, CatalogTypeOK, AskerTask
  <2>2. AgeWithinGrant'
    BY <1>1, <1>9, RecheckAssumption DEF Restart, CatalogTypeOK, AgeWithinGrant, Entry
  <2> QED BY <2>1, <2>2 DEF CatalogInductive
<1>10. CASE CatalogTick
  <2>1. entries' \in [Models -> Entry] /\ store' \in [Models -> Entry]
    BY <1>1, <1>10, WaitEntry DEF CatalogTick, CatalogTypeOK
  <2>2. granted' \in [Models -> 0 .. RecheckTTL]
    BY <1>1, <1>10, RecheckAssumption DEF CatalogTick, CatalogTypeOK
  <2>3. ASSUME NEW r \in Askers
        PROVE  (IF asker[r].pc = "persist" THEN [asker[r] EXCEPT !.entry = AfterWait(@)]
                ELSE asker[r]) \in AskerTask
    BY <1>1, WaitingTask DEF CatalogTypeOK
  <2>4. asker' \in [Askers -> AskerTask]
    BY <1>10, <2>3 DEF CatalogTick
  <2>5. ASSUME NEW m \in Models, entries'[m].status = "inactive"
        PROVE  entries'[m].age <= granted'[m]
    <3>1. /\ entries[m] \in Entry
          /\ entries'[m] = AfterWait(entries[m])
          /\ granted[m] \in 0 .. RecheckTTL
          /\ granted'[m] = IF granted[m] < RecheckTTL THEN granted[m] + 1 ELSE granted[m]
      BY <1>1, <1>10 DEF CatalogTick, CatalogTypeOK
    <3>2. /\ entries'[m].age \in 0 .. RecheckTTL
          /\ entries'[m].age <= entries[m].age + 1
          /\ entries[m].age <= granted[m]
          /\ entries[m].age \in 0 .. RecheckTTL
      BY <1>2, <2>5, <3>1, WaitEntry DEF AgeWithinGrant, Entry
    <3> QED BY <3>1, <3>2, RecheckAssumption
  <2> QED BY <2>1, <2>2, <2>4, <2>5 DEF CatalogTypeOK, CatalogInductive, AgeWithinGrant
<1>11. CASE UNCHANGED catalogVars
  BY <1>11 DEF catalogVars, CatalogInductive, CatalogTypeOK, AgeWithinGrant
<1> QED
  BY <1>3, <1>4, <1>5, <1>6, <1>7, <1>8, <1>9, <1>10, <1>11 DEF CatalogNext

-----------------------------------------------------------------------------
(* The theorems. *)

LEMMA CatalogAlwaysInductive == CatalogSpec => []CatalogInductive
<1>1. CatalogInit => CatalogInductive
  BY CatalogInitInductive
<1>2. CatalogInductive /\ [CatalogNext]_catalogVars => CatalogInductive'
  BY CatalogStepInductive
<1> QED BY <1>1, <1>2, PTL DEF CatalogSpec

\* The catalog, its table and the entries waiting to be written to it stay well
\* formed, whatever order the writes of an entry arrive in.
THEOREM CatalogTypeCorrect == CatalogSpec => []CatalogTypeOK
<1>1. CatalogInductive => CatalogTypeOK
  BY DEF CatalogInductive
<1> QED BY <1>1, CatalogAlwaysInductive, PTL

\* Only Usable takes a request that was idle to its upstream.
LEMMA OnlyUsableSends ==
  ASSUME CatalogInductive, CatalogNext, NEW r \in Askers, NEW m \in Models,
         asker[r].pc = "idle", asker'[r] = [pc |-> "sent", model |-> m]
  PROVE  Usable(r, m)
<1>1. CatalogTypeOK
  BY DEF CatalogInductive
<1>2. asker'[r].pc = "sent" /\ asker'[r].model = m
  OBVIOUS
<1>3. ASSUME NEW q \in Askers, NoVerdict(q) \/ CatalogMarkInactive(q) \/ MarkActive(q) \/ Persist(q)
      PROVE  FALSE
  BY <1>1, <1>2, <1>3
  DEF CatalogTypeOK, NoVerdict, CatalogMarkInactive, MarkActive, Persist, Record, Idle
<1>4. ASSUME NEW q \in Askers, NEW n \in Models, Reactivate(q, n) PROVE FALSE
  BY <1>1, <1>2, <1>4 DEF CatalogTypeOK, Reactivate
<1>5. ASSUME Restart \/ CatalogTick PROVE FALSE
  BY <1>1, <1>2, <1>5 DEF CatalogTypeOK, Restart, CatalogTick, Idle
<1>6. ASSUME NEW q \in Askers, NEW n \in Models, Usable(q, n) PROVE q = r /\ n = m
  BY <1>1, <1>2, <1>6 DEF CatalogTypeOK, Usable
<1> QED BY <1>3, <1>4, <1>5, <1>6 DEF CatalogNext

\* An inactive model is sent to once per recheck TTL, whichever requests ask for it
\* at once and whichever verdicts of earlier requests arrive late.
THEOREM OneRecheck == CatalogSpec => OneRecheckPerTTL
<1>1. ASSUME CatalogInductive, [CatalogNext]_catalogVars, NEW r \in Askers, NEW m \in Models,
             entries[m].status = "inactive",
             asker[r].pc = "idle", asker'[r] = [pc |-> "sent", model |-> m]
      PROVE  granted[m] >= RecheckTTL
  <2>1. CatalogNext
    BY <1>1 DEF catalogVars
  <2>2. Usable(r, m)
    BY <1>1, <2>1, OnlyUsableSends
  <2>3. entries[m].age >= RecheckTTL
    BY <1>1, <2>2 DEF Usable, IsUsable, RecheckDue
  <2>4. entries[m].age <= granted[m]
    BY <1>1 DEF CatalogInductive, AgeWithinGrant
  <2>5. entries[m].age \in Int /\ granted[m] \in Int
    BY <1>1, RecheckAssumption DEF CatalogInductive, CatalogTypeOK, Entry
  <2> QED BY <2>3, <2>4, <2>5, RecheckAssumption
<1>2. CatalogInductive /\ [CatalogNext]_catalogVars =>
        [\A r \in Askers, m \in Models :
           /\ entries[m].status = "inactive"
           /\ asker[r].pc = "idle" /\ asker'[r] = [pc |-> "sent", model |-> m]
           => granted[m] >= RecheckTTL]_catalogVars
  BY <1>1
<1> QED BY <1>2, CatalogAlwaysInductive, PTL DEF CatalogSpec, OneRecheckPerTTL

-----------------------------------------------------------------------------
(* Dispatch: what the methods of its breakers return. *)

LEMMA MethodsSound ==
  ASSUME NEW b, Sound(b)
  PROVE  /\ Sound(AfterAllow(b)) /\ Sound(AfterTick(b)) /\ Sound(AfterTrip(b))
         /\ Sound(AfterSuccess(b)) /\ Sound(AfterFailure(b))
BY BreakerAssumption, AllowSound, TickSound, TripSound, SuccessSound, FailureSound DEF Sound

Streams == {"none", "open", "finished", "failed"}
Answers == {"none", "whole", "unverified", "cut", "canceled", "broken", "exhausted", "skipped"}

-----------------------------------------------------------------------------
(* What the steps make of a dispatch's locals. *)

LEMMA FieldsKept ==
  ASSUME NEW t \in Task
  PROVE  /\ \A place \in Places : [t EXCEPT !.pc = place] \in Task
         /\ \A n \in Nat \ {0} : [t EXCEPT !.pos = n] \in Task
         /\ \A n \in Nat : /\ [t EXCEPT !.tries = n] \in Task
                           /\ [t EXCEPT !.home = n] \in Task
                           /\ [t EXCEPT !.claimed = n] \in Task
         /\ \A m \in {"stall", "verify"} : [t EXCEPT !.mode = m] \in Task
         /\ [t EXCEPT !.called = TRUE] \in Task
         /\ [t EXCEPT !.failed = TRUE] \in Task
         /\ [t EXCEPT !.claimant = TRUE] \in Task
         /\ [t EXCEPT !.gone = TRUE] \in Task
BY DEF Task

LEMMA LocalTask ==
  /\ Local("next") \in Task /\ Local("done") \in Task
BY DEF Local, Task, Places

\* All the locals but those that are named.
Same(t, u, fields) ==
  /\ "pc" \in fields \/ u.pc = t.pc
  /\ "mode" \in fields \/ u.mode = t.mode
  /\ "pos" \in fields \/ u.pos = t.pos
  /\ "home" \in fields \/ u.home = t.home
  /\ "tries" \in fields \/ u.tries = t.tries
  /\ "claimed" \in fields \/ u.claimed = t.claimed
  /\ "failed" \in fields \/ u.failed = t.failed
  /\ "gone" \in fields \/ u.gone = t.gone
  /\ "claimant" \in fields \/ u.claimant = t.claimant
  /\ "called" \in fields \/ u.called = t.called

LEMMA PlaceTask ==
  ASSUME NEW t \in Task, NEW place \in Places
  PROVE  /\ [t EXCEPT !.pc = place] \in Task
         /\ [t EXCEPT !.pc = place].pc = place
         /\ Same(t, [t EXCEPT !.pc = place], {"pc"})
BY DEF Task, Same

LEMMA NextTask ==
  ASSUME NEW t \in Task
  PROVE  /\ NextTarget(t) \in Task
         /\ NextTarget(t).pc = "next" /\ NextTarget(t).pos = t.pos + 1
         /\ Same(t, NextTarget(t), {"pc", "pos"})
<1> DEFINE u == [t EXCEPT !.pc = "next"]
<1>1. u \in Task /\ u.pos = t.pos /\ t.pos \in Nat \ {0}
  BY FieldsKept DEF Task, Places
<1>2. NextTarget(t) = [u EXCEPT !.pos = t.pos + 1]
  BY DEF NextTarget, Task
<1>3. NextTarget(t).pc = "next" /\ NextTarget(t).pos = t.pos + 1
  BY DEF NextTarget, Task
<1>4. Same(t, NextTarget(t), {"pc", "pos"})
  BY DEF NextTarget, Task, Same
<1> HIDE DEF u
<1>5. t.pos + 1 \in Nat \ {0}
  BY <1>1
<1>6. [u EXCEPT !.pos = t.pos + 1] \in Task
  BY <1>1, <1>5, FieldsKept
<1> QED BY <1>2, <1>3, <1>4, <1>6

LEMMA FailedTask ==
  ASSUME NEW t \in Task
  PROVE  /\ FailedTarget(t) \in Task
         /\ FailedTarget(t).pc = "next" /\ FailedTarget(t).pos = t.pos + 1
         /\ FailedTarget(t).failed
         /\ Same(t, FailedTarget(t), {"pc", "pos", "failed"})
<1> DEFINE u == NextTarget(t)
<1>1. /\ u \in Task /\ u.pc = "next" /\ u.pos = t.pos + 1
      /\ Same(t, u, {"pc", "pos"})
  BY NextTask
<1>2. FailedTarget(t) = [u EXCEPT !.failed = TRUE]
  BY DEF FailedTarget
<1> HIDE DEF u
<1>3. FailedTarget(t) \in Task
  BY <1>1, <1>2, FieldsKept
<1> QED BY <1>1, <1>2, <1>3 DEF Task, Same

LEMMA ClaimTask ==
  ASSUME NEW t \in Task
  PROVE  /\ RememberedClaim(t) \in Task
         /\ RememberedClaim(t).pc = "next" /\ RememberedClaim(t).pos = t.pos + 1
         /\ RememberedClaim(t).failed /\ RememberedClaim(t).claimed = t.pos
         /\ Same(t, RememberedClaim(t), {"pc", "pos", "failed", "claimed"})
<1> DEFINE u == FailedTarget(t)
<1>1. /\ u \in Task /\ u.pc = "next" /\ u.pos = t.pos + 1 /\ u.failed
      /\ Same(t, u, {"pc", "pos", "failed"})
  BY FailedTask
<1>2. RememberedClaim(t) = [u EXCEPT !.claimed = t.pos]
  BY DEF RememberedClaim
<1> HIDE DEF u
<1>3. t.pos \in Nat
  BY DEF Task
<1>4. RememberedClaim(t) \in Task
  BY <1>1, <1>2, <1>3, FieldsKept
<1> QED BY <1>1, <1>2, <1>4 DEF Task, Same

LEMMA ClaimantTask ==
  ASSUME NEW t \in Task
  PROVE  /\ [t EXCEPT !.claimant = TRUE] \in Task
         /\ [t EXCEPT !.claimant = TRUE].claimant
         /\ Same(t, [t EXCEPT !.claimant = TRUE], {"claimant"})
BY DEF Task, Same

LEMMA CountedTask ==
  ASSUME NEW t \in Task
  PROVE  /\ CountedCall(t) \in Task
         /\ CountedCall(t).pc = "send" /\ CountedCall(t).called
         /\ CountedCall(t).tries = IF t.mode = "chain" THEN t.tries ELSE t.tries + 1
         /\ Same(t, CountedCall(t), {"pc", "called", "tries"})
<1> DEFINE u == [t EXCEPT !.pc = "send"]
           v == [u EXCEPT !.called = TRUE]
           n == IF t.mode = "chain" THEN t.tries ELSE t.tries + 1
<1>1. u \in Task
  BY FieldsKept DEF Places
<1>2. v \in Task
  <2> HIDE DEF u
  <2> QED BY <1>1, FieldsKept
<1>3. CountedCall(t) = [v EXCEPT !.tries = n]
  BY DEF CountedCall
<1>4. /\ CountedCall(t).pc = "send" /\ CountedCall(t).called /\ CountedCall(t).tries = n
      /\ Same(t, CountedCall(t), {"pc", "called", "tries"})
  BY DEF CountedCall, Task, Same
<1>5. n \in Nat
  BY DEF Task
<1> HIDE DEF v, n
<1>6. CountedCall(t) \in Task
  BY <1>2, <1>3, <1>5, FieldsKept
<1> QED BY <1>4, <1>6 DEF n

LEMMA ContinuedTask ==
  ASSUME NEW t \in Task, NEW mode \in {"stall", "verify"}
  PROVE  /\ ContinuedTurn(t, mode) \in Task
         /\ ContinuedTurn(t, mode).pc = "next" /\ ContinuedTurn(t, mode).mode = mode
         /\ ContinuedTurn(t, mode).home = t.pos
         /\ Same(t, ContinuedTurn(t, mode), {"pc", "mode", "home"})
<1> DEFINE u == ContinuedTurn(t, mode)
           v == [t EXCEPT !.pc = "next"]
           w == [v EXCEPT !.mode = mode]
<1>1. v \in Task
  BY FieldsKept DEF Places
<1>2. w \in Task
  <2> HIDE DEF v
  <2> QED BY <1>1, FieldsKept
<1>3. u = [w EXCEPT !.home = t.pos] /\ t.pos \in Nat
  BY DEF ContinuedTurn, Task
<1>4. u.pc = "next" /\ u.mode = mode /\ u.home = t.pos /\ Same(t, u, {"pc", "mode", "home"})
  BY DEF ContinuedTurn, Task, Same
<1> HIDE DEF w, u
<1>5. u \in Task
  BY <1>2, <1>3, FieldsKept
<1> QED BY <1>4, <1>5 DEF u

-----------------------------------------------------------------------------
(* The inductive invariant. *)

\* The locals stay within the chain.
Fits(r, t) ==
  /\ t \in Task
  /\ t.pos <= Len(Chain[r]) + 1 /\ t.home <= Len(Chain[r]) /\ t.claimed <= Len(Chain[r])
  /\ t.tries <= MaxContinuations

Tables ==
  /\ breakers \in [Targets -> Breaker] /\ \A x \in Targets : Sound(breakers[x])
  /\ catalog \in [Targets -> Entry]

LEMMA ChainLength ==
  ASSUME NEW r \in Requests
  PROVE  /\ Len(Chain[r]) \in Nat
         /\ \A n \in 1 .. Len(Chain[r]) : Chain[r][n] \in Targets
BY DispatchAssumption

LEMMA InductiveParts ==
  Inductive <=>
    /\ Tables
    /\ task \in [Requests -> Task]
    /\ stream \in [Requests -> Streams] /\ answer \in [Requests -> Answers]
    /\ \A r \in Requests : Fits(r, task[r]) /\ Placed(r, task[r], stream[r], answer[r])
BY DEF Inductive, TypeOK, Tables, Fits, Streams, Answers, Sound

\* A step of one dispatch, which leaves it in a good place.
Moves(r, t, s, a) ==
  /\ Fits(r, t) /\ s \in Streams /\ a \in Answers /\ Placed(r, t, s, a)
  /\ task' = [task EXCEPT ![r] = t]
  /\ stream' = [stream EXCEPT ![r] = s]
  /\ answer' = [answer EXCEPT ![r] = a]

LEMMA MoveKeeps ==
  ASSUME Inductive, Tables', NEW r \in Requests, NEW t, NEW s, NEW a, Moves(r, t, s, a)
  PROVE  Inductive'
<1>1. /\ task \in [Requests -> Task]
      /\ stream \in [Requests -> Streams] /\ answer \in [Requests -> Answers]
      /\ \A u \in Requests : Fits(u, task[u]) /\ Placed(u, task[u], stream[u], answer[u])
  BY InductiveParts
<1>2. /\ task' \in [Requests -> Task]
      /\ stream' \in [Requests -> Streams] /\ answer' \in [Requests -> Answers]
  BY <1>1 DEF Moves, Fits
<1>3. ASSUME NEW u \in Requests
      PROVE  Fits(u, task'[u]) /\ Placed(u, task'[u], stream'[u], answer'[u])
  <2>1. CASE u = r
    <3>1. task'[u] = t /\ stream'[u] = s /\ answer'[u] = a
      BY <1>1, <2>1 DEF Moves
    <3> QED BY <2>1, <3>1 DEF Moves
  <2>2. CASE u # r
    <3>1. task'[u] = task[u] /\ stream'[u] = stream[u] /\ answer'[u] = answer[u]
      BY <1>1, <2>2 DEF Moves
    <3> QED BY <1>1, <3>1
  <2> QED BY <2>1, <2>2
<1>4. TypeOK'
  BY <1>2, <1>3 DEF Tables, TypeOK, Fits, Streams, Answers
<1>5. \A u \in Requests : Placed(u, task'[u], stream'[u], answer'[u])
  BY <1>3
<1>6. \A x \in Targets : Coherent(breakers'[x])
  BY DEF Tables, Sound, Coherent
<1> QED BY <1>4, <1>5, <1>6 DEF Inductive, Placed, Coherent

LEMMA TablesStay ==
  ASSUME Inductive, UNCHANGED <<breakers, catalog>>
  PROVE  Tables'
BY InductiveParts DEF Tables, Sound, Coherent

LEMMA BreakerMoves ==
  ASSUME Inductive, NEW x \in Targets, NEW b, Sound(b),
         breakers' = [breakers EXCEPT ![x] = b], UNCHANGED catalog
  PROVE  Tables'
<1>1. b \in Breaker /\ Tables
  BY InductiveParts DEF Sound
<1>2. breakers' \in [Targets -> Breaker]
  BY <1>1 DEF Tables
<1>3. \A y \in Targets : Sound(breakers'[y])
  BY <1>1 DEF Tables
<1> QED BY <1>1, <1>2, <1>3 DEF Tables, Sound, Coherent

LEMMA CatalogMoves ==
  ASSUME Inductive, NEW x \in Targets, NEW e \in Entry,
         catalog' = [catalog EXCEPT ![x] = e], UNCHANGED breakers
  PROVE  Tables'
BY InductiveParts DEF Tables, Sound, Coherent

\* What is known of a dispatch, in terms of its locals.
LEMMA Now ==
  ASSUME Inductive, NEW r \in Requests
  PROVE  /\ Fits(r, task[r]) /\ Placed(r, task[r], stream[r], answer[r])
         /\ task[r] \in Task /\ stream[r] \in Streams /\ answer[r] \in Answers
         /\ stream = [stream EXCEPT ![r] = stream[r]]
         /\ answer = [answer EXCEPT ![r] = answer[r]]
         /\ breakers \in [Targets -> Breaker] /\ catalog \in [Targets -> Entry]
         /\ \A x \in Targets : Sound(breakers[x])
         /\ task[r].pos <= Len(Chain[r]) => Target(r) \in Targets
<1>1. /\ Fits(r, task[r]) /\ Placed(r, task[r], stream[r], answer[r])
      /\ stream \in [Requests -> Streams] /\ answer \in [Requests -> Answers] /\ Tables
  BY InductiveParts
<1>2. task[r].pos \in Nat \ {0}
  BY <1>1 DEF Fits, Task
<1>3. task[r].pos <= Len(Chain[r]) => Target(r) \in Targets
  BY <1>2, ChainLength DEF Target
<1> QED BY <1>1, <1>3 DEF Fits, Tables

-----------------------------------------------------------------------------
(* Each step moves one dispatch from place to place. *)

Progress(r) == \E t, s, a : Moves(r, t, s, a)

\* A dispatch that goes on has not answered, and its stream stays as it is.
LEMMA GoesOn ==
  ASSUME Inductive, NEW r \in Requests, NEW t, Fits(r, t),
         Placed(r, t, stream[r], answer[r]),
         task' = [task EXCEPT ![r] = t], UNCHANGED <<stream, answer>>
  PROVE  Progress(r)
<1>1. /\ stream[r] \in Streams /\ answer[r] \in Answers
      /\ stream' = [stream EXCEPT ![r] = stream[r]]
      /\ answer' = [answer EXCEPT ![r] = answer[r]]
  BY Now
<1>2. Moves(r, t, stream[r], answer[r])
  BY <1>1 DEF Moves
<1> QED BY <1>2 DEF Progress

LEMMA Returns ==
  ASSUME Inductive, NEW r \in Requests, task[r].pc # "done",
         NEW a \in Answers \ {"none"}, Return(r, a),
         NEW s \in Streams, s # "none" => stream[r] # "none",
         stream' = [stream EXCEPT ![r] = s]
  PROVE  Progress(r)
<1> DEFINE t == Local("done")
<1>1. stream[r] # "none" => r \in Live
  BY Now DEF Placed
<1>2. Len(Chain[r]) \in Nat /\ MaxContinuations \in Nat
  BY ChainLength, DispatchAssumption
<1>3. t \in Task /\ t.pc = "done" /\ t.mode = "chain" /\ t.pos = 1 /\ t.home = 0
      /\ t.claimed = 0 /\ t.tries = 0 /\ ~t.failed
  BY LocalTask DEF Local
<1>4. task' = [task EXCEPT ![r] = t] /\ answer' = [answer EXCEPT ![r] = a]
  BY DEF Return
<1> HIDE DEF t
<1>5. Fits(r, t)
  BY <1>2, <1>3 DEF Fits
<1>6. Placed(r, t, s, a)
  BY <1>1, <1>3 DEF Placed
<1> QED BY <1>4, <1>5, <1>6 DEF Progress, Moves

LEMMA WalkSteps ==
  ASSUME Inductive, NEW r \in Requests,
         SkipUnfit(r) \/ CheckUsable(r) \/ Admit(r) \/ Cancel(r)
  PROVE  Tables' /\ Progress(r)
<1> DEFINE t == task[r]
<1>1. /\ t \in Task /\ Fits(r, t) /\ Placed(r, t, stream[r], answer[r])
      /\ t.pos <= Len(Chain[r]) => Target(r) \in Targets
      /\ \A x \in Targets : Sound(breakers[x]) /\ catalog[x] \in Entry
  BY Now
<1>2. Len(Chain[r]) \in Nat /\ t.pos \in Nat /\ t.tries \in Nat /\ MaxContinuations \in Nat
  BY <1>1, ChainLength, DispatchAssumption DEF Task
<1>3. /\ NextTarget(t) \in Task
      /\ NextTarget(t).pc = "next" /\ NextTarget(t).pos = t.pos + 1
      /\ Same(t, NextTarget(t), {"pc", "pos"})
  BY <1>1, NextTask
<1>4. t.pc \in {"next", "admit"} /\ t.pos <= Len(Chain[r]) =>
        Fits(r, NextTarget(t)) /\ Placed(r, NextTarget(t), stream[r], answer[r])
  <2> HIDE DEF t
  <2> QED BY <1>1, <1>2, <1>3 DEF Fits, Placed, Same
<1>5. CASE SkipUnfit(r)
  <2>1. /\ t.pc = "next" /\ t.pos <= Len(Chain[r])
        /\ task' = [task EXCEPT ![r] = NextTarget(t)] /\ UNCHANGED <<stream, answer>>
    BY <1>5, Now DEF SkipUnfit, AtTarget, More
  <2> QED BY <1>4, <1>5, <2>1, GoesOn, TablesStay DEF SkipUnfit
<1>6. CASE CheckUsable(r)
  <2>1. /\ t.pc = "next" /\ t.pos <= Len(Chain[r]) /\ UNCHANGED <<stream, answer>>
        /\ t.mode # "chain" => t.tries < MaxContinuations
    BY <1>6 DEF CheckUsable, AtTarget, More
  <2>2. Tables'
    BY <1>1, <1>6, <2>1, UsableEntry, CatalogMoves, Now DEF CheckUsable
  <2> DEFINE u == [t EXCEPT !.pc = "admit"]
  <2>3. u \in Task /\ u.pc = "admit" /\ Same(t, u, {"pc"})
    BY <1>1, PlaceTask DEF Places
  <2>4. Fits(r, u) /\ Placed(r, u, stream[r], answer[r])
    <3> HIDE DEF t, u
    <3> QED BY <1>1, <1>2, <2>1, <2>3 DEF Fits, Placed, Same
  <2>5. task' = [task EXCEPT ![r] = u] \/ task' = [task EXCEPT ![r] = NextTarget(t)]
    BY <1>6, Now DEF CheckUsable
  <2> QED BY <1>4, <2>1, <2>2, <2>4, <2>5, GoesOn
<1>7. CASE Admit(r)
  <2>1. t.pc = "admit" /\ t.pos <= Len(Chain[r]) /\ UNCHANGED <<stream, answer>>
    BY <1>1, <1>7 DEF Admit, Placed
  <2>2. Tables'
    BY <1>1, <1>7, <2>1, MethodsSound, BreakerMoves, Now DEF Admit
  <2> DEFINE u == CountedCall(t)
  <2>3. /\ u \in Task /\ u.pc = "send" /\ u.called
        /\ u.tries = IF t.mode = "chain" THEN t.tries ELSE t.tries + 1
        /\ Same(t, u, {"pc", "called", "tries"})
    BY <1>1, CountedTask
  <2>4. Fits(r, u) /\ Placed(r, u, stream[r], answer[r])
    <3> HIDE DEF t, u
    <3> QED BY <1>1, <1>2, <2>1, <2>3 DEF Fits, Placed, Same
  <2>5. task' = [task EXCEPT ![r] = u] \/ task' = [task EXCEPT ![r] = NextTarget(t)]
    BY <1>7, Now DEF Admit
  <2> QED BY <1>4, <2>1, <2>2, <2>4, <2>5, GoesOn
<1>8. CASE Cancel(r)
  <2> DEFINE u == [t EXCEPT !.gone = TRUE]
  <2>1. u \in Task /\ Same(t, u, {"gone"})
    BY <1>1 DEF Task, Same
  <2>2. task' = [task EXCEPT ![r] = u] /\ UNCHANGED <<stream, answer>>
    BY <1>8, Now DEF Cancel
  <2>3. Fits(r, u) /\ Placed(r, u, stream[r], answer[r])
    <3> HIDE DEF t, u
    <3> QED BY <1>1, <2>1 DEF Fits, Placed, Same
  <2> QED BY <1>8, <2>2, <2>3, GoesOn, TablesStay DEF Cancel
<1> QED BY <1>5, <1>6, <1>7, <1>8

\* A target that was sent to is left for the next one: without a stream, or in a
\* continuation.
LEMMA LeavesTarget ==
  ASSUME Inductive, NEW r \in Requests, NEW u,
         /\ \/ u = FailedTarget(task[r])
            \/ u = RememberedClaim(task[r])
            \/ u = [RememberedClaim(task[r]) EXCEPT !.claimant = TRUE]
         /\ task[r].mode = "chain" /\ stream[r] = "none"
         /\ task[r].pc \notin {"next", "admit", "done"}
         /\ u = FailedTarget(task[r]) => (task[r].claimant => task[r].claimed # 0)
  PROVE  Fits(r, u) /\ Placed(r, u, stream[r], answer[r])
<1> DEFINE t == task[r]
<1>1. t \in Task /\ Fits(r, t) /\ Placed(r, t, stream[r], answer[r])
  BY Now
<1>2. Len(Chain[r]) \in Nat /\ t.pos \in Nat \ {0}
  BY <1>1, ChainLength DEF Task
<1>3. /\ u \in Task /\ u.pc = "next" /\ u.pos = t.pos + 1 /\ u.failed
      /\ \/ Same(t, u, {"pc", "pos", "failed"}) /\ u = FailedTarget(t)
         \/ u.claimed = t.pos /\ Same(t, u, {"pc", "pos", "failed", "claimed", "claimant"})
  <2>1. CASE u = FailedTarget(t)
    BY <1>1, <2>1, FailedTask
  <2>2. CASE u = RememberedClaim(t)
    BY <1>1, <2>2, ClaimTask DEF Same
  <2>3. CASE u = [RememberedClaim(t) EXCEPT !.claimant = TRUE]
    <3> DEFINE c == RememberedClaim(t)
    <3>1. /\ c \in Task /\ c.pc = "next" /\ c.pos = t.pos + 1 /\ c.failed /\ c.claimed = t.pos
          /\ Same(t, c, {"pc", "pos", "failed", "claimed"})
      BY <1>1, ClaimTask
    <3>2. u = [c EXCEPT !.claimant = TRUE]
      BY <2>3
    <3> HIDE DEF c
    <3>3. u \in Task /\ Same(c, u, {"claimant"})
      BY <3>1, <3>2, ClaimantTask
    <3>4. u.pc = c.pc /\ u.pos = c.pos /\ u.failed = c.failed /\ u.claimed = c.claimed
      BY <3>3 DEF Same
    <3>5. Same(t, u, {"pc", "pos", "failed", "claimed", "claimant"})
      BY <3>1, <3>3 DEF Same
    <3> QED BY <3>1, <3>3, <3>4, <3>5
  <2> QED BY <2>1, <2>2, <2>3
<1>4. /\ t.called /\ t.mode = "chain" /\ stream[r] = "none" /\ answer[r] = "none"
      /\ t.pos <= Len(Chain[r])
      /\ u = FailedTarget(t) => (t.claimant => t.claimed # 0)
  BY <1>1 DEF Placed
<1> HIDE DEF t
<1>5. Fits(r, u)
  <2>1. u.home = t.home /\ u.tries = t.tries /\ u.claimed \in {t.claimed, t.pos}
    BY <1>3 DEF Same
  <2> QED BY <1>1, <1>2, <1>3, <1>4, <2>1 DEF Fits
<1>6. /\ u.pc = "next" /\ u.mode = "chain" /\ u.failed /\ u.called
      /\ u.claimant => u.claimed # 0
  BY <1>2, <1>3, <1>4 DEF Same
<1>7. Placed(r, u, stream[r], answer[r])
  BY <1>4, <1>6 DEF Placed
<1> QED BY <1>5, <1>7

\* The reports to a breaker.
LEMMA ReportMoves ==
  ASSUME Inductive, UNCHANGED catalog, NEW x \in Targets,
         \/ \E counts \in BOOLEAN : Charge(x, counts)
         \/ breakers' = [breakers EXCEPT ![x] = AfterSuccess(@)]
         \/ breakers' = [breakers EXCEPT ![x] = AfterTrip(@)]
  PROVE  Tables'
<1>1. breakers \in [Targets -> Breaker] /\ Sound(breakers[x]) /\ breakers[x] \in Breaker
  BY InductiveParts DEF Tables
<1>2. /\ Sound(AfterFailure(breakers[x])) /\ Sound(AfterSuccess(breakers[x]))
      /\ Sound(AfterTrip(breakers[x]))
  BY <1>1, MethodsSound
<1>3. CASE \E counts \in BOOLEAN : Charge(x, counts)
  <2>1. PICK counts \in BOOLEAN :
          breakers' = [breakers EXCEPT ![x] = Charged(breakers[x], counts)]
    BY <1>1, <1>3 DEF Charge
  <2>2. Sound(Charged(breakers[x], counts))
    BY <1>1, <1>2 DEF Charged
  <2> QED BY <2>1, <2>2, BreakerMoves
<1>4. CASE breakers' = [breakers EXCEPT ![x] = AfterSuccess(@)]
  BY <1>1, <1>2, <1>4, BreakerMoves
<1>5. CASE breakers' = [breakers EXCEPT ![x] = AfterTrip(@)]
  BY <1>1, <1>2, <1>5, BreakerMoves
<1> QED BY <1>3, <1>4, <1>5

\* What the errors mean for the breaker is a yes or a no.
LEMMA CountsAreBoolean ==
  /\ \A e : isCircuitBreakerError(e) \in BOOLEAN
  /\ \A r \in Requests : \A e : ContinuationCounts(r, e) \in BOOLEAN
BY DEF isCircuitBreakerError, ContinuationCounts

\* The places from which an error is dealt with.
LEMMA RaisedWhere ==
  ASSUME NEW r \in Requests, NEW e \in Raised(r)
  PROVE  \/ task[r].pc = "send" /\ task[r].mode = "chain"
         \/ task[r].pc \in ModelGone
BY DEF Raised, Sending

LEMMA AttemptSteps ==
  ASSUME Inductive, NEW r \in Requests,
         \/ Commit(r) \/ Succeed(r) \/ Claim(r) \/ Declined(r) \/ Continue(r)
         \/ MarkInactive(r) \/ FailOver(r) \/ TripNow(r) \/ ContinuationFailed(r)
  PROVE  Tables' /\ Progress(r)
<1> DEFINE t == task[r]
<1>1. /\ t \in Task /\ Fits(r, t) /\ Placed(r, t, stream[r], answer[r])
      /\ stream[r] \in Streams /\ answer[r] \in Answers
      /\ t.pos <= Len(Chain[r]) => Target(r) \in Targets
  BY Now
<1>2. Len(Chain[r]) \in Nat /\ t.pos \in Nat \ {0} /\ t.tries \in Nat
  BY <1>1, ChainLength DEF Task
<1>3. t.pc \notin {"next", "done"} => Target(r) \in Targets
  BY <1>1 DEF Placed
<1>4. CASE Commit(r)
  <2>1. /\ t.pc = "send" /\ t.mode = "chain" /\ r \in Live
        /\ stream' = [stream EXCEPT ![r] = "open"] /\ UNCHANGED <<task, answer>>
    BY <1>4 DEF Commit, Sending
  <2>2. Placed(r, t, "open", answer[r])
    <3> HIDE DEF t
    <3> QED BY <1>1, <2>1 DEF Placed
  <2>3. task' = [task EXCEPT ![r] = t] /\ answer' = [answer EXCEPT ![r] = answer[r]]
    BY <2>1, InductiveParts
  <2>4. Moves(r, t, "open", answer[r])
    BY <1>1, <2>1, <2>2, <2>3 DEF Moves, Streams
  <2> QED BY <1>4, <2>4, TablesStay DEF Commit, Progress
<1>5. CASE Succeed(r)
  <2> DEFINE u == [t EXCEPT !.pc = "revive"]
  <2>1. t.pc \in {"send", "remind"} /\ t.mode = "chain"
    BY <1>1, <1>5 DEF Succeed, Sending, Placed
  <2>2. task' = [task EXCEPT ![r] = u] /\ UNCHANGED <<stream, answer>>
    BY <1>5, Now DEF Succeed
  <2>3. u \in Task /\ u.pc = "revive" /\ Same(t, u, {"pc"})
    BY <1>1, PlaceTask DEF Places
  <2>4. Fits(r, u) /\ Placed(r, u, stream[r], answer[r])
    <3> HIDE DEF t, u
    <3> QED BY <1>1, <2>1, <2>3 DEF Fits, Placed, Same
  <2>5. Tables'
    BY <1>3, <1>5, <2>1, ReportMoves DEF Succeed
  <2> QED BY <2>2, <2>4, <2>5, GoesOn
<1>6. CASE Claim(r)
  <2> DEFINE u == [t EXCEPT !.pc = "remind", !.claimant = TRUE]
             c == [RememberedClaim(t) EXCEPT !.claimant = TRUE]
  <2>1. /\ t.pc = "send" /\ t.mode = "chain" /\ stream[r] # "open"
        /\ UNCHANGED <<stream, answer>>
    BY <1>6 DEF Claim, Sending, Committed
  <2>2. stream[r] = "none"
    BY <1>1, <2>1 DEF Placed
  <2>3. task' = [task EXCEPT ![r] = u] \/ task' = [task EXCEPT ![r] = c]
    BY <1>6, Now DEF Claim
  <2>4. u \in Task /\ u.pc = "remind" /\ Same(t, u, {"pc", "claimant"})
    <3> DEFINE v == [t EXCEPT !.pc = "remind"]
    <3>1. v \in Task /\ u = [v EXCEPT !.claimant = TRUE]
      BY <1>1, PlaceTask DEF Places
    <3>2. u.pc = "remind" /\ Same(t, u, {"pc", "claimant"})
      BY <1>1 DEF Task, Same
    <3> HIDE DEF u, v
    <3> QED BY <3>1, <3>2, ClaimantTask
  <2>5. Fits(r, u) /\ Placed(r, u, stream[r], answer[r])
    <3> HIDE DEF t, u
    <3> QED BY <1>1, <2>1, <2>2, <2>4 DEF Fits, Placed, Same
  <2>6. Fits(r, c) /\ Placed(r, c, stream[r], answer[r])
    <3>1. c = FailedTarget(t) => (t.claimant => t.claimed # 0)
      BY <1>1, <2>1 DEF Placed
    <3> QED BY <2>1, <2>2, <3>1, LeavesTarget
  <2> QED BY <1>6, <2>1, <2>3, <2>5, <2>6, GoesOn, TablesStay DEF Claim
<1>7. CASE Declined(r)
  <2> DEFINE c == RememberedClaim(t)
  <2>1. /\ t.pc = "remind" /\ t.mode = "chain" /\ stream[r] = "none"
        /\ task' = [task EXCEPT ![r] = c] /\ UNCHANGED <<stream, answer>>
    BY <1>1, <1>7, Now DEF Declined, Placed
  <2>2. c.claimed = t.pos /\ FailedTarget(t).claimed = t.claimed
    BY <1>1, ClaimTask, FailedTask DEF Same
  <2>3. Fits(r, c) /\ Placed(r, c, stream[r], answer[r])
    BY <1>2, <2>1, <2>2, LeavesTarget
  <2> QED BY <1>7, <2>1, <2>3, GoesOn, TablesStay DEF Declined
<1>8. CASE Continue(r)
  <2>1. PICK mode \in {"stall", "verify"} :
          task' = [task EXCEPT ![r] = ContinuedTurn(t, mode)]
    BY <1>8, Now DEF Continue
  <2> DEFINE u == ContinuedTurn(t, mode)
  <2>2. /\ t.pc = "send" /\ t.mode = "chain" /\ stream[r] = "open"
        /\ UNCHANGED <<stream, answer>>
    BY <1>8 DEF Continue, Sending, Committed
  <2>3. /\ u \in Task /\ u.pc = "next" /\ u.mode = mode /\ u.home = t.pos
        /\ Same(t, u, {"pc", "mode", "home"})
    BY <1>1, <1>2, ContinuedTask
  <2>4. Fits(r, u) /\ Placed(r, u, stream[r], answer[r])
    <3> HIDE DEF t, u
    <3> QED BY <1>1, <1>2, <2>2, <2>3 DEF Fits, Placed, Same
  <2> QED BY <1>8, <2>1, <2>2, <2>4, GoesOn, TablesStay DEF Continue
<1>9. CASE MarkInactive(r)
  <2>1. PICK e \in ModelGone : task' = [task EXCEPT ![r] = [t EXCEPT !.pc = e]]
    BY <1>9, Now DEF MarkInactive
  <2> DEFINE u == [t EXCEPT !.pc = e]
  <2>2. t.pc = "send" /\ t.mode = "chain" /\ UNCHANGED <<stream, answer>>
    BY <1>9 DEF MarkInactive, Sending
  <2>3. u \in Task /\ u.pc = e /\ Same(t, u, {"pc"})
    BY <1>1, PlaceTask DEF Places
  <2>4. Fits(r, u) /\ Placed(r, u, stream[r], answer[r])
    <3> HIDE DEF t, u
    <3> QED BY <1>1, <2>2, <2>3 DEF Fits, Placed, Same, ModelGone
  <2>5. Tables'
    BY <1>3, <1>9, <2>2, CatalogMoves, VerdictsAreEntries DEF MarkInactive
  <2> QED BY <2>1, <2>2, <2>4, <2>5, GoesOn
<1>10. CASE FailOver(r)
  <2>1. PICK e \in Raised(r) :
          /\ Charge(Target(r), isCircuitBreakerError(e))
          /\ \/ task' = [task EXCEPT ![r] = [t EXCEPT !.pc = "quota"]]
             \/ task' = [task EXCEPT ![r] = FailedTarget(t)]
    BY <1>10, Now DEF FailOver
  <2> DEFINE u == [t EXCEPT !.pc = "quota"]
             f == FailedTarget(t)
  <2>2. /\ t.pc \in {"send"} \cup ModelGone /\ t.mode = "chain" /\ stream[r] = "none"
        /\ UNCHANGED <<stream, answer, catalog>>
    BY <1>1, <1>10, <2>1, RaisedWhere DEF FailOver, Committed, Placed, ModelGone
  <2>3. u \in Task /\ u.pc = "quota" /\ Same(t, u, {"pc"})
    BY <1>1, PlaceTask DEF Places
  <2>4. Fits(r, u) /\ Placed(r, u, stream[r], answer[r])
    <3> HIDE DEF t, u
    <3> QED BY <1>1, <2>2, <2>3 DEF Fits, Placed, Same, ModelGone
  <2>5. Fits(r, f) /\ Placed(r, f, stream[r], answer[r])
    <3>1. t.claimant => t.claimed # 0
      BY <1>1, <2>2 DEF Placed, ModelGone
    <3> QED BY <2>2, <3>1, LeavesTarget DEF ModelGone
  <2>6. Tables'
    BY <1>3, <2>1, <2>2, ReportMoves, CountsAreBoolean DEF ModelGone
  <2> QED BY <2>1, <2>2, <2>4, <2>5, <2>6, GoesOn
<1>11. CASE TripNow(r)
  <2> DEFINE f == FailedTarget(t)
  <2>1. /\ t.pc = "quota" /\ t.mode = "chain" /\ stream[r] = "none"
        /\ task' = [task EXCEPT ![r] = f] /\ UNCHANGED <<stream, answer, catalog>>
    BY <1>1, <1>11, Now DEF TripNow, Placed
  <2>2. Fits(r, f) /\ Placed(r, f, stream[r], answer[r])
    <3>1. t.claimant => t.claimed # 0
      BY <1>1, <2>1 DEF Placed
    <3> QED BY <2>1, <3>1, LeavesTarget
  <2>3. Tables'
    BY <1>3, <1>11, <2>1, ReportMoves DEF TripNow
  <2> QED BY <2>1, <2>2, <2>3, GoesOn
<1>12. CASE ContinuationFailed(r)
  <2> DEFINE n == NextTarget(t)
  <2>1. PICK counts \in BOOLEAN : Charge(Target(r), counts)
    BY <1>12, CountsAreBoolean DEF ContinuationFailed
  <2>2. /\ t.pc = "send" /\ t.mode # "chain"
        /\ task' = [task EXCEPT ![r] = n] /\ UNCHANGED <<stream, answer, catalog>>
    BY <1>12, Now DEF ContinuationFailed, Continuing
  <2>3. n \in Task /\ n.pc = "next" /\ n.pos = t.pos + 1 /\ Same(t, n, {"pc", "pos"})
    BY <1>1, NextTask
  <2>4. Fits(r, n) /\ Placed(r, n, stream[r], answer[r])
    <3> HIDE DEF t, n
    <3> QED BY <1>1, <1>2, <2>2, <2>3 DEF Fits, Placed, Same
  <2>5. Tables'
    BY <1>3, <2>1, <2>2, ReportMoves
  <2> QED BY <2>2, <2>4, <2>5, GoesOn
<1> QED BY <1>4, <1>5, <1>6, <1>7, <1>8, <1>9, <1>10, <1>11, <1>12

LEMMA ReturnSteps ==
  ASSUME Inductive, NEW r \in Requests,
         \/ StopCanceled(r) \/ Canceled(r) \/ Revive(r) \/ CutShort(r) \/ BreakOff(r)
         \/ Continued(r) \/ GiveUp(r) \/ Exhausted(r)
  PROVE  Tables' /\ Progress(r)
<1> DEFINE t == task[r]
<1>1. /\ t \in Task /\ Fits(r, t) /\ Placed(r, t, stream[r], answer[r])
      /\ stream[r] \in Streams
      /\ stream = [stream EXCEPT ![r] = stream[r]]
      /\ t.pos <= Len(Chain[r]) => Target(r) \in Targets
  BY Now
<1>2. t.pc \notin {"next", "done"} => Target(r) \in Targets
  BY <1>1 DEF Placed
<1>3. CASE StopCanceled(r)
  <2>1. /\ t.pc # "done" /\ Return(r, "canceled")
        /\ UNCHANGED <<breakers, catalog>> /\ stream' = [stream EXCEPT ![r] = stream[r]]
    BY <1>1, <1>3 DEF StopCanceled
  <2> QED BY <1>1, <2>1, Returns, TablesStay DEF Answers
<1>4. ASSUME NEW how \in {"finished", "failed"}, EndsStream(r, how)
      PROVE  \E s \in Streams :
               (s # "none" => stream[r] # "none") /\ stream' = [stream EXCEPT ![r] = s]
  <2>1. (stream' = [stream EXCEPT ![r] = how] /\ stream[r] = "open") \/ stream' = stream
    BY <1>1, <1>4 DEF EndsStream, Committed
  <2> QED BY <1>1, <2>1 DEF Streams
<1>5. CASE Canceled(r)
  <2>1. /\ t.pc # "done" /\ Return(r, "canceled") /\ EndsStream(r, "failed")
        /\ UNCHANGED <<breakers, catalog>>
    BY <1>5 DEF Canceled, Sending
  <2> QED BY <1>4, <2>1, Returns, TablesStay DEF Answers
<1>6. CASE Revive(r)
  <2>1. /\ t.pc = "revive" /\ Return(r, "whole") /\ EndsStream(r, "finished")
        /\ catalog' = [catalog EXCEPT ![Target(r)] = Healthy] /\ UNCHANGED breakers
    BY <1>6 DEF Revive
  <2>2. Tables'
    BY <1>2, <2>1, CatalogMoves, VerdictsAreEntries
  <2> QED BY <1>4, <2>1, <2>2, Returns DEF Answers
<1>7. ASSUME NEW x \in Targets, NEW counts \in BOOLEAN, NEW how \in {"finished", "failed"},
             NEW a \in {"cut", "broken"}, EndCharged(r, x, counts, how, a),
             t.pc # "done", stream[r] = "open"
      PROVE  Tables' /\ Progress(r)
  <2>1. /\ Charge(x, counts) /\ stream' = [stream EXCEPT ![r] = how]
        /\ Return(r, a) /\ UNCHANGED catalog
    BY <1>7 DEF EndCharged
  <2>2. Tables'
    BY <2>1, ReportMoves
  <2> QED BY <1>7, <2>1, <2>2, Returns DEF Answers, Streams
<1>8. CASE CutShort(r)
  <2>1. t.pc \in {"send"} \cup ModelGone /\ stream[r] = "open"
    BY <1>8, RaisedWhere DEF CutShort, Committed
  <2> QED BY <1>2, <1>7, <1>8, <2>1 DEF CutShort, ModelGone
<1>9. CASE BreakOff(r)
  <2>1. PICK e \in Raised(r) :
          EndCharged(r, Target(r), isCircuitBreakerError(e), "failed", "broken")
    BY <1>9 DEF BreakOff
  <2>2. t.pc \in {"send"} \cup ModelGone /\ stream[r] = "open"
    BY <1>9, <2>1, RaisedWhere DEF BreakOff, Committed
  <2> QED BY <1>2, <1>7, <2>1, <2>2, CountsAreBoolean DEF ModelGone
<1>10. CASE Continued(r)
  <2>1. /\ t.pc = "send" /\ t.mode # "chain" /\ Return(r, "whole")
        /\ breakers' = [breakers EXCEPT ![Target(r)] = AfterSuccess(@)]
        /\ stream' = [stream EXCEPT ![r] = "finished"] /\ UNCHANGED catalog
    BY <1>10 DEF Continued, Continuing
  <2>2. stream[r] = "open"
    BY <1>1, <2>1 DEF Placed
  <2>3. Tables'
    BY <1>2, <2>1, ReportMoves
  <2> QED BY <2>1, <2>2, <2>3, Returns DEF Answers, Streams
<1>11. CASE GiveUp(r)
  <2>1. t.pc = "next" /\ t.mode # "chain"
    BY <1>11 DEF GiveUp
  <2>2. stream[r] = "open" /\ t.home # 0
    BY <1>1, <2>1 DEF Placed
  <2>3. Chain[r][t.home] \in Targets
    BY <1>1, <2>2, ChainLength DEF Fits, Task
  <2>4. \/ /\ stream' = [stream EXCEPT ![r] = "finished"]
           /\ Return(r, "unverified") /\ UNCHANGED <<breakers, catalog>>
        \/ EndCharged(r, Chain[r][t.home], isCircuitBreakerError("stall"), "failed", "broken")
    BY <1>11 DEF GiveUp
  <2>5. CASE /\ stream' = [stream EXCEPT ![r] = "finished"]
             /\ Return(r, "unverified") /\ UNCHANGED <<breakers, catalog>>
    BY <2>1, <2>2, <2>5, Returns, TablesStay DEF Answers, Streams
  <2>6. CASE EndCharged(r, Chain[r][t.home], isCircuitBreakerError("stall"), "failed", "broken")
    BY <1>7, <2>1, <2>2, <2>3, <2>6, CountsAreBoolean
  <2> QED BY <2>4, <2>5, <2>6
<1>12. CASE Exhausted(r)
  <2> DEFINE a == IF t.claimed # 0 THEN "unverified"
                  ELSE IF t.failed THEN "exhausted" ELSE "skipped"
  <2>1. /\ t.pc # "done" /\ Return(r, a) /\ UNCHANGED <<breakers, catalog>>
        /\ stream' = [stream EXCEPT ![r] = stream[r]]
    BY <1>1, <1>12 DEF Exhausted
  <2>2. a \in Answers \ {"none"}
    BY DEF Answers
  <2> HIDE DEF a
  <2> QED BY <1>1, <2>1, <2>2, Returns, TablesStay
<1> QED BY <1>3, <1>5, <1>6, <1>8, <1>9, <1>10, <1>11, <1>12

LEMMA TickKeeps ==
  ASSUME Inductive, Tick
  PROVE  Inductive'
<1>1. /\ breakers \in [Targets -> Breaker] /\ \A x \in Targets : Sound(breakers[x])
      /\ catalog \in [Targets -> Entry]
  BY InductiveParts DEF Tables
<1>2. \A x \in Targets : breakers'[x] \in Breaker /\ Coherent(breakers'[x])
  <2>1. \A x \in Targets : breakers'[x] = AfterTick(breakers[x]) \/ breakers'[x] = breakers[x]
    BY DEF Tick
  <2> QED BY <1>1, <2>1, MethodsSound DEF Sound
<1>3. breakers' \in [Targets -> Breaker]
  <2>1. breakers' = [x \in Targets |->
          IF breakers[x].state = "OPEN" THEN AfterTick(breakers[x]) ELSE breakers[x]]
    BY DEF Tick
  <2> QED BY <1>1, <2>1, MethodsSound DEF Sound
<1>4. catalog' \in [Targets -> Entry]
  BY <1>1, WaitEntry DEF Tick
<1>5. UNCHANGED <<task, stream, answer>>
  BY DEF Tick
<1> QED BY <1>2, <1>3, <1>4, <1>5 DEF Inductive, TypeOK, Placed, Coherent

LEMMA InitInductive == Init => Inductive
<1> SUFFICES ASSUME Init PROVE Inductive
  OBVIOUS
<1>1. breakers \in [Targets -> {NewCircuitBreaker, AfterTrip(NewCircuitBreaker)}]
  BY DEF Init
<1>2. Sound(NewCircuitBreaker) /\ Sound(AfterTrip(NewCircuitBreaker))
  BY NewSound, MethodsSound DEF Sound
<1>3. Tables
  <2>1. catalog \in [Targets -> {Healthy, Gone}]
    BY DEF Init
  <2> QED BY <1>1, <1>2, <2>1, VerdictsAreEntries DEF Tables, Sound
<1>4. ASSUME NEW r \in Requests
      PROVE  Fits(r, task[r]) /\ Placed(r, task[r], stream[r], answer[r])
  <2>1. task[r] = Local("next") /\ stream[r] = "none" /\ answer[r] = "none"
    BY DEF Init
  <2>2. Len(Chain[r]) \in Nat /\ MaxContinuations \in Nat
    BY ChainLength, DispatchAssumption
  <2>3. Fits(r, task[r])
    BY <2>1, <2>2, LocalTask DEF Fits, Local
  <2>4. Placed(r, task[r], stream[r], answer[r])
    BY <2>1 DEF Placed, Local
  <2> QED BY <2>3, <2>4
<1>5. /\ task \in [Requests -> Task]
      /\ stream \in [Requests -> Streams] /\ answer \in [Requests -> Answers]
  BY LocalTask DEF Init, Streams, Answers
<1> QED BY <1>3, <1>4, <1>5, InductiveParts

LEMMA StepInductive == Inductive /\ [Next]_vars => Inductive'
<1> SUFFICES ASSUME Inductive, [Next]_vars PROVE Inductive'
  OBVIOUS
<1>1. ASSUME NEW r \in Requests, Step(r) \/ Cancel(r) PROVE Inductive'
  <2>1. Tables' /\ Progress(r)
    BY <1>1, WalkSteps, AttemptSteps, ReturnSteps DEF Step
  <2> QED BY <2>1, MoveKeeps DEF Progress
<1>2. CASE UNCHANGED vars
  BY <1>2 DEF vars, Inductive, TypeOK, Placed, Coherent
<1> QED BY <1>1, <1>2, TickKeeps DEF Next

LEMMA AlwaysInductive == Spec => []Inductive
BY InitInductive, StepInductive, PTL DEF Spec

-----------------------------------------------------------------------------
(* What a step shows the client. *)

\* DispatchChat returns a, which is what the stream, if there is one, ends with.
EndsWith(r, a) ==
  /\ answer[r] = "none" /\ answer' = [answer EXCEPT ![r] = a]
  /\ \/ stream[r] = "none" /\ UNCHANGED stream
     \/ /\ stream[r] = "open" /\ stream' = [stream EXCEPT ![r] = "finished"]
        /\ a \in {"whole", "unverified", "cut"}
     \/ /\ stream[r] = "open" /\ stream' = [stream EXCEPT ![r] = "failed"]
        /\ a \in {"canceled", "broken"}

\* The answers of a chain that nothing was streamed of, and of a stream.
LEMMA HowItEnds ==
  ASSUME Inductive, NEW r \in Requests,
         \/ StopCanceled(r) \/ Canceled(r) \/ Revive(r) \/ CutShort(r) \/ BreakOff(r)
         \/ Continued(r) \/ GiveUp(r) \/ Exhausted(r)
  PROVE  \E a \in {"whole", "unverified", "cut", "canceled", "broken", "exhausted", "skipped"} :
           /\ EndsWith(r, a)
           /\ a \in {"cut", "broken"} => stream[r] = "open"
           /\ a = "canceled" => task[r].gone
           /\ a = "skipped" => ~task[r].called /\ ~task[r].claimant
           /\ a = "exhausted" => task[r].called /\ ~task[r].claimant
<1> DEFINE t == task[r]
<1>1. /\ Placed(r, t, stream[r], answer[r]) /\ answer[r] \in Answers
      /\ stream = [stream EXCEPT ![r] = stream[r]]
      /\ t.claimed \in Nat /\ t.failed \in BOOLEAN /\ t.called \in BOOLEAN
      /\ t.claimant \in BOOLEAN
  BY Now DEF Task
<1>2. t.pc # "done" => answer[r] = "none" /\ stream[r] \in {"none", "open"}
  BY <1>1 DEF Placed
<1>3. ASSUME NEW how \in {"finished", "failed"}, EndsStream(r, how), stream[r] \in {"none", "open"}
      PROVE  \/ stream[r] = "none" /\ UNCHANGED stream
             \/ stream[r] = "open" /\ stream' = [stream EXCEPT ![r] = how]
  BY <1>1, <1>3 DEF EndsStream, Committed
<1>4. CASE StopCanceled(r)
  <2>1. /\ t.pc = "next" /\ t.mode = "chain" /\ t.gone
        /\ answer' = [answer EXCEPT ![r] = "canceled"] /\ UNCHANGED stream
    BY <1>4 DEF StopCanceled, Return
  <2>2. stream[r] = "none"
    BY <1>1, <2>1 DEF Placed
  <2> QED BY <1>2, <2>1, <2>2 DEF EndsWith
<1>5. CASE Canceled(r)
  <2>1. /\ t.pc = "send" /\ t.gone /\ answer' = [answer EXCEPT ![r] = "canceled"]
        /\ EndsStream(r, "failed")
    BY <1>5 DEF Canceled, Sending, Return
  <2> QED BY <1>2, <1>3, <2>1 DEF EndsWith
<1>6. CASE Revive(r)
  <2>1. /\ t.pc = "revive" /\ answer' = [answer EXCEPT ![r] = "whole"]
        /\ EndsStream(r, "finished")
    BY <1>6 DEF Revive, Return
  <2> QED BY <1>2, <1>3, <2>1 DEF EndsWith
<1>7. CASE CutShort(r)
  <2>1. /\ t.pc \in {"send"} \cup ModelGone /\ stream[r] = "open"
        /\ answer' = [answer EXCEPT ![r] = "cut"]
        /\ stream' = [stream EXCEPT ![r] = "finished"]
    BY <1>7, RaisedWhere DEF CutShort, EndCharged, Committed, Return
  <2> QED BY <1>2, <2>1 DEF EndsWith, ModelGone
<1>8. CASE BreakOff(r)
  <2>1. /\ t.pc \in {"send"} \cup ModelGone /\ stream[r] = "open"
        /\ answer' = [answer EXCEPT ![r] = "broken"]
        /\ stream' = [stream EXCEPT ![r] = "failed"]
    BY <1>8, RaisedWhere DEF BreakOff, EndCharged, Committed, Return
  <2> QED BY <1>2, <2>1 DEF EndsWith, ModelGone
<1>9. CASE Continued(r)
  <2>1. /\ t.pc = "send" /\ t.mode # "chain" /\ answer' = [answer EXCEPT ![r] = "whole"]
        /\ stream' = [stream EXCEPT ![r] = "finished"]
    BY <1>9 DEF Continued, Continuing, Return
  <2>2. stream[r] = "open"
    BY <1>1, <2>1 DEF Placed
  <2> QED BY <1>2, <2>1, <2>2 DEF EndsWith
<1>10. CASE GiveUp(r)
  <2>1. /\ t.pc = "next" /\ t.mode # "chain"
        /\ \/ /\ stream' = [stream EXCEPT ![r] = "finished"]
              /\ answer' = [answer EXCEPT ![r] = "unverified"]
           \/ /\ stream' = [stream EXCEPT ![r] = "failed"]
              /\ answer' = [answer EXCEPT ![r] = "broken"]
    BY <1>10 DEF GiveUp, EndCharged, Return
  <2>2. stream[r] = "open"
    BY <1>1, <2>1 DEF Placed
  <2> QED BY <1>2, <2>1, <2>2 DEF EndsWith
<1>11. CASE Exhausted(r)
  <2> DEFINE a == IF t.claimed # 0 THEN "unverified"
                  ELSE IF t.failed THEN "exhausted" ELSE "skipped"
  <2>1. /\ t.pc = "next" /\ t.mode = "chain" /\ answer' = [answer EXCEPT ![r] = a]
        /\ UNCHANGED stream
    BY <1>11 DEF Exhausted, Return
  <2>2. /\ stream[r] = "none" /\ (t.called => t.failed) /\ (t.failed => t.called)
        /\ t.claimant => t.claimed # 0
    BY <1>1, <2>1 DEF Placed
  <2>3. EndsWith(r, a)
    BY <1>2, <2>1, <2>2 DEF EndsWith
  <2> QED BY <1>1, <2>2, <2>3
<1> QED BY <1>4, <1>5, <1>6, <1>7, <1>8, <1>9, <1>10, <1>11

\* A step that returns no answer says nothing to the client, but for the commit.
LEMMA WhatIsSaid ==
  ASSUME Inductive, [Next]_vars
  PROVE  \/ UNCHANGED <<stream, answer>>
         \/ \E r \in Requests :
              /\ r \in Live /\ stream[r] = "none" /\ answer[r] = "none"
              /\ stream' = [stream EXCEPT ![r] = "open"] /\ UNCHANGED answer
         \/ \E r \in Requests :
              \E a \in {"whole", "unverified", "cut", "canceled", "broken", "exhausted",
                        "skipped"} :
                /\ EndsWith(r, a)
                /\ a \in {"cut", "broken"} => stream[r] = "open"
                /\ a = "canceled" => task[r].gone
                /\ a = "skipped" => ~task[r].called /\ ~task[r].claimant
                /\ a = "exhausted" => task[r].called /\ ~task[r].claimant
<1>1. CASE UNCHANGED vars \/ Tick
  BY <1>1 DEF vars, Tick
<1>2. ASSUME NEW r \in Requests, Commit(r)
      PROVE  /\ r \in Live /\ stream[r] = "none" /\ answer[r] = "none"
             /\ stream' = [stream EXCEPT ![r] = "open"] /\ UNCHANGED answer
  BY <1>2, Now DEF Commit, Sending, Committed, Placed
<1>3. ASSUME NEW r \in Requests,
             \/ SkipUnfit(r) \/ CheckUsable(r) \/ Admit(r) \/ Cancel(r)
             \/ Succeed(r) \/ Claim(r) \/ Declined(r) \/ Continue(r)
             \/ MarkInactive(r) \/ FailOver(r) \/ TripNow(r) \/ ContinuationFailed(r)
      PROVE  UNCHANGED <<stream, answer>>
  BY <1>3 DEF SkipUnfit, CheckUsable, Admit, Cancel, Succeed, Claim, Declined, Continue,
              MarkInactive, FailOver, TripNow, ContinuationFailed
<1>4. ASSUME NEW r \in Requests, Step(r) \/ Cancel(r)
      PROVE  \/ Commit(r)
             \/ UNCHANGED <<stream, answer>>
             \/ \/ StopCanceled(r) \/ Canceled(r) \/ Revive(r) \/ CutShort(r) \/ BreakOff(r)
                \/ Continued(r) \/ GiveUp(r) \/ Exhausted(r)
  BY <1>3, <1>4 DEF Step
<1> QED BY <1>1, <1>2, <1>4, HowItEnds DEF Next

-----------------------------------------------------------------------------
\* Breakers, catalog entries and the locals of every dispatch keep their types.
THEOREM TypeCorrect == Spec => []TypeOK
<1>1. Inductive => TypeOK
  BY DEF Inductive
<1> QED BY <1>1, AlwaysInductive, PTL

\* DispatchChat implements the safety part of its contract with the client: a stream
\* starts once, ends once, as what is returned says, and nothing is answered twice.
THEOREM ImplementsContract == Spec => Contract!Safety
<1>1. Init => Contract!Init
  BY DEF Init, Contract!Init
<1>2. Inductive /\ [Next]_vars => [Contract!Next]_(Contract!contractVars)
  <2> SUFFICES ASSUME Inductive, [Next]_vars
               PROVE  Contract!Next \/ UNCHANGED <<stream, answer>>
    BY DEF Contract!contractVars
  <2>1. ASSUME NEW r \in Requests, NEW a \in Answers, EndsWith(r, a), a # "none",
               a \in {"cut", "broken"} => stream[r] = "open"
        PROVE  Contract!EndStream(r) \/ Contract!Answer(r)
    BY <2>1 DEF EndsWith, Answers, Contract!EndStream, Contract!Answer, Contract!Direct,
                Contract!Finished, Contract!Failed
  <2>2. ASSUME NEW r \in Live, stream[r] = "none", answer[r] = "none",
               stream' = [stream EXCEPT ![r] = "open"], UNCHANGED answer
        PROVE  Contract!Begin(r)
    BY <2>2 DEF Contract!Begin
  <2> QED BY <2>1, <2>2, WhatIsSaid DEF Contract!Next, Answers
<1> QED BY <1>1, <1>2, AlwaysInductive, PTL DEF Spec, Contract!Safety

\* A claim that no target verified still reaches the client, unless he has left.
THEOREM ClaimsDelivered == Spec => ClaimDelivered
<1>1. Inductive /\ [Next]_vars =>
        [\A r \in Requests :
           task[r].claimant /\ answer'[r] # answer[r] =>
             answer'[r] \in {"whole", "unverified", "cut", "broken"} \/ task[r].gone]_vars
  <2> SUFFICES ASSUME Inductive, [Next]_vars, NEW r \in Requests,
                      task[r].claimant, answer'[r] # answer[r]
               PROVE  answer'[r] \in {"whole", "unverified", "cut", "broken"} \/ task[r].gone
    OBVIOUS
  <2>1. answer \in [Requests -> Answers]
    BY InductiveParts
  <2> QED BY <2>1, WhatIsSaid DEF EndsWith
<1> QED BY <1>1, AlwaysInductive, PTL DEF Spec, ClaimDelivered

\* An error that says every target was skipped is told from one that says they failed.
THEOREM SkippedTold == Spec => SkippedMeansUncalled
<1>1. Inductive /\ [Next]_vars =>
        [\A r \in Requests :
           /\ answer'[r] = "skipped" /\ answer[r] = "none" => ~task[r].called
           /\ answer'[r] = "exhausted" /\ answer[r] = "none" => task[r].called]_vars
  <2> SUFFICES ASSUME Inductive, [Next]_vars, NEW r \in Requests, answer[r] = "none"
               PROVE  /\ answer'[r] = "skipped" => ~task[r].called
                      /\ answer'[r] = "exhausted" => task[r].called
    OBVIOUS
  <2>1. answer \in [Requests -> Answers]
    BY InductiveParts
  <2> QED BY <2>1, WhatIsSaid DEF EndsWith
<1> QED BY <1>1, AlwaysInductive, PTL DEF Spec, SkippedMeansUncalled
=============================================================================
