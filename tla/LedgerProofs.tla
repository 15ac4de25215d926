---------------------------- MODULE LedgerProofs ----------------------------
(***************************************************************************)
(* The accounts of the ledger hold for any number of requests and keys, any *)
(* costs, caps, queue, batch and calendar, over any number of days.        *)
(***************************************************************************)
EXTENDS Ledger, TLAPS, FiniteSetTheorems, SequenceTheorems

-----------------------------------------------------------------------------
(* Sums and periods. *)

LEMMA TotalOfNone == Total({}) = 0
<1>1. Units({}) = {}
  BY DEF Units
<1> QED BY <1>1, FS_EmptySet DEF Total

LEMMA UnitsOfOne ==
  ASSUME NEW r \in Requests
  PROVE  /\ IsFiniteSet({r} \X (1 .. Cost[r]))
         /\ Cardinality({r} \X (1 .. Cost[r])) = Cost[r]
<1>0. Cost \in [Requests -> Nat \ {0}]
  BY LedgerAssumption
<1>1. Cost[r] \in Nat \ {0}
  BY <1>0
<1>2. IsFiniteSet(1 .. Cost[r]) /\ Cardinality(1 .. Cost[r]) = Cost[r]
  <2> DEFINE n == Cost[r]
  <2>1. n \in Int /\ 1 \in Int /\ ~(1 > n) /\ n - 1 + 1 = n
    BY <1>1
  <2> HIDE DEF n
  <2> QED BY <2>1, FS_Interval DEF n
<1>3. IsFiniteSet({r}) /\ Cardinality({r}) = 1
  BY FS_Singleton
<1> DEFINE this == {r}
           units == 1 .. Cost[r]
<1> HIDE DEF this, units
<1>4. /\ IsFiniteSet(this \X units)
      /\ Cardinality(this \X units) = Cardinality(this) * Cardinality(units)
  BY <1>2, <1>3, FS_Product DEF this, units
<1>5. Cardinality(this) * Cardinality(units) = Cost[r]
  BY <1>1, <1>2, <1>3 DEF this, units
<1> QED BY <1>4, <1>5 DEF this, units

LEMMA UnitsOfMore ==
  ASSUME NEW S \in SUBSET Requests, IsFiniteSet(Units(S)), NEW r \in Requests
  PROVE  /\ Units(S \cup {r}) = Units(S) \cup ({r} \X (1 .. Cost[r]))
         /\ IsFiniteSet(Units(S \cup {r}))
<1>1. Units(S \cup {r}) = Units(S) \cup ({r} \X (1 .. Cost[r]))
  BY DEF Units
<1>2. IsFiniteSet({r} \X (1 .. Cost[r]))
  BY UnitsOfOne
<1>3. IsFiniteSet(Units(S) \cup ({r} \X (1 .. Cost[r])))
  BY <1>2, FS_Union
<1> QED BY <1>1, <1>3

LEMMA UnitsOfFewer ==
  ASSUME NEW S \in SUBSET Requests, IsFiniteSet(Units(S)), NEW T \in SUBSET S
  PROVE  IsFiniteSet(Units(T))
<1>1. Units(T) \subseteq Units(S)
  BY DEF Units
<1> QED BY <1>1, FS_Subset

\* One request more costs what it costs more.
LEMMA TotalOfMore ==
  ASSUME NEW S \in SUBSET Requests, IsFiniteSet(Units(S)), NEW r \in Requests, r \notin S
  PROVE  Total(S) \in Nat /\ Total(S \cup {r}) = Total(S) + Cost[r]
<1> DEFINE one == {r} \X (1 .. Cost[r])
<1>1. Units(S \cup {r}) = Units(S) \cup one
  BY UnitsOfMore
<1>2. Units(S) \cap one = {}
  BY DEF Units
<1>3. IsFiniteSet(one) /\ Cardinality(one) = Cost[r]
  BY UnitsOfOne
<1>4. Cardinality(Units(S)) \in Nat
  BY FS_CardinalityType
<1> HIDE DEF one
<1>5. Cardinality(Units(S) \cup one) =
        Cardinality(Units(S)) + Cardinality(one) - Cardinality({})
  BY <1>2, <1>3, FS_Union
<1>6. Cost[r] \in Nat
  BY LedgerAssumption
<1>7. Cardinality({}) = 0
  BY FS_EmptySet
<1>8. Cardinality(Units(S) \cup one) = Cardinality(Units(S)) + Cost[r]
  BY <1>3, <1>4, <1>5, <1>6, <1>7
<1> QED BY <1>1, <1>4, <1>8 DEF Total

LEMMA MonthsInOrder ==
  ASSUME NEW d \in Nat \ {0}, NEW e \in Nat \ {0}, d <= e
  PROVE  MonthOf(d) \in Nat \ {0} /\ MonthOf(d) <= MonthOf(e)
<1> DEFINE p == (d - 1) \div MonthLength
           q == (e - 1) \div MonthLength
<1>1. MonthLength \in Nat \ {0}
  BY LedgerAssumption
<1>2. /\ p \in Int /\ MonthLength * p <= d - 1 /\ d - 1 < MonthLength * (p + 1)
      /\ q \in Int /\ MonthLength * q <= e - 1 /\ e - 1 < MonthLength * (q + 1)
  BY <1>1
<1> HIDE DEF p, q
<1>3. p >= 0
  BY <1>1, <1>2
<1>4. p <= q
  BY <1>1, <1>2
<1> QED BY <1>3, <1>4, <1>2 DEF MonthOf, p, q

-----------------------------------------------------------------------------
(* Types. *)

LEMMA SomeDay == 1 \in Day /\ \A d \in Day : d \in Nat \ {0}
BY LedgerAssumption DEF Day

LEMMA MonthsAreNat == \A d \in Day : MonthOf(d) \in Nat \ {0}
BY SomeDay, MonthsInOrder

LEMMA NewKeyIsRow == NewKey \in KeyRow
BY SomeDay, MonthsAreNat DEF NewKey, KeyRow

LEMMA InitTypes == Init => TypeOK
<1> SUFFICES ASSUME Init PROVE TypeOK
  OBVIOUS
<1>1. <<>> \in Seq(Requests) /\ Len(<<>>) = 0
  BY EmptySeq
<1>2. keys \in [Keys -> KeyRow]
  BY NewKeyIsRow DEF Init
<1>3. request \in [Requests -> [pc : Places, seen : KeyRow, capped : Day \cup {0}]]
  BY NewKeyIsRow DEF Init, Places
<1>4. Len(queue) <= QueueCap /\ Len(batch) <= MaxBatch
  BY <1>1, LedgerAssumption DEF Init
<1>5. charged \in [Requests -> Day \cup {0}]
  BY DEF Init
<1> QED BY <1>1, <1>2, <1>3, <1>4, <1>5, SomeDay DEF Init, TypeOK

LEMMA SpendAtIsNat ==
  ASSUME NEW key \in KeyRow, NEW d \in Day
  PROVE  MonthlySpendAt(key, d) \in Nat /\ DailySpendAt(key, d) \in Nat
BY DEF KeyRow, MonthlySpendAt, DailySpendAt

LEMMA ScannedIsRow ==
  ASSUME TypeOK, NEW key \in KeyRow
  PROVE  /\ Scanned(key) \in KeyRow
         /\ Scanned(key).spend = MonthlySpendAt(key, day)
         /\ Scanned(key).month = MonthOf(day)
         /\ Scanned(key).daily = DailySpendAt(key, day)
         /\ Scanned(key).day = day
<1>1. day \in Nat \ {0} /\ MonthOf(day) \in Nat
  BY SomeDay, MonthsAreNat DEF TypeOK
<1>2. MonthlySpendAt(key, day) \in Nat /\ DailySpendAt(key, day) \in Nat
  BY SpendAtIsNat DEF TypeOK
<1> QED BY <1>1, <1>2 DEF Scanned, KeyRow

LEMMA SpentIsRow ==
  ASSUME TypeOK, NEW key \in KeyRow, NEW cost \in Nat
  PROVE  /\ Spent(key, cost) \in KeyRow
         /\ Spent(key, cost).spend =
              IF key.month = MonthOf(day) THEN key.spend + cost ELSE cost
         /\ Spent(key, cost).month = MonthOf(day)
         /\ Spent(key, cost).daily = IF key.day = day THEN key.daily + cost ELSE cost
         /\ Spent(key, cost).day = day
<1>1. day \in Nat \ {0} /\ MonthOf(day) \in Nat
  BY SomeDay, MonthsAreNat DEF TypeOK
<1> QED BY <1>1 DEF Spent, KeyRow

LEMMA BatchStep ==
  ASSUME NEW records \in Seq(Requests), NEW n \in 0 .. Len(records),
         NEW at \in Subsequences(n, records)
  PROVE  /\ Written(records, at) \in Seq(Requests)
         /\ Len(Written(records, at)) = n
         /\ \A i \in 1 .. n : at[i] \in 1 .. Len(records) /\ Written(records, at)[i] = records[at[i]]
         /\ \A i, j \in 1 .. n : at[i] = at[j] => i = j
<1>1. at \in [1 .. n -> 1 .. Len(records)] /\ n \in Nat
  BY LenProperties DEF Subsequences
<1>2. Written(records, at) = [i \in 1 .. n |-> records[at[i]]]
  BY <1>1 DEF Written
<1>3. \A i \in 1 .. n : records[at[i]] \in Requests
  BY <1>1, ElementOfSeq
<1>4. Written(records, at) \in Seq(Requests)
  BY <1>1, <1>2, <1>3, IsASeq
<1>5. Len(Written(records, at)) = n
  BY <1>1, <1>2, <1>4
<1>6. \A i, j \in 1 .. n : at[i] = at[j] => i = j
  BY <1>1 DEF Subsequences
<1> QED BY <1>1, <1>2, <1>4, <1>5, <1>6

LEMMA DrainParts ==
  ASSUME TypeOK, queue # <<>>
  PROVE  /\ Drainable \in 1 .. Len(queue) /\ Drainable <= MaxBatch
         /\ SubSeq(queue, 1, Drainable) \in Seq(Requests)
         /\ Len(SubSeq(queue, 1, Drainable)) = Drainable
         /\ \A i \in 1 .. Drainable : SubSeq(queue, 1, Drainable)[i] = queue[i]
         /\ SubSeq(queue, Drainable + 1, Len(queue)) \in Seq(Requests)
         /\ Len(SubSeq(queue, Drainable + 1, Len(queue))) = Len(queue) - Drainable
         /\ \A i \in 1 .. Len(queue) - Drainable :
              SubSeq(queue, Drainable + 1, Len(queue))[i] = queue[Drainable + i]
<1>1. queue \in Seq(Requests) /\ Len(queue) \in Nat \ {0}
  BY EmptySeq DEF TypeOK
<1>2. Drainable \in 1 .. Len(queue) /\ Drainable <= MaxBatch
  BY <1>1, LedgerAssumption DEF Drainable
<1>3. \A i \in 1 .. Len(queue) : queue[i] \in Requests
  BY <1>1, ElementOfSeq
<1>4. /\ SubSeq(queue, 1, Drainable) \in Seq(Requests)
      /\ Len(SubSeq(queue, 1, Drainable)) = IF 1 <= Drainable THEN Drainable - 1 + 1 ELSE 0
      /\ \A i \in 1 .. Drainable - 1 + 1 : SubSeq(queue, 1, Drainable)[i] = queue[1 + i - 1]
  <2>1. 1 \in Int /\ Drainable \in Int /\ \A i \in 1 .. Drainable : queue[i] \in Requests
    BY <1>1, <1>2, <1>3
  <2> QED BY <2>1, SubSeqProperties
<1>5. /\ SubSeq(queue, Drainable + 1, Len(queue)) \in Seq(Requests)
      /\ Len(SubSeq(queue, Drainable + 1, Len(queue))) =
           IF Drainable + 1 <= Len(queue) THEN Len(queue) - (Drainable + 1) + 1 ELSE 0
      /\ \A i \in 1 .. Len(queue) - (Drainable + 1) + 1 :
           SubSeq(queue, Drainable + 1, Len(queue))[i] = queue[(Drainable + 1) + i - 1]
  <2>1. /\ Drainable + 1 \in Int /\ Len(queue) \in Int
        /\ \A i \in Drainable + 1 .. Len(queue) : queue[i] \in Requests
    BY <1>1, <1>2, <1>3
  <2> QED BY <2>1, SubSeqProperties
<1>6. /\ Len(SubSeq(queue, 1, Drainable)) = Drainable
      /\ \A i \in 1 .. Drainable : SubSeq(queue, 1, Drainable)[i] = queue[i]
  BY <1>1, <1>2, <1>4
<1>7. /\ Len(SubSeq(queue, Drainable + 1, Len(queue))) = Len(queue) - Drainable
      /\ \A i \in 1 .. Len(queue) - Drainable : SubSeq(queue, Drainable + 1, Len(queue))[i] = queue[Drainable + i]
  BY <1>1, <1>2, <1>5
<1> QED BY <1>2, <1>4, <1>5, <1>6, <1>7

LEMMA RestParts ==
  ASSUME TypeOK, batch # <<>>
  PROVE  /\ Len(batch) \in Nat \ {0}
         /\ Head(batch) = batch[1] /\ Head(batch) \in Requests
         /\ Tail(batch) \in Seq(Requests) /\ Len(Tail(batch)) = Len(batch) - 1
         /\ \A i \in 1 .. Len(batch) - 1 : Tail(batch)[i] = batch[i + 1]
BY EmptySeq, HeadTailProperties DEF TypeOK

LEMMA QueuedParts ==
  ASSUME TypeOK, NEW r \in Requests
  PROVE  /\ Queued(r) \in Seq(Requests) /\ Len(Queued(r)) <= QueueCap
         /\ \/ Queued(r) = queue
            \/ /\ Len(Queued(r)) = Len(queue) + 1
               /\ \A i \in 1 .. Len(queue) : Queued(r)[i] = queue[i]
               /\ Queued(r)[Len(queue) + 1] = r
<1>1. queue \in Seq(Requests) /\ Len(queue) \in Nat /\ Len(queue) <= QueueCap
  BY LenProperties DEF TypeOK
<1>2. CASE Len(queue) < QueueCap
  <2>1. Queued(r) = Append(queue, r)
    BY <1>2 DEF Queued
  <2> QED BY <1>1, <1>2, <2>1, AppendProperties, LedgerAssumption
<1>3. CASE ~(Len(queue) < QueueCap)
  BY <1>1, <1>3 DEF Queued
<1> QED BY <1>2, <1>3

LEMMA StepTypes == TypeOK /\ [Next]_vars => TypeOK'
<1> SUFFICES ASSUME TypeOK, [Next]_vars PROVE TypeOK'
  OBVIOUS
<1> DEFINE Progress == [pc : Places, seen : KeyRow, capped : Day \cup {0}]
<1>1. ASSUME NEW r \in Requests, ValidateKey(r)
      PROVE  TypeOK'
  <2>1. Scanned(keys[KeyOf[r]]) \in KeyRow
    BY ScannedIsRow, LedgerAssumption DEF TypeOK
  <2>2. request' \in [Requests -> Progress]
    BY <1>1, <2>1 DEF ValidateKey, TypeOK, Places
  <2> QED BY <1>1, <2>2 DEF ValidateKey, TypeOK
<1>2. ASSUME NEW r \in Requests, CheckBudget(r)
      PROVE  TypeOK'
  BY <1>2 DEF CheckBudget, TypeOK, Places
<1>3. ASSUME NEW r \in Requests, CheckRateLimit(r)
      PROVE  TypeOK'
  BY <1>3 DEF CheckRateLimit, TypeOK, Places
<1>4. ASSUME NEW r \in Requests, Upstream(r)
      PROVE  TypeOK'
  BY <1>4 DEF Upstream, TypeOK, Places
<1>5. ASSUME NEW r \in Requests, Record(r)
      PROVE  TypeOK'
  <2>1. queue' \in Seq(Requests) /\ Len(queue') <= QueueCap
    BY <1>5, QueuedParts DEF Record
  <2>2. request' \in [Requests -> Progress]
    BY <1>5 DEF Record, TypeOK, Places
  <2> QED BY <1>5, <2>1, <2>2 DEF Record, TypeOK
<1>6. ASSUME NEW k \in Keys, RevokeKey(k)
      PROVE  TypeOK'
  <2>0. [keys[k] EXCEPT !.active = FALSE] \in KeyRow
    <3>1. keys[k] \in KeyRow
      BY DEF TypeOK
    <3> QED BY <3>1 DEF KeyRow
  <2>1. keys' \in [Keys -> KeyRow]
    BY <1>6, <2>0 DEF RevokeKey, TypeOK
  <2> QED BY <1>6, <2>1 DEF RevokeKey, TypeOK
<1>7. CASE Drain
  <2>1. batch' \in Seq(Requests) /\ Len(batch') <= MaxBatch
    BY <1>7, DrainParts DEF Drain
  <2>2. queue' \in Seq(Requests) /\ Len(queue') <= QueueCap
    <3>1. Len(queue) \in Nat /\ Len(queue) <= QueueCap
      BY LenProperties DEF TypeOK
    <3>2. queue' \in Seq(Requests) /\ Len(queue') = Len(queue) - Drainable
      BY <1>7, DrainParts DEF Drain
    <3>3. Drainable \in 1 .. Len(queue)
      BY <1>7, DrainParts DEF Drain
    <3> QED BY <3>1, <3>2, <3>3, LedgerAssumption
  <2> QED BY <1>7, <2>1, <2>2 DEF Drain, TypeOK
<1>8. CASE Commit
  <2>0. PICK n \in 0 .. Len(batch) :
          \E at \in Subsequences(n, batch) :
            rows' = rows \cup {batch[at[i]] : i \in 1 .. n} /\ batch' = Written(batch, at)
    BY <1>8 DEF Commit
  <2>1. PICK at \in Subsequences(n, batch) :
          rows' = rows \cup {batch[at[i]] : i \in 1 .. n} /\ batch' = Written(batch, at)
    BY <2>0
  <2>2. batch \in Seq(Requests) /\ Len(batch) \in Nat
    BY LenProperties DEF TypeOK
  <2>3. batch' \in Seq(Requests) /\ Len(batch') = n
    BY <2>1, <2>2, BatchStep
  <2>4. rows' \subseteq Requests
    BY <2>1, <2>2, BatchStep, ElementOfSeq DEF TypeOK
  <2> QED BY <1>8, <2>2, <2>3, <2>4, LedgerAssumption DEF Commit, TypeOK
<1>9. CASE CommitFails
  BY <1>9, EmptySeq, LedgerAssumption DEF CommitFails, TypeOK
<1>10. CASE Charge
  <2>1. Head(batch) \in Requests /\ KeyOf[Head(batch)] \in Keys /\ Cost[Head(batch)] \in Nat
    BY <1>10, RestParts, LedgerAssumption DEF Charge
  <2>2. keys' \in [Keys -> KeyRow]
    BY <1>10, <2>1, SpentIsRow DEF Charge, TypeOK
  <2>3. charged' \in [Requests -> Day \cup {0}]
    BY <1>10, <2>1 DEF Charge, TypeOK
  <2>4. batch' \in Seq(Requests) /\ Len(batch') <= MaxBatch
    BY <1>10, RestParts, LedgerAssumption DEF Charge, TypeOK
  <2> QED BY <1>10, <2>2, <2>3, <2>4 DEF Charge, TypeOK
<1>11. CASE ChargeFails
  BY <1>11, RestParts, LedgerAssumption DEF ChargeFails, TypeOK
<1>12. CASE Persisted \/ Exit \/ Close
  BY <1>12 DEF Persisted, Exit, Close, TypeOK
<1>13. CASE Restart
  <2>0. ASSUME NEW r \in Requests
        PROVE  [request[r] EXCEPT !.pc = "rejected"] \in Progress /\ request[r] \in Progress
    BY DEF TypeOK, Places
  <2>1. request' \in [Requests -> Progress]
    BY <1>13, <2>0 DEF Restart
  <2>2. Len(<<>>) <= QueueCap /\ Len(<<>>) <= MaxBatch /\ <<>> \in Seq(Requests)
    BY EmptySeq, LedgerAssumption
  <2> QED BY <1>13, <2>1, <2>2 DEF Restart, TypeOK
<1>14. CASE Midnight
  BY <1>14, LedgerAssumption DEF Midnight, TypeOK, Day
<1>15. CASE UNCHANGED vars
  BY <1>15 DEF vars, TypeOK
<1> QED
  BY <1>1, <1>2, <1>3, <1>4, <1>5, <1>6, <1>7, <1>8, <1>9, <1>10, <1>11, <1>12, <1>13,
     <1>14, <1>15
  DEF Next, Admission, Work

-----------------------------------------------------------------------------
(* Every record is held once, and charged once. *)

LEMMA InitHeld == Init => HeldOnce /\ BatchLogged /\ ChargedOnlyIfLogged
BY EmptySeq DEF Init, HeldOnce, Waiting, RecordsOf, BatchLogged, ChargedOnlyIfLogged

\* Fewer records held, and nobody's request or charge touched.
LEMMA HeldFewer ==
  ASSUME HeldOnce, charged' = charged,
         \A r \in Requests : request[r].pc = "done" => request'[r].pc = "done",
         RecordsOf(queue') \cup RecordsOf(batch') \subseteq
           RecordsOf(queue) \cup RecordsOf(batch),
         \A i, j \in 1 .. Len(queue') : queue'[i] = queue'[j] => i = j,
         \A i, j \in 1 .. Len(batch') : batch'[i] = batch'[j] => i = j,
         RecordsOf(queue') \cap RecordsOf(batch') = {}
  PROVE  HeldOnce'
BY DEF HeldOnce, Waiting, RecordsOf

\* The records in queue and batch stay where they are.
LEMMA HeldSame ==
  ASSUME HeldOnce, charged' = charged, queue' = queue, batch' = batch,
         \A r \in Requests : request[r].pc = "done" => request'[r].pc = "done"
  PROVE  HeldOnce'
BY DEF HeldOnce, Waiting, RecordsOf

LEMMA StepHeld == TypeOK /\ HeldOnce /\ [Next]_vars => HeldOnce'
<1> SUFFICES ASSUME TypeOK, HeldOnce, [Next]_vars PROVE HeldOnce'
  OBVIOUS
<1>0. /\ queue \in Seq(Requests) /\ Len(queue) \in Nat
      /\ batch \in Seq(Requests) /\ Len(batch) \in Nat
  BY LenProperties DEF TypeOK
<1>1. ASSUME NEW r \in Requests, ValidateKey(r) \/ CheckBudget(r) \/ CheckRateLimit(r) \/ Upstream(r)
      PROVE  HeldOnce'
  <2>1. \A x \in Requests : request[x].pc = "done" => request'[x].pc = "done"
    BY <1>1 DEF ValidateKey, CheckBudget, CheckRateLimit, Upstream, TypeOK
  <2> QED
    BY <1>1, <2>1, HeldSame DEF ValidateKey, CheckBudget, CheckRateLimit, Upstream
<1>2. ASSUME NEW r \in Requests, Record(r)
      PROVE  HeldOnce'
  <2>1. request[r].pc = "answered" /\ request' = [request EXCEPT ![r].pc = "done"]
    BY <1>2 DEF Record
  <2>2. charged[r] = 0 /\ r \notin RecordsOf(queue) /\ r \notin RecordsOf(batch)
    BY <2>1 DEF HeldOnce, Waiting
  <2>3. \A x \in Requests : request'[x].pc = IF x = r THEN "done" ELSE request[x].pc
    BY <2>1 DEF TypeOK
  <2>4. batch' = batch /\ charged' = charged /\ queue' = Queued(r)
    BY <1>2 DEF Record
  <2>5. CASE queue' = queue
    BY <2>3, <2>4, <2>5, HeldSame
  <2>6. CASE /\ Len(queue') = Len(queue) + 1
             /\ \A i \in 1 .. Len(queue) : queue'[i] = queue[i]
             /\ queue'[Len(queue) + 1] = r
    <3>1. RecordsOf(queue') = RecordsOf(queue) \cup {r}
      BY <1>0, <2>6 DEF RecordsOf
    <3>2. \A i, j \in 1 .. Len(queue') : queue'[i] = queue'[j] => i = j
      <4>1. \A i \in 1 .. Len(queue) : queue[i] # r
        BY <2>2 DEF RecordsOf
      <4> QED BY <1>0, <2>6, <4>1 DEF HeldOnce
    <3>3. RecordsOf(queue') \cap RecordsOf(batch') = {}
      BY <2>2, <2>4, <3>1 DEF HeldOnce
    <3>4. \A x \in Requests :
            (Waiting(x))' => request'[x].pc = "done" /\ charged'[x] = 0
      BY <2>2, <2>3, <2>4, <3>1 DEF HeldOnce, Waiting
    <3>5. \A x \in Requests : charged'[x] # 0 => request'[x].pc = "done"
      BY <2>3, <2>4 DEF HeldOnce
    <3>6. \A i, j \in 1 .. Len(batch') : batch'[i] = batch'[j] => i = j
      BY <2>4 DEF HeldOnce
    <3> QED BY <3>2, <3>3, <3>4, <3>5, <3>6 DEF HeldOnce
  <2> QED BY <2>4, <2>5, <2>6, QueuedParts
<1>3. CASE Drain
  <2>1. /\ Drainable \in 1 .. Len(queue)
        /\ Len(batch') = Drainable /\ \A i \in 1 .. Drainable : batch'[i] = queue[i]
        /\ Len(queue') = Len(queue) - Drainable
        /\ \A i \in 1 .. Len(queue) - Drainable : queue'[i] = queue[Drainable + i]
    BY <1>3, DrainParts DEF Drain
  <2>a. \A i \in 1 .. Len(batch') :
          i \in 1 .. Len(queue) /\ i <= Drainable /\ batch'[i] = queue[i]
    BY <1>0, <2>1
  <2>b. \A i \in 1 .. Len(queue') :
          /\ Drainable + i \in 1 .. Len(queue) /\ Drainable + i > Drainable
          /\ queue'[i] = queue[Drainable + i]
    BY <1>0, <2>1
  <2>2. RecordsOf(queue') \cup RecordsOf(batch') \subseteq RecordsOf(queue)
    BY <2>a, <2>b DEF RecordsOf
  <2>3. /\ \A i, j \in 1 .. Len(queue') : queue'[i] = queue'[j] => i = j
        /\ \A i, j \in 1 .. Len(batch') : batch'[i] = batch'[j] => i = j
    <3>1. \A i, j \in 1 .. Len(queue') :
            queue'[i] = queue'[j] => Drainable + i = Drainable + j
      BY <2>b DEF HeldOnce
    <3>2. Drainable \in Int
      BY <2>1
    <3> QED BY <2>a, <3>1, <3>2 DEF HeldOnce
  <2>4. \A i \in 1 .. Len(queue'), j \in 1 .. Len(batch') : queue'[i] # batch'[j]
    <3> SUFFICES ASSUME NEW i \in 1 .. Len(queue'), NEW j \in 1 .. Len(batch'),
                        queue'[i] = batch'[j]
                 PROVE  FALSE
      OBVIOUS
    <3>1. Drainable + i = j
      BY <2>a, <2>b DEF HeldOnce
    <3> QED BY <2>1, <2>a, <2>b, <3>1
  <2>5. RecordsOf(queue') \cap RecordsOf(batch') = {}
    BY <2>4 DEF RecordsOf
  <2> QED BY <1>3, <2>2, <2>3, <2>5, HeldFewer DEF Drain
<1>4. CASE Commit
  <2>1. PICK n \in 0 .. Len(batch) : \E at \in Subsequences(n, batch) : batch' = Written(batch, at)
    BY <1>4 DEF Commit
  <2>2. PICK at \in Subsequences(n, batch) : batch' = Written(batch, at)
    BY <2>1
  <2>0. at \in Subsequences(n, batch)
    OBVIOUS
  <2>3. /\ Len(batch') = n
        /\ \A i \in 1 .. n : at[i] \in 1 .. Len(batch) /\ batch'[i] = batch[at[i]]
        /\ \A i, j \in 1 .. n : at[i] = at[j] => i = j
    <3>1. batch' \in Seq(Requests) /\ Len(batch') = n
      BY <1>0, <2>2, BatchStep
    <3>2. ASSUME NEW i \in 1 .. n
          PROVE  at[i] \in 1 .. Len(batch) /\ Written(batch, at)[i] = batch[at[i]]
      BY <1>0, <2>0, BatchStep
    <3>3. \A i, j \in 1 .. n : i < j => at[i] < at[j]
      BY <2>0 DEF Subsequences
    <3>4. ASSUME NEW i \in 1 .. n, NEW j \in 1 .. n, at[i] = at[j]
          PROVE  i = j
      BY <1>0, <3>2, <3>3, <3>4
    <3> QED BY <2>2, <3>1, <3>2, <3>4
  <2>4. RecordsOf(batch') \subseteq RecordsOf(batch)
    BY <2>3 DEF RecordsOf
  <2>5. \A i, j \in 1 .. Len(batch') : batch'[i] = batch'[j] => i = j
    BY <2>3 DEF HeldOnce
  <2> QED BY <1>4, <2>4, <2>5, HeldFewer DEF Commit, HeldOnce
<1>5. CASE CommitFails \/ Restart
  <2>1. batch' = <<>> /\ queue' \in {queue, <<>>} /\ charged' = charged
    BY <1>5 DEF CommitFails, Restart
  <2>2. \A r \in Requests : request[r].pc = "done" => request'[r].pc = "done"
    BY <1>5 DEF CommitFails, Restart, TypeOK
  <2>3. RecordsOf(batch') = {} /\ RecordsOf(queue') \subseteq RecordsOf(queue)
    BY <2>1, EmptySeq DEF RecordsOf
  <2>4. /\ \A i, j \in 1 .. Len(queue') : queue'[i] = queue'[j] => i = j
        /\ \A i, j \in 1 .. Len(batch') : batch'[i] = batch'[j] => i = j
    BY <2>1, EmptySeq DEF HeldOnce
  <2> QED BY <2>1, <2>2, <2>3, <2>4, HeldFewer
<1>6. ASSUME batch # <<>>, batch' = Tail(batch)
      PROVE  /\ RecordsOf(batch') \subseteq RecordsOf(batch)
             /\ Head(batch) \in RecordsOf(batch)
             /\ Head(batch) \notin RecordsOf(batch')
             /\ \A i, j \in 1 .. Len(batch') : batch'[i] = batch'[j] => i = j
  <2>1. /\ Len(batch) \in Nat \ {0} /\ Head(batch) = batch[1]
        /\ Len(batch') = Len(batch) - 1
        /\ \A i \in 1 .. Len(batch') : i + 1 \in 1 .. Len(batch) /\ batch'[i] = batch[i + 1]
    BY <1>6, RestParts
  <2>2. RecordsOf(batch') \subseteq RecordsOf(batch) /\ Head(batch) \in RecordsOf(batch)
    BY <2>1 DEF RecordsOf
  <2>3. \A i \in 1 .. Len(batch') : batch'[i] # batch[1]
    BY <2>1 DEF HeldOnce
  <2>4. \A i, j \in 1 .. Len(batch') : batch'[i] = batch'[j] => i = j
    BY <2>1 DEF HeldOnce
  <2> QED BY <2>1, <2>2, <2>3, <2>4 DEF RecordsOf
<1>7. CASE Charge
  <2>1. batch # <<>> /\ batch' = Tail(batch) /\ queue' = queue /\ request' = request
    BY <1>7 DEF Charge
  <2>2. charged' = [charged EXCEPT ![Head(batch)] = day] /\ Head(batch) \in Requests
    BY <1>7, <2>1, RestParts DEF Charge
  <2>3. \A r \in Requests : charged'[r] = IF r = Head(batch) THEN day ELSE charged[r]
    BY <2>2 DEF TypeOK
  <2>4. Head(batch) \notin RecordsOf(queue) /\ request[Head(batch)].pc = "done"
    BY <1>6, <2>1, <2>2 DEF HeldOnce, Waiting
  <2>5. /\ RecordsOf(batch') \subseteq RecordsOf(batch)
        /\ Head(batch) \notin RecordsOf(batch')
        /\ \A i, j \in 1 .. Len(batch') : batch'[i] = batch'[j] => i = j
    BY <1>6, <2>1
  <2>6. \A r \in Requests : (Waiting(r))' => Waiting(r) /\ r # Head(batch)
    BY <2>1, <2>4, <2>5 DEF Waiting
  <2>7. RecordsOf(queue') \cap RecordsOf(batch') = {}
    BY <2>1, <2>5 DEF HeldOnce
  <2> QED BY <2>1, <2>3, <2>4, <2>5, <2>6, <2>7 DEF HeldOnce
<1>8. CASE ChargeFails
  <2>1. /\ batch # <<>> /\ batch' = Tail(batch)
        /\ queue' = queue /\ request' = request /\ charged' = charged
    BY <1>8 DEF ChargeFails
  <2>2. RecordsOf(batch') \subseteq RecordsOf(batch)
    BY <1>6, <2>1
  <2> QED BY <1>6, <2>1, <2>2, HeldFewer DEF HeldOnce
<1>9. CASE (\E k \in Keys : RevokeKey(k)) \/ Persisted \/ Exit \/ Close \/ Midnight \/ UNCHANGED vars
  BY <1>9, HeldSame DEF RevokeKey, Persisted, Exit, Close, Midnight, vars
<1> QED
  BY <1>1, <1>2, <1>3, <1>4, <1>5, <1>7, <1>8, <1>9 DEF Next, Admission, Work

\* What the worker charges is in request_logs.
LEMMA StepLogged ==
  /\ TypeOK /\ BatchLogged /\ ChargedOnlyIfLogged /\ [Next]_vars
  => BatchLogged' /\ ChargedOnlyIfLogged'
<1> SUFFICES ASSUME TypeOK, BatchLogged, ChargedOnlyIfLogged, [Next]_vars
             PROVE  BatchLogged' /\ ChargedOnlyIfLogged'
  OBVIOUS
<1>0. batch \in Seq(Requests) /\ Len(batch) \in Nat
  BY LenProperties DEF TypeOK
<1>1. CASE Commit
  <2>1. PICK n \in 0 .. Len(batch) :
          \E at \in Subsequences(n, batch) :
            rows' = rows \cup {batch[at[i]] : i \in 1 .. n} /\ batch' = Written(batch, at)
    BY <1>1 DEF Commit
  <2>2. PICK at \in Subsequences(n, batch) :
          rows' = rows \cup {batch[at[i]] : i \in 1 .. n} /\ batch' = Written(batch, at)
    BY <2>1
  <2>3. Len(batch') = n /\ \A i \in 1 .. n : batch'[i] = batch[at[i]]
    BY <1>0, <2>2, BatchStep
  <2>4. RecordsOf(batch') \subseteq rows'
    BY <2>2, <2>3 DEF RecordsOf
  <2> QED BY <1>1, <2>2, <2>4 DEF Commit, BatchLogged, ChargedOnlyIfLogged, RecordsOf
<1>2. CASE Charge \/ ChargeFails
  <2>1. worker = "charge" /\ batch # <<>> /\ batch' = Tail(batch) /\ rows' = rows
    BY <1>2 DEF Charge, ChargeFails
  <2>2. /\ Head(batch) = batch[1] /\ Len(batch) \in Nat \ {0}
        /\ Len(batch') = Len(batch) - 1
        /\ \A i \in 1 .. Len(batch') : i + 1 \in 1 .. Len(batch) /\ batch'[i] = batch[i + 1]
    BY <2>1, RestParts
  <2>3. RecordsOf(batch') \subseteq RecordsOf(batch) /\ Head(batch) \in RecordsOf(batch)
    BY <2>2 DEF RecordsOf
  <2>4. RecordsOf(batch) \subseteq rows
    BY <2>1 DEF BatchLogged
  <2>5. \A r \in Requests : charged'[r] = charged[r] \/ r = Head(batch)
    BY <1>2 DEF Charge, ChargeFails, TypeOK
  <2> QED BY <2>1, <2>3, <2>4, <2>5 DEF BatchLogged, ChargedOnlyIfLogged, RecordsOf
<1>3. CASE ~(Commit \/ Charge \/ ChargeFails)
  <2>1. rows' = rows /\ charged' = charged
    BY <1>3
    DEF Next, Admission, Work, ValidateKey, CheckBudget, CheckRateLimit, Upstream, Record,
        RevokeKey, Drain, CommitFails, Persisted, Exit, Close, Restart, Midnight, vars
  <2>2. worker' = "charge" => worker = "charge" /\ batch' = batch
    BY <1>3
    DEF Next, Admission, Work, ValidateKey, CheckBudget, CheckRateLimit, Upstream, Record,
        RevokeKey, Drain, CommitFails, Persisted, Exit, Close, Restart, Midnight, vars
  <2> QED BY <2>1, <2>2 DEF BatchLogged, ChargedOnlyIfLogged, RecordsOf
<1> QED BY <1>1, <1>2, <1>3

-----------------------------------------------------------------------------
(* A key's row sums the charges of its periods. *)

\* A key is charged in the periods of its row or before, and the row's are not
\* later than today's.
LEMMA RowsInOrder ==
  ASSUME TypeOK, RowSumsCharges, NEW k \in Keys
  PROVE  /\ keys[k].day \in Nat /\ keys[k].day <= day
         /\ keys[k].month \in Nat \ {0} /\ keys[k].month <= MonthOf(day)
         /\ \A r \in Requests : KeyOf[r] = k /\ charged[r] # 0 =>
              /\ charged[r] \in Day /\ charged[r] <= keys[k].day
              /\ MonthOf(charged[r]) <= keys[k].month
<1> DEFINE last == IF keys[k].day = 0 THEN 1 ELSE keys[k].day
<1>1. /\ keys[k].day \in Nat /\ keys[k].day <= day /\ keys[k].month = MonthOf(last)
      /\ day \in Nat \ {0}
  BY SomeDay DEF TypeOK, KeyRow, RowSumsCharges, RowSums
<1>2. last \in Nat \ {0} /\ last <= day
  BY <1>1
<1>3. MonthOf(last) \in Nat \ {0} /\ MonthOf(last) <= MonthOf(day)
  BY <1>1, <1>2, MonthsInOrder
<1>4. ASSUME NEW r \in Requests, KeyOf[r] = k, charged[r] # 0
      PROVE  /\ charged[r] \in Day /\ charged[r] <= keys[k].day
             /\ MonthOf(charged[r]) <= keys[k].month
  <2>1. charged[r] \in Day /\ charged[r] <= keys[k].day /\ charged[r] \in Nat \ {0}
    BY <1>4, SomeDay DEF TypeOK, RowSumsCharges
  <2>2. charged[r] <= last
    BY <1>1, <2>1
  <2> HIDE DEF last
  <2>3. MonthOf(charged[r]) <= MonthOf(last)
    BY <1>2, <2>1, <2>2, MonthsInOrder
  <2> QED BY <1>1, <2>1, <2>3
<1> QED BY <1>1, <1>3, <1>4

LEMMA RowsMatch ==
  ASSUME TypeOK, RowSumsCharges, NEW k \in Keys
  PROVE  /\ MonthlySpendAt(keys[k], day) = Total(ChargedIn(k, ThisMonth))
         /\ DailySpendAt(keys[k], day) = Total(ChargedIn(k, {day}))
<1> DEFINE key == keys[k]
<1>0. /\ key.day \in Nat /\ key.day <= day /\ day \in Day /\ day \in Nat \ {0}
      /\ key.month \in Nat \ {0} /\ key.month <= MonthOf(day) /\ MonthOf(day) \in Nat
      /\ key.spend = Total(ChargedIn(k, {d \in Day : MonthOf(d) = key.month}))
      /\ key.daily = Total(ChargedIn(k, {d \in Day : d = key.day}))
  BY RowsInOrder, SomeDay, MonthsAreNat DEF TypeOK, RowSumsCharges, RowSums
<1>1. MonthlySpendAt(key, day) = Total(ChargedIn(k, ThisMonth))
  <2>1. CASE key.month = MonthOf(day)
    <3>1. {d \in Day : MonthOf(d) = key.month} = ThisMonth
      BY <2>1 DEF ThisMonth
    <3> QED BY <1>0, <2>1, <3>1 DEF MonthlySpendAt
  <2>2. CASE key.month # MonthOf(day)
    <3>1. ASSUME NEW r \in ChargedIn(k, ThisMonth)
          PROVE  FALSE
      <4>1. /\ r \in Requests /\ KeyOf[r] = k /\ charged[r] \in Day
            /\ MonthOf(charged[r]) = MonthOf(day)
        BY DEF ChargedIn, ThisMonth
      <4>2. charged[r] # 0
        BY <4>1, SomeDay
      <4>3. MonthOf(charged[r]) <= key.month
        BY <4>1, <4>2, RowsInOrder
      <4> QED BY <1>0, <2>2, <4>1, <4>3
    <3>2. ChargedIn(k, ThisMonth) = {}
      BY <3>1
    <3> QED BY <1>0, <2>2, <3>2, TotalOfNone DEF MonthlySpendAt
  <2> QED BY <2>1, <2>2
<1>2. DailySpendAt(key, day) = Total(ChargedIn(k, {day}))
  <2>1. CASE key.day = day
    <3>1. {d \in Day : d = key.day} = {day}
      BY <1>0, <2>1
    <3> QED BY <1>0, <2>1, <3>1 DEF DailySpendAt
  <2>2. CASE key.day # day
    <3>1. ASSUME NEW r \in ChargedIn(k, {day})
          PROVE  FALSE
      <4>1. r \in Requests /\ KeyOf[r] = k /\ charged[r] = day
        BY DEF ChargedIn
      <4>2. charged[r] <= key.day
        BY <1>0, <4>1, RowsInOrder
      <4> QED BY <1>0, <2>2, <4>1, <4>2
    <3>2. ChargedIn(k, {day}) = {}
      BY <3>1
    <3>3. ASSUME key.day = 0
          PROVE  key.daily = 0
      <4>1. {d \in Day : d = key.day} = {}
        BY <3>3, SomeDay
      <4>2. ChargedIn(k, {}) = {}
        BY DEF ChargedIn
      <4> QED BY <1>0, <4>1, <4>2, TotalOfNone
    <3> QED BY <1>0, <2>2, <3>2, <3>3, TotalOfNone DEF DailySpendAt
  <2> QED BY <2>1, <2>2
<1> QED BY <1>1, <1>2

LEMMA InitRows == Init => RowSumsCharges
<1> SUFFICES ASSUME Init PROVE RowSumsCharges
  OBVIOUS
<1>1. \A r \in Requests : charged[r] = 0
  BY DEF Init
<1>2. {r \in Requests : charged[r] # 0} = {} /\ Units({}) = {}
  BY <1>1 DEF Units
<1>3. ASSUME NEW k \in Keys, NEW days \in SUBSET Day
      PROVE  Total(ChargedIn(k, days)) = 0
  <2>1. ChargedIn(k, days) = {}
    BY <1>1, SomeDay DEF ChargedIn
  <2> QED BY <2>1, TotalOfNone
<1>4. \A k \in Keys : keys[k] = NewKey
  BY DEF Init
<1>5. \A r \in Requests : charged[r] <= keys[KeyOf[r]].day
  BY <1>1, <1>4, LedgerAssumption DEF NewKey
<1>6. ASSUME NEW k \in Keys
      PROVE  /\ Total(ChargedIn(k, {d \in Day : MonthOf(d) = keys[k].month})) = 0
             /\ Total(ChargedIn(k, {d \in Day : d = keys[k].day})) = 0
  BY <1>3
<1>7. \A k \in Keys : /\ keys[k].day = 0 /\ keys[k].month = MonthOf(1)
                      /\ keys[k].spend = 0 /\ keys[k].daily = 0
  BY <1>4 DEF NewKey
<1>8. ASSUME NEW k \in Keys
      PROVE  RowSums(k)
  <2>1. /\ keys[k].spend = Total(ChargedIn(k, {d \in Day : MonthOf(d) = keys[k].month}))
        /\ keys[k].daily = Total(ChargedIn(k, {d \in Day : d = keys[k].day}))
    BY <1>6, <1>7
  <2>2. /\ keys[k].day <= day
        /\ keys[k].month = MonthOf(IF keys[k].day = 0 THEN 1 ELSE keys[k].day)
    BY <1>7 DEF Init
  <2> QED BY <2>1, <2>2 DEF RowSums
<1> QED BY <1>2, <1>5, <1>8, FS_EmptySet DEF RowSumsCharges

\* Days may pass while rows and charges stay.
LEMMA RowsKept ==
  ASSUME TypeOK, RowSumsCharges, charged' = charged, day' \in Nat, day <= day',
         \A k \in Keys : /\ keys'[k].day = keys[k].day /\ keys'[k].month = keys[k].month
                         /\ keys'[k].spend = keys[k].spend
                         /\ keys'[k].daily = keys[k].daily
  PROVE  RowSumsCharges'
<1>1. \A k \in Keys : keys[k].day \in Nat /\ day \in Nat
  BY SomeDay DEF TypeOK, KeyRow
<1>2. \A r \in Requests : KeyOf[r] \in Keys
  BY LedgerAssumption
<1>3. ASSUME NEW k \in Keys
      PROVE  RowSums(k)'
  <2>1. /\ keys'[k].day = keys[k].day /\ keys'[k].month = keys[k].month
        /\ keys'[k].spend = keys[k].spend /\ keys'[k].daily = keys[k].daily
    OBVIOUS
  <2>2. /\ keys[k].day <= day
        /\ keys[k].month = MonthOf(IF keys[k].day = 0 THEN 1 ELSE keys[k].day)
        /\ keys[k].spend = Total(ChargedIn(k, {d \in Day : MonthOf(d) = keys[k].month}))
        /\ keys[k].daily = Total(ChargedIn(k, {d \in Day : d = keys[k].day}))
    BY DEF RowSumsCharges, RowSums
  <2>3. keys'[k].day <= day'
    BY <1>1, <2>1, <2>2
  <2> QED BY <2>1, <2>2, <2>3 DEF RowSums, ChargedIn
<1>4. \A r \in Requests : charged'[r] <= keys'[KeyOf[r]].day
  BY <1>2 DEF RowSumsCharges
<1>5. IsFiniteSet(Units({r \in Requests : charged'[r] # 0}))
  BY DEF RowSumsCharges
<1> QED
  BY <1>3, <1>4, <1>5 DEF RowSumsCharges

\* The row of a key that is charged sums one charge more, in today's periods.
LEMMA ChargedRow ==
  ASSUME TypeOK, RowSumsCharges, NEW r \in Requests, charged[r] = 0
  PROVE  LET k == KeyOf[r]
             row == Spent(keys[k], Cost[r])
         IN  /\ row.day = day /\ row.month = MonthOf(day)
             /\ row.spend = Total(ChargedIn(k, ThisMonth) \cup {r})
             /\ row.daily = Total(ChargedIn(k, {day}) \cup {r})
<1> DEFINE k == KeyOf[r]
           key == keys[k]
           row == Spent(key, Cost[r])
<1>1. k \in Keys /\ key \in KeyRow /\ Cost[r] \in Nat /\ day \in Day /\ day \in Nat \ {0}
  BY LedgerAssumption, SomeDay DEF TypeOK
<1>2. /\ row.spend = IF key.month = MonthOf(day) THEN key.spend + Cost[r] ELSE Cost[r]
      /\ row.daily = IF key.day = day THEN key.daily + Cost[r] ELSE Cost[r]
      /\ row.day = day /\ row.month = MonthOf(day)
  BY <1>1, SpentIsRow
<1>3. /\ MonthlySpendAt(key, day) = Total(ChargedIn(k, ThisMonth))
      /\ DailySpendAt(key, day) = Total(ChargedIn(k, {day}))
  BY <1>1, RowsMatch
<1>4. ASSUME NEW days \in SUBSET Day
      PROVE  Total(ChargedIn(k, days) \cup {r}) = Total(ChargedIn(k, days)) + Cost[r]
  <2>1. /\ ChargedIn(k, days) \subseteq {x \in Requests : charged[x] # 0}
        /\ r \notin ChargedIn(k, days)
    BY SomeDay DEF ChargedIn
  <2>2. IsFiniteSet(Units(ChargedIn(k, days)))
    BY <2>1, UnitsOfFewer DEF RowSumsCharges
  <2>3. ChargedIn(k, days) \in SUBSET Requests
    BY DEF ChargedIn
  <2> QED BY <2>1, <2>2, <2>3, TotalOfMore
<1>5. /\ Total(ChargedIn(k, ThisMonth) \cup {r}) = MonthlySpendAt(key, day) + Cost[r]
      /\ Total(ChargedIn(k, {day}) \cup {r}) = DailySpendAt(key, day) + Cost[r]
  BY <1>1, <1>3, <1>4 DEF ThisMonth
<1>6. MonthlySpendAt(key, day) = IF key.month = MonthOf(day) THEN key.spend ELSE 0
  BY <1>1, RowsInOrder DEF MonthlySpendAt
<1>7. DailySpendAt(key, day) = IF key.day = day THEN key.daily ELSE 0
  <2>1. CASE key.day # 0
    BY <2>1 DEF DailySpendAt
  <2>2. CASE key.day = 0
    <3>1. ChargedIn(k, {day}) = {}
      BY <1>1, <2>2, RowsInOrder DEF ChargedIn
    <3> QED BY <1>1, <1>3, <2>2, <3>1, TotalOfNone
  <2> QED BY <2>1, <2>2
<1> HIDE DEF row, key
<1>8. row.spend = MonthlySpendAt(key, day) + Cost[r]
  BY <1>1, <1>2, <1>6
<1>9. row.daily = DailySpendAt(key, day) + Cost[r]
  BY <1>1, <1>2, <1>7
<1> QED BY <1>2, <1>5, <1>8, <1>9 DEF row, key

LEMMA ChargeRows == TypeOK /\ HeldOnce /\ RowSumsCharges /\ Charge => RowSumsCharges'
<1> SUFFICES ASSUME TypeOK, HeldOnce, RowSumsCharges, Charge PROVE RowSumsCharges'
  OBVIOUS
<1> DEFINE r == Head(batch)
           row == Spent(keys[KeyOf[r]], Cost[r])
<1>1. /\ r \in Requests /\ KeyOf[r] \in Keys /\ charged[r] = 0
      /\ day \in Day /\ day \in Nat \ {0}
  <2>1. batch # <<>> /\ 1 \in 1 .. Len(batch) /\ Head(batch) = batch[1] /\ Head(batch) \in Requests
    BY RestParts DEF Charge
  <2>2. Head(batch) \in RecordsOf(batch)
    BY <2>1 DEF RecordsOf
  <2>3. charged[Head(batch)] = 0
    BY <2>1, <2>2 DEF HeldOnce, Waiting
  <2> QED BY <2>1, <2>3, LedgerAssumption, SomeDay DEF TypeOK
<1>2. /\ day' = day
      /\ keys' = [keys EXCEPT ![KeyOf[r]] = row]
      /\ charged' = [charged EXCEPT ![r] = day]
  BY DEF Charge
<1>3. /\ row.day = day /\ row.month = MonthOf(day)
      /\ row.spend = Total(ChargedIn(KeyOf[r], ThisMonth) \cup {r})
      /\ row.daily = Total(ChargedIn(KeyOf[r], {day}) \cup {r})
  BY <1>1, ChargedRow
<1> HIDE DEF r, row
<1>4. /\ \A k \in Keys : keys'[k] = IF k = KeyOf[r] THEN row ELSE keys[k]
      /\ \A x \in Requests : charged'[x] = IF x = r THEN day ELSE charged[x]
  BY <1>1, <1>2 DEF TypeOK
<1>5. ASSUME NEW k \in Keys
      PROVE  RowSums(k)'
  <2>1. CASE k # KeyOf[r]
    <3>1. keys'[k] = keys[k]
      BY <1>4, <2>1
    <3>2. ASSUME NEW days
          PROVE  {x \in Requests : KeyOf[x] = k /\ charged'[x] \in days} = ChargedIn(k, days)
      BY <1>4, <2>1 DEF ChargedIn
    <3>3. /\ keys[k].day <= day
          /\ keys[k].month = MonthOf(IF keys[k].day = 0 THEN 1 ELSE keys[k].day)
          /\ keys[k].spend = Total(ChargedIn(k, {d \in Day : MonthOf(d) = keys[k].month}))
          /\ keys[k].daily = Total(ChargedIn(k, {d \in Day : d = keys[k].day}))
      BY DEF RowSumsCharges, RowSums
    <3>4. /\ (ChargedIn(k, {d \in Day : MonthOf(d) = keys[k].month}))' =
               ChargedIn(k, {d \in Day : MonthOf(d) = keys[k].month})
          /\ (ChargedIn(k, {d \in Day : d = keys[k].day}))' =
               ChargedIn(k, {d \in Day : d = keys[k].day})
      <4> DEFINE months == {d \in Day : MonthOf(d) = keys[k].month}
                 days == {d \in Day : d = keys[k].day}
      <4>1. /\ {x \in Requests : KeyOf[x] = k /\ charged'[x] \in months} = ChargedIn(k, months)
            /\ {x \in Requests : KeyOf[x] = k /\ charged'[x] \in days} = ChargedIn(k, days)
        BY <3>2
      <4>2. /\ {d \in Day : MonthOf(d) = keys'[k].month} = months
            /\ {d \in Day : d = keys'[k].day} = days
        BY <3>1
      <4> HIDE DEF months, days
      <4> QED BY <4>1, <4>2 DEF ChargedIn, months, days
    <3>5. /\ keys'[k].spend = Total((ChargedIn(k, {d \in Day : MonthOf(d) = keys[k].month}))')
          /\ keys'[k].daily = Total((ChargedIn(k, {d \in Day : d = keys[k].day}))')
      BY <3>1, <3>3, <3>4
    <3>6. keys'[k].day <= day' /\ keys'[k].month = MonthOf(IF keys'[k].day = 0 THEN 1 ELSE keys'[k].day)
      BY <1>2, <3>1, <3>3
    <3> QED BY <3>5, <3>6, <3>1 DEF RowSums
  <2>2. CASE k = KeyOf[r]
    <3>1. keys'[k] = row
      BY <1>4, <2>2
    <3>2. ASSUME NEW days, day \in days
          PROVE  {x \in Requests : KeyOf[x] = k /\ charged'[x] \in days} =
                   ChargedIn(k, days) \cup {r}
      BY <1>1, <1>4, <2>2, <3>2 DEF ChargedIn
    <3>3. /\ {d \in Day : MonthOf(d) = row.month} = ThisMonth
          /\ {d \in Day : d = row.day} = {day}
          /\ day \in ThisMonth /\ day \in {day}
      BY <1>1, <1>3 DEF ThisMonth
    <3>4. /\ row.spend = Total({x \in Requests : KeyOf[x] = k /\ charged'[x] \in ThisMonth})
          /\ row.daily = Total({x \in Requests : KeyOf[x] = k /\ charged'[x] \in {day}})
      BY <1>3, <2>2, <3>2, <3>3
    <3>5. row.day # 0 /\ row.day <= day' /\ row.month = MonthOf(row.day)
      BY <1>1, <1>2, <1>3
    <3> QED BY <3>1, <3>3, <3>4, <3>5 DEF RowSums, ChargedIn
  <2> QED BY <2>1, <2>2
<1>6. ASSUME NEW x \in Requests
      PROVE  charged'[x] <= keys'[KeyOf[x]].day
  <2>1. KeyOf[x] \in Keys
    BY LedgerAssumption
  <2>2. charged[x] <= keys[KeyOf[x]].day /\ keys[KeyOf[x]].day <= day
    BY <2>1 DEF RowSumsCharges, RowSums
  <2>3. keys[KeyOf[x]].day \in Nat /\ charged[x] \in Nat
    BY <2>1, SomeDay DEF TypeOK, KeyRow
  <2> QED BY <1>1, <1>3, <1>4, <2>1, <2>2, <2>3
<1>7. IsFiniteSet(Units({x \in Requests : charged'[x] # 0}))
  <2>1. {x \in Requests : charged'[x] # 0} = {x \in Requests : charged[x] # 0} \cup {r}
    BY <1>1, <1>4
  <2>2. IsFiniteSet(Units({x \in Requests : charged[x] # 0}))
    BY DEF RowSumsCharges
  <2>3. {x \in Requests : charged[x] # 0} \in SUBSET Requests
    OBVIOUS
  <2> QED BY <1>1, <2>1, <2>2, <2>3, UnitsOfMore
<1> QED BY <1>5, <1>6, <1>7 DEF RowSumsCharges

LEMMA StepRows == TypeOK /\ HeldOnce /\ RowSumsCharges /\ [Next]_vars => RowSumsCharges'
<1> SUFFICES ASSUME TypeOK, HeldOnce, RowSumsCharges, [Next]_vars PROVE RowSumsCharges'
  OBVIOUS
<1>1. CASE Charge
  BY <1>1, ChargeRows
<1>2. CASE ~Charge
  <2>1. /\ charged' = charged /\ day' \in {day, day + 1}
        /\ keys' = keys \/ \E k \in Keys : RevokeKey(k)
    BY <1>2
    DEF Next, Admission, Work, ValidateKey, CheckBudget, CheckRateLimit, Upstream, Record,
        RevokeKey, Drain, Commit, CommitFails, ChargeFails, Persisted, Exit, Close, Restart,
        Midnight, vars
  <2>2. day \in Nat
    BY SomeDay DEF TypeOK
  <2>3. ASSUME NEW k \in Keys
        PROVE  /\ keys'[k].day = keys[k].day /\ keys'[k].month = keys[k].month
               /\ keys'[k].spend = keys[k].spend /\ keys'[k].daily = keys[k].daily
    <3>1. CASE \E x \in Keys : RevokeKey(x)
      <4>1. PICK x \in Keys : keys' = [keys EXCEPT ![x].active = FALSE]
        BY <3>1 DEF RevokeKey
      <4>2. keys'[k] = IF k = x THEN [keys[x] EXCEPT !.active = FALSE] ELSE keys[k]
        BY <4>1 DEF TypeOK
      <4>3. keys[k] \in KeyRow
        BY DEF TypeOK
      <4> QED BY <4>2, <4>3 DEF KeyRow
    <3> QED BY <2>1, <3>1
  <2> QED BY <2>1, <2>2, <2>3, RowsKept
<1> QED BY <1>1, <1>2

-----------------------------------------------------------------------------
(* A cap that is reached before a key is read stops its request. *)

LEMMA CapInRow ==
  ASSUME TypeOK, RowSumsCharges, NEW k \in Keys, CapReached(k)
  PROVE  OverBudget(Scanned(keys[k]), day)
<1>1. keys[k] \in KeyRow /\ day # 0
  BY SomeDay DEF TypeOK
<1>2. /\ MonthlySpendAt(Scanned(keys[k]), day) = MonthlySpendAt(keys[k], day)
      /\ DailySpendAt(Scanned(keys[k]), day) = DailySpendAt(keys[k], day)
  <2>1. /\ Scanned(keys[k]).spend = MonthlySpendAt(keys[k], day)
        /\ Scanned(keys[k]).month = MonthOf(day)
        /\ Scanned(keys[k]).daily = DailySpendAt(keys[k], day)
        /\ Scanned(keys[k]).day = day
    BY <1>1, ScannedIsRow
  <2> QED BY <2>1 DEF MonthlySpendAt, DailySpendAt
<1> QED BY <1>2, RowsMatch DEF CapReached, OverBudget

LEMMA StepCap == TypeOK /\ RowSumsCharges /\ CapShows /\ [Next]_vars => CapShows'
<1> SUFFICES ASSUME TypeOK, RowSumsCharges, CapShows, [Next]_vars, NEW r \in Requests
             PROVE  /\ request'[r].capped <= day'
                    /\ request'[r].pc = "read" /\ request'[r].capped = day' =>
                         OverBudget(request'[r].seen, day')
  BY DEF CapShows
<1>1. day \in Nat \ {0} /\ request[r].capped \in Nat /\ request[r].capped <= day
  BY SomeDay DEF TypeOK, CapShows
<1>2. CASE ValidateKey(r)
  <2>1. /\ request'[r].seen = Scanned(keys[KeyOf[r]])
        /\ request'[r].capped = IF CapReached(KeyOf[r]) THEN day ELSE 0
        /\ day' = day
    BY <1>2 DEF ValidateKey, TypeOK
  <2>2. KeyOf[r] \in Keys
    BY LedgerAssumption
  <2> QED BY <1>1, <2>1, <2>2, CapInRow
<1>3. CASE ~ValidateKey(r)
  <2>1. /\ request'[r].capped = request[r].capped /\ request'[r].seen = request[r].seen
        /\ request'[r].pc = "read" => request[r].pc = "read"
        /\ day' \in {day, day + 1}
    BY <1>3
    DEF Next, Admission, Work, ValidateKey, CheckBudget, CheckRateLimit, Upstream, Record,
        RevokeKey, Drain, Commit, CommitFails, Charge, ChargeFails, Persisted, Exit, Close,
        Restart, Midnight, vars, TypeOK
  <2>2. request'[r].capped = day' => day' = day
    BY <1>1, <2>1
  <2> QED BY <1>1, <2>1, <2>2 DEF CapShows
<1> QED BY <1>2, <1>3

-----------------------------------------------------------------------------

LEMMA InitInductive == Init => Inductive
<1>1. Init => CapShows
  BY DEF Init, CapShows
<1> QED BY <1>1, InitTypes, InitHeld, InitRows DEF Inductive

LEMMA StepInductive == Inductive /\ [Next]_vars => Inductive'
BY StepTypes, StepHeld, StepLogged, StepRows, StepCap DEF Inductive

LEMMA AlwaysInductive == Spec => []Inductive
BY InitInductive, StepInductive, PTL DEF Spec

\* The queue and the batch keep their bounds (ledger.go:139, 229-246).
THEOREM TypeCorrect == Spec => []TypeOK
<1>1. Inductive => TypeOK
  BY DEF Inductive
<1> QED BY <1>1, AlwaysInductive, PTL

\* A key's spend of the month and of the day is the cost of the records charged
\* in it (keys.go:54-71, 267-299).
THEOREM SpendIsCharged == Spec => []SpendMatchesCharges
<1>1. Inductive => SpendMatchesCharges
  BY RowsMatch DEF Inductive, SpendMatchesCharges
<1> QED BY <1>1, AlwaysInductive, PTL

\* Nothing is charged without its row in request_logs (ledger.go:185-225).
THEOREM ChargesAreLogged == Spec => []ChargedOnlyIfLogged
<1>1. Inductive => ChargedOnlyIfLogged
  BY DEF Inductive
<1> QED BY <1>1, AlwaysInductive, PTL

\* Once a cap is reached, no request that reads its key afterwards goes upstream
\* in the period (keys.go:181-218, quota.go:121-133).
THEOREM CappedKeysWait == Spec => BlockedOnceSpent
<1>1. Inductive /\ [Next]_vars =>
        [\A r \in Requests :
           request[r].pc = "read" /\ request'[r].pc = "allowed" =>
             request[r].capped # day]_vars
  <2> SUFFICES ASSUME Inductive, Next, NEW r \in Requests,
                      request[r].pc = "read", request'[r].pc = "allowed"
               PROVE  request[r].capped # day
    OBVIOUS
  <2>1. CheckBudget(r)
    BY DEF Next, Admission, Work, ValidateKey, CheckBudget, CheckRateLimit, Upstream, Record,
           RevokeKey, Drain, Commit, CommitFails, Charge, ChargeFails, Persisted, Exit, Close,
           Restart, Midnight, Inductive, TypeOK
  <2>2. ~OverBudget(request[r].seen, day)
    BY <2>1 DEF CheckBudget, Inductive, TypeOK
  <2> QED BY <2>2 DEF Inductive, CapShows
<1> QED BY <1>1, AlwaysInductive, PTL DEF Spec, BlockedOnceSpent
=============================================================================
