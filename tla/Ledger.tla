------------------------------- MODULE Ledger -------------------------------
(***************************************************************************)
(* Virtual keys and the spend ledger (internal/ledger, middleware/auth.go): *)
(* a request is admitted on the spend its key was read with, and is charged *)
(* much later, when the ledger's worker has taken its record from the       *)
(* queue, written the batch's rows in one transaction and then applied each *)
(* written row's cost to its key.                                           *)
(*                                                                         *)
(* Spend is counted per calendar month and per day.  The clock is the day;  *)
(* the database has a single connection, so each statement is one step.     *)
(***************************************************************************)
EXTENDS Integers, Sequences, FiniteSets

CONSTANTS
  Requests, Keys,
  KeyOf,         \* the virtual key each request comes with
  Cost,          \* what the upstream call of a request costs
  MonthlyBudget, DailyBudget, \* of every key; 0 is no cap
  MonthLength,   \* days in a month
  QueueCap,      \* of logChan, 2048
  MaxBatch,      \* maxLogBatch, 256
  MaxDay         \* bound: the clock stops here

ASSUME LedgerAssumption ==
  /\ KeyOf \in [Requests -> Keys]
  /\ Cost \in [Requests -> Nat \ {0}]
  /\ MonthlyBudget \in Nat /\ DailyBudget \in Nat
  /\ MonthLength \in Nat \ {0}
  /\ QueueCap \in Nat \ {0} /\ MaxBatch \in Nat \ {0}
  /\ MaxDay \in Nat \ {0}

VARIABLES
  keys,    \* the rows of api_keys
  request, \* how far each request has come and what it has read of its key;
           \* history: the day of the reading, if a cap had been reached by then
  queue,   \* logChan: the requests whose records wait
  worker,  \* "idle", "insert", "charge", "exited"
  batch,   \* the records in the worker's hands
  closing, \* the quit channel is closed
  rows,    \* request_logs: the requests with a row
  charged, \* history: the day each charge was applied, 0 for none
  day

vars == <<keys, request, queue, worker, batch, closing, rows, charged, day>>

Day == 1 .. MaxDay

MonthOf(d) == (d - 1) \div MonthLength + 1

\* A row of api_keys; day and month 0 stand for the empty text.
KeyRow == [active : BOOLEAN, spend : Nat, month : Nat, daily : Nat, day : Nat]

Places == {"new", "read", "allowed", "blocked", "rejected", "answered", "done"}

TypeOK ==
  /\ keys \in [Keys -> KeyRow]
  /\ request \in [Requests -> [pc : Places, seen : KeyRow, capped : Day \cup {0}]]
  /\ queue \in Seq(Requests) /\ Len(queue) <= QueueCap
  /\ worker \in {"idle", "insert", "charge", "exited"}
  /\ batch \in Seq(Requests) /\ Len(batch) <= MaxBatch
  /\ closing \in BOOLEAN
  /\ rows \subseteq Requests
  /\ charged \in [Requests -> Day \cup {0}]
  /\ day \in Day

\* CreateKeyWithOptions, on the first day.
NewKey ==
  [active |-> TRUE, spend |-> 0, month |-> MonthOf(1), daily |-> 0, day |-> 0]

Init ==
  /\ keys = [k \in Keys |-> NewKey]
  /\ request = [r \in Requests |-> [pc |-> "new", seen |-> NewKey, capped |-> 0]]
  /\ queue = <<>> /\ worker = "idle" /\ batch = <<>> /\ closing = FALSE
  /\ rows = {} /\ charged = [r \in Requests |-> 0]
  /\ day = 1

-----------------------------------------------------------------------------
(* The charges, as history tells them. *)

\* What requests cost together, counted unit by unit.
Units(requests) == UNION {{r} \X (1 .. Cost[r]) : r \in requests}

Total(requests) == Cardinality(Units(requests))

ChargedIn(k, days) == {r \in Requests : KeyOf[r] = k /\ charged[r] \in days}

ThisMonth == {d \in Day : MonthOf(d) = MonthOf(day)}

\* The charges of the month, or of the day, have reached their cap.
CapReached(k) ==
  \/ MonthlyBudget > 0 /\ Total(ChargedIn(k, ThisMonth)) >= MonthlyBudget
  \/ DailyBudget > 0 /\ Total(ChargedIn(k, {day})) >= DailyBudget

-----------------------------------------------------------------------------
(* Admission: NewAuth, then the budget check of the proxy. *)

\* The spend of the month, or day, that d is in.
MonthlySpendAt(key, d) ==
  IF key.month # 0 /\ key.month # MonthOf(d) THEN 0 ELSE key.spend

DailySpendAt(key, d) == IF key.day # 0 /\ key.day # d THEN 0 ELSE key.daily

\* scanKey: spend of an earlier period is read as none of the current one.
Scanned(key) ==
  [active |-> key.active, spend |-> MonthlySpendAt(key, day), month |-> MonthOf(day),
   daily |-> DailySpendAt(key, day), day |-> day]

ValidateKey(r) ==
  /\ request[r].pc = "new"
  /\ LET key == keys[KeyOf[r]]
     IN  request' = [request EXCEPT ![r] =
           [pc |-> IF key.active THEN "read" ELSE "rejected", seen |-> Scanned(key),
            capped |-> IF CapReached(KeyOf[r]) THEN day ELSE 0]]
  /\ UNCHANGED <<keys, queue, worker, batch, closing, rows, charged, day>>

\* Mutant: a budget may be reached, and is enforced once it is exceeded.
ExceedsBudget(key, d) ==
  \/ MonthlyBudget > 0 /\ MonthlySpendAt(key, d) > MonthlyBudget
  \/ DailyBudget > 0 /\ DailySpendAt(key, d) > DailyBudget

OverBudget(key, d) ==
  \/ MonthlyBudget > 0 /\ MonthlySpendAt(key, d) >= MonthlyBudget
  \/ DailyBudget > 0 /\ DailySpendAt(key, d) >= DailyBudget

\* CheckBudget, on the key as it was read; the rate limit may reject it first.
CheckBudget(r) ==
  /\ request[r].pc = "read"
  /\ request' = [request EXCEPT ![r].pc =
       IF OverBudget(request[r].seen, day) THEN "blocked" ELSE "allowed"]
  /\ UNCHANGED <<keys, queue, worker, batch, closing, rows, charged, day>>

CheckRateLimit(r) ==
  /\ request[r].pc = "read"
  /\ request' = [request EXCEPT ![r].pc = "rejected"]
  /\ UNCHANGED <<keys, queue, worker, batch, closing, rows, charged, day>>

\* The upstream replies, and the reply costs, or the upstream fails.
Upstream(r) ==
  /\ request[r].pc = "allowed"
  /\ \E pc \in {"answered", "rejected"} : request' = [request EXCEPT ![r].pc = pc]
  /\ UNCHANGED <<keys, queue, worker, batch, closing, rows, charged, day>>

\* Mutant: a full queue takes one more record.
QueuedAnyway(r) == Append(queue, r)

\* Queueing never blocks: a full queue drops the record.
Queued(r) == IF Len(queue) < QueueCap THEN Append(queue, r) ELSE queue

Record(r) ==
  /\ request[r].pc = "answered"
  /\ request' = [request EXCEPT ![r].pc = "done"]
  /\ queue' = Queued(r)
  /\ UNCHANGED <<keys, worker, batch, closing, rows, charged, day>>

\* RevokeKey
RevokeKey(k) ==
  /\ keys' = [keys EXCEPT ![k].active = FALSE]
  /\ UNCHANGED <<request, queue, worker, batch, closing, rows, charged, day>>

-----------------------------------------------------------------------------
(* The ledger's worker *)

Drainable == IF Len(queue) < MaxBatch THEN Len(queue) ELSE MaxBatch

\* The first record, then what the queue holds up to a batch.
Drain ==
  /\ worker = "idle" /\ queue # <<>>
  /\ batch' = SubSeq(queue, 1, Drainable)
  /\ queue' = SubSeq(queue, Drainable + 1, Len(queue))
  /\ worker' = "insert"
  /\ UNCHANGED <<keys, request, closing, rows, charged, day>>

RecordsOf(records) == {records[i] : i \in 1 .. Len(records)}

\* Any n of the places of a sequence, in their order.
Subsequences(n, records) ==
  {at \in [1 .. n -> 1 .. Len(records)] : \A i, j \in 1 .. n : i < j => at[i] < at[j]}

\* Mutant: the rows that could not be inserted are charged as well.
AllOf(records, at) == records

\* The records that were inserted, in the order of the batch.
Written(records, at) == [i \in DOMAIN at |-> records[at[i]]]

\* persistBatch: some inserts may fail; the rest commit together.
Commit ==
  /\ worker = "insert"
  /\ \E n \in 0 .. Len(batch) : \E at \in Subsequences(n, batch) :
       /\ rows' = rows \cup {batch[at[i]] : i \in 1 .. n}
       /\ batch' = Written(batch, at)
  /\ worker' = "charge"
  /\ UNCHANGED <<keys, request, queue, closing, charged, day>>

\* The transaction cannot begin, or cannot commit: the batch is lost.
CommitFails ==
  /\ worker = "insert"
  /\ batch' = <<>> /\ worker' = "idle"
  /\ UNCHANGED <<keys, request, queue, closing, rows, charged, day>>

\* Mutant: a new month does not restart the monthly counter.
NeverRestarted(key, cost) ==
  [active |-> key.active, spend |-> key.spend + cost, month |-> MonthOf(day),
   daily |-> IF key.day = day THEN key.daily + cost ELSE cost, day |-> day]

\* The UPDATE of UpdateSpend: a counter whose period has ended restarts at the cost.
Spent(key, cost) ==
  [active |-> key.active,
   spend |-> IF key.month = MonthOf(day) THEN key.spend + cost ELSE cost,
   month |-> MonthOf(day),
   daily |-> IF key.day = day THEN key.daily + cost ELSE cost,
   day |-> day]

\* The next record to charge, and what is left of the batch.
Charge ==
  /\ worker = "charge" /\ batch # <<>>
  /\ LET r == Head(batch)
     IN  /\ keys' = [keys EXCEPT ![KeyOf[r]] = Spent(@, Cost[r])]
         /\ charged' = [charged EXCEPT ![r] = day]
  /\ batch' = Tail(batch)
  /\ UNCHANGED <<request, queue, worker, closing, rows, day>>

\* An UpdateSpend that fails, or comes after the batch's timeout, is not retried.
ChargeFails ==
  /\ worker = "charge" /\ batch # <<>>
  /\ batch' = Tail(batch)
  /\ UNCHANGED <<keys, request, queue, worker, closing, rows, charged, day>>

Persisted ==
  /\ worker = "charge" /\ batch = <<>>
  /\ worker' = "idle"
  /\ UNCHANGED <<keys, request, queue, batch, closing, rows, charged, day>>

Close ==
  /\ ~closing
  /\ closing' = TRUE
  /\ UNCHANGED <<keys, request, queue, worker, batch, rows, charged, day>>

\* Mutant: the worker leaves with its next record unread.
LeavesAtOnce == closing

Drained == closing /\ queue = <<>>

Exit ==
  /\ worker = "idle" /\ Drained
  /\ worker' = "exited"
  /\ UNCHANGED <<keys, request, queue, batch, closing, rows, charged, day>>

\* The process ends, early or after Close, and starts again; its requests are lost.
Restart ==
  /\ queue' = <<>> /\ batch' = <<>> /\ worker' = "idle" /\ closing' = FALSE
  /\ request' = [r \in Requests |->
       IF request[r].pc \in {"read", "allowed", "blocked", "answered"}
       THEN [request[r] EXCEPT !.pc = "rejected"] ELSE request[r]]
  /\ UNCHANGED <<keys, rows, charged, day>>

Midnight ==
  /\ day < MaxDay
  /\ day' = day + 1
  /\ UNCHANGED <<keys, request, queue, worker, batch, closing, rows, charged>>

Admission(r) ==
  ValidateKey(r) \/ CheckBudget(r) \/ CheckRateLimit(r) \/ Upstream(r) \/ Record(r)

Work == Drain \/ Commit \/ CommitFails \/ Charge \/ ChargeFails \/ Persisted \/ Exit

Next ==
  \/ \E r \in Requests : Admission(r)
  \/ \E k \in Keys : RevokeKey(k)
  \/ Work
  \/ Close \/ Restart \/ Midnight

Spec == Init /\ [][Next]_vars

\* The worker is a goroutine of its own; its statements end by the batch's timeout.
FairSpec == Spec /\ WF_vars(Work)

-----------------------------------------------------------------------------
\* However charges, readings and period ends interleave, and whichever inserts,
\* updates and commits fail, a key's spend of the month and of the day is the
\* cost of the records charged in it: none is charged twice or carried over.
SpendMatchesCharges ==
  \A k \in Keys :
    /\ MonthlySpendAt(keys[k], day) = Total(ChargedIn(k, ThisMonth))
    /\ DailySpendAt(keys[k], day) = Total(ChargedIn(k, {day}))

\* A charge has its row in request_logs, whatever the batch it came in suffered.
ChargedOnlyIfLogged == \A r \in Requests : charged[r] # 0 => r \in rows

\* Once the charges of a period have reached a cap, no request whose key is read
\* after that goes upstream in the period: overspend is by requests in flight.
BlockedOnceSpent ==
  [][\A r \in Requests :
       request[r].pc = "read" /\ request'[r].pc = "allowed" => request[r].capped # day]_vars

\* The worker's own bookkeeping: a record it holds or will take is one answered
\* request's, is held once, and has not been charged.
Waiting(r) == r \in RecordsOf(queue) \/ r \in RecordsOf(batch)

HeldOnce ==
  /\ \A r \in Requests :
       Waiting(r) => request[r].pc = "done" /\ charged[r] = 0
  /\ \A r \in Requests : charged[r] # 0 => request[r].pc = "done"
  /\ \A i, j \in 1 .. Len(queue) : queue[i] = queue[j] => i = j
  /\ \A i, j \in 1 .. Len(batch) : batch[i] = batch[j] => i = j
  /\ RecordsOf(queue) \cap RecordsOf(batch) = {}

\* What is charged next has been committed.
BatchLogged == worker = "charge" => RecordsOf(batch) \subseteq rows

\* A row of api_keys sums the charges of its own periods.
RowSums(k) ==
  LET key == keys[k]
  IN  /\ key.day <= day
      /\ key.month = MonthOf(IF key.day = 0 THEN 1 ELSE key.day)
      /\ key.spend = Total(ChargedIn(k, {d \in Day : MonthOf(d) = key.month}))
      /\ key.daily = Total(ChargedIn(k, {d \in Day : d = key.day}))

\* No charge is later than the row of its key.
RowSumsCharges ==
  /\ \A k \in Keys : RowSums(k)
  /\ \A r \in Requests : charged[r] <= keys[KeyOf[r]].day
  /\ IsFiniteSet(Units({r \in Requests : charged[r] # 0}))

\* A cap that was reached when a key was read shows in what was read.
CapShows ==
  \A r \in Requests :
    /\ request[r].capped <= day
    /\ request[r].pc = "read" /\ request[r].capped = day => OverBudget(request[r].seen, day)

Inductive ==
  TypeOK /\ HeldOnce /\ BatchLogged /\ ChargedOnlyIfLogged /\ RowSumsCharges /\ CapShows

\* A record that was queued before Close reaches the worker, however long the
\* queue is kept filled and whenever the ledger is closed.
QueuedIsTaken ==
  \A r \in Requests :
    r \in RecordsOf(queue) /\ ~closing ~> r \notin RecordsOf(queue)
=============================================================================
