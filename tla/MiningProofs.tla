---------------------------- MODULE MiningProofs ----------------------------
(***************************************************************************)
(* Whatever sessions overlap, and however many workers they have: the one   *)
(* that is called running can be stopped, and what a session reports adds up.*)
(***************************************************************************)
EXTENDS Mining, FiniteSetTheorems, TLAPS

BusyPlaces == {"lock", "ticket", "call", "backoff", "insert", "done"}

-----------------------------------------------------------------------------
(* The states of a worker. *)

LEMMA WorkerShapes ==
  ASSUME NEW me \in Worker
  PROVE  /\ me.pc \in BusyPlaces \cup {"idle", "exited"}
         /\ me.pc = "call" => me.attempt \in 0 .. MaxRetries
         /\ me.pc = "backoff" => me.attempt \in 0 .. MaxRetries - 1
         /\ me.pc = "insert" => me.left \in 1 .. Inserts
         /\ me.pc = "done" => me.failed \in BOOLEAN
BY DEF Worker, BusyPlaces

LEMMA NewWorkers ==
  /\ Idle \in Worker /\ Idle.pc = "idle" /\ Exited \in Worker /\ Exited.pc = "exited"
  /\ [pc |-> "lock"] \in Worker /\ [pc |-> "ticket"] \in Worker
  /\ \A n \in 0 .. MaxRetries : Calling(n) \in Worker /\ Calling(n).pc = "call"
  /\ \A n \in 0 .. MaxRetries - 1 : BackingOff(n) \in Worker /\ BackingOff(n).pc = "backoff"
  /\ \A n \in 1 .. Inserts : Inserting(n) \in Worker /\ Inserting(n).pc = "insert"
  /\ \A f \in BOOLEAN : Outcome(f) \in Worker /\ Outcome(f).pc = "done"
BY DEF Worker, Idle, Exited, Outcome, Calling, BackingOff, Inserting

\* What a session becomes when one of its workers does.
WithWorker(x, w, state) == [x EXCEPT !.worker = [@ EXCEPT ![w] = state]]

LEMMA WithWorkerFields ==
  ASSUME NEW x \in Session, NEW w \in Workers, NEW state \in Worker
  PROVE  LET y == WithWorker(x, w, state)
         IN  /\ y \in Session
             /\ y.worker = [x.worker EXCEPT ![w] = state] /\ y.worker \in [Workers -> Worker]
             /\ y.phase = x.phase /\ y.canceled = x.canceled /\ y.jobs = x.jobs
             /\ y.own = x.own /\ y.lone = x.lone /\ y.verdict = x.verdict
BY DEF Session, WithWorker

\* How the set of the busy ones follows.
LEMMA BusyCount ==
  ASSUME NEW x \in Session, NEW y \in Session, NEW w \in Workers, NEW state \in Worker,
         y.worker = [x.worker EXCEPT ![w] = state]
  PROVE  /\ Cardinality(Busy(x)) \in Nat
         /\ state.pc \in BusyPlaces /\ x.worker[w].pc \in BusyPlaces =>
              Cardinality(Busy(y)) = Cardinality(Busy(x))
         /\ state.pc \notin BusyPlaces /\ x.worker[w].pc \notin BusyPlaces =>
              Cardinality(Busy(y)) = Cardinality(Busy(x))
         /\ state.pc \in BusyPlaces /\ x.worker[w].pc \notin BusyPlaces =>
              Cardinality(Busy(y)) = Cardinality(Busy(x)) + 1
         /\ state.pc \notin BusyPlaces /\ x.worker[w].pc \in BusyPlaces =>
              Cardinality(Busy(y)) = Cardinality(Busy(x)) - 1
<1>1. x.worker \in [Workers -> Worker]
  BY DEF Session
<1>2. IsFiniteSet(Busy(x)) /\ Cardinality(Busy(x)) \in Nat
  <2>1. Busy(x) \subseteq Workers
    BY DEF Busy
  <2> QED BY <2>1, MiningAssumption, FS_Subset, FS_CardinalityType
<1>3. w \in Busy(x) <=> x.worker[w].pc \in BusyPlaces
  BY DEF Busy, BusyPlaces
<1>4. state.pc \in BusyPlaces => Busy(y) = Busy(x) \cup {w}
  BY <1>1 DEF Busy, BusyPlaces
<1>5. state.pc \notin BusyPlaces => Busy(y) = Busy(x) \ {w}
  BY <1>1 DEF Busy, BusyPlaces
<1>6. w \in Busy(x) => Busy(x) \cup {w} = Busy(x)
  OBVIOUS
<1>7. w \notin Busy(x) => Busy(x) \ {w} = Busy(x)
  OBVIOUS
<1>8. w \notin Busy(x) => Cardinality(Busy(x) \cup {w}) = Cardinality(Busy(x)) + 1
  BY <1>2, FS_AddElement
<1>9. w \in Busy(x) => Cardinality(Busy(x) \ {w}) = Cardinality(Busy(x)) - 1
  BY <1>2, FS_RemoveElement
<1> QED BY <1>2, <1>3, <1>4, <1>5, <1>6, <1>7, <1>8, <1>9

-----------------------------------------------------------------------------
(* The steps of a worker. *)

LEMMA Known ==
  ASSUME Inductive, NEW s \in SessionId
  PROVE  /\ session[s] \in Session /\ Accounted(session[s])
         /\ session[s].worker \in [Workers -> Worker]
         /\ session[s].jobs \in 0 .. Total /\ session[s].canceled \in BOOLEAN
         /\ session[s].own.completed \in Nat /\ session[s].own.errors \in Nat
         /\ session[s].own \in Counts
BY DEF Inductive, TypeOK, Session, Counts

\* A session that goes on mining disturbs no other and keeps its place.
LEMMA MiningKeeps ==
  ASSUME Inductive, NEW s \in SessionId, NEW x \in Session,
         session' = [session EXCEPT ![s] = x],
         session[s].phase = "mining", x.phase = "mining",
         x.canceled = session[s].canceled, x.lone = session[s].lone,
         Accounted(x), UNCHANGED <<status, cancelFunc>>, stats' \in Counts
  PROVE  Inductive'
<1>1. TypeOK /\ StoppableWhileRunning /\ Managed /\ \A u \in SessionId : Accounted(session[u])
  BY DEF Inductive
<1>2. TypeOK'
  BY <1>1 DEF TypeOK
<1>3. \A u \in SessionId : session'[u] = IF u = s THEN x ELSE session[u]
  BY <1>1 DEF TypeOK
<1>4. \A u \in SessionId : Alive(u)' <=> Alive(u)
  BY <1>3 DEF Alive
<1>5. \A u \in SessionId : Accounted(session'[u])
  BY <1>1, <1>3
<1>6. StoppableWhileRunning'
  <2>1. SUFFICES ASSUME status = "running"
                 PROVE  cancelFunc # 0 /\ Alive(cancelFunc)' /\ ~session'[cancelFunc].canceled
    BY DEF StoppableWhileRunning
  <2>2. cancelFunc # 0 /\ Alive(cancelFunc) /\ ~session[cancelFunc].canceled
    BY <1>1, <2>1 DEF StoppableWhileRunning
  <2>3. cancelFunc \in SessionId
    BY <1>1, <2>2, MiningAssumption DEF TypeOK, SessionId
  <2> QED BY <1>3, <1>4, <2>2, <2>3
<1>7. Managed'
  <2>1. SUFFICES ASSUME NEW u \in SessionId, session'[u].lone, Alive(u)'
                 PROVE  /\ cancelFunc' = u
                        /\ status' = "running" \/ (status' = "stopping" /\ session'[u].canceled)
                        /\ \A v \in SessionId \ {u} : ~Alive(v)'
                        /\ session'[u].phase = "final" => stats' = session'[u].own
    BY DEF Managed
  <2>2. session[u].lone /\ Alive(u) /\ session'[u].canceled = session[u].canceled
    BY <1>3, <1>4, <2>1
  <2>3. /\ cancelFunc = u /\ \A v \in SessionId \ {u} : ~Alive(v)
        /\ status = "running" \/ (status = "stopping" /\ session[u].canceled)
    BY <1>1, <2>2 DEF Managed
  <2>4. Alive(s)
    BY DEF Alive
  <2>5. u = s
    BY <2>3, <2>4
  <2> QED BY <1>3, <1>4, <2>2, <2>3, <2>5
<1> QED BY <1>2, <1>5, <1>6, <1>7 DEF Inductive, Accounted, Busy

\* A worker that keeps its job, or leaves when there is none, keeps the account.
LEMMA SameAccount ==
  ASSUME Inductive, NEW s \in SessionId, NEW w \in Workers, NEW state \in Worker,
         At(s, w, session[s].worker[w].pc), Becomes(s, w, state),
         UNCHANGED <<status, cancelFunc, stats>>,
         \/ state.pc \in BusyPlaces /\ session[s].worker[w].pc \in BusyPlaces
         \/ state.pc = "exited" /\ session[s].canceled
         \/ state.pc = "exited" /\ session[s].worker[w].pc = "idle" /\ session[s].jobs = 0
  PROVE  Inductive'
<1> DEFINE x == session[s]
           y == WithWorker(x, w, state)
<1>1. /\ x \in Session /\ Accounted(x) /\ x.phase = "mining" /\ x.canceled \in BOOLEAN
      /\ x.jobs \in Nat /\ x.own.completed \in Nat /\ x.own.errors \in Nat
  BY Known DEF At
<1>2. session' = [session EXCEPT ![s] = y]
  BY DEF Becomes, WithWorker, Inductive, TypeOK
<1>3. /\ y \in Session /\ y.phase = x.phase /\ y.canceled = x.canceled /\ y.jobs = x.jobs
      /\ y.own = x.own /\ y.lone = x.lone
      /\ y.worker = [x.worker EXCEPT ![w] = state] /\ x.worker \in [Workers -> Worker]
  BY <1>1, WithWorkerFields, Known
<1>4. ~x.canceled => Cardinality(Busy(y)) = Cardinality(Busy(x))
  BY <1>1, <1>3, BusyCount DEF BusyPlaces
<1>5. ~x.canceled => \A v \in Workers : y.worker[v].pc = "exited" => x.jobs = 0
  <2>1. state.pc \in BusyPlaces => state.pc # "exited"
    BY DEF BusyPlaces
  <2> HIDE DEF y
  <2>2. \A v \in Workers : y.worker[v] = x.worker[v] \/ (v = w /\ y.worker[v] = state)
    BY <1>3
  <2> QED BY <1>1, <2>1, <2>2 DEF Accounted
<1>6. Accounted(y)
  <2> HIDE DEF y
  <2> QED BY <1>1, <1>3, <1>4, <1>5 DEF Accounted
<1>7. stats' \in Counts
  BY DEF Inductive, TypeOK
<1> HIDE DEF y
<1> QED BY <1>1, <1>2, <1>3, <1>6, <1>7, MiningKeeps

LEMMA JobSteps ==
  ASSUME Inductive, NEW s \in SessionId, NEW w \in Workers,
         Lock(s, w) \/ Ticket(s, w) \/ Call(s, w) \/ Backoff(s, w) \/ InsertRow(s, w)
  PROVE  Inductive'
<1> DEFINE me == session[s].worker[w]
<1>1. me \in Worker /\ MaxRetries \in Nat /\ Inserts \in Nat \ {0}
  BY Known, MiningAssumption
<1>2. CASE Lock(s, w)
  BY <1>2, NewWorkers, SameAccount DEF Lock, At, BusyPlaces
<1>3. CASE Ticket(s, w)
  <2>1. At(s, w, "ticket") /\ me.pc = "ticket" /\ UNCHANGED <<status, cancelFunc, stats>>
    BY <1>3 DEF Ticket, At
  <2>2. \/ Becomes(s, w, Calling(0))
        \/ session[s].canceled /\ Becomes(s, w, Exited)
    BY <1>3 DEF Ticket
  <2>3. Calling(0) \in Worker /\ Calling(0).pc = "call"
    BY <1>1, NewWorkers
  <2> QED BY <2>1, <2>2, <2>3, NewWorkers, SameAccount DEF BusyPlaces
<1>4. CASE Call(s, w)
  <2>1. At(s, w, "call") /\ me.pc = "call" /\ UNCHANGED <<status, cancelFunc, stats>>
    BY <1>4 DEF Call, At
  <2>2. \/ Becomes(s, w, Inserting(Inserts))
        \/ Becomes(s, w, Outcome(TRUE))
        \/ me.attempt < MaxRetries /\ Becomes(s, w, BackingOff(me.attempt))
    BY <1>4 DEF Call, Retried
  <2>3. /\ Inserting(Inserts) \in Worker /\ Inserting(Inserts).pc = "insert"
        /\ Outcome(TRUE) \in Worker /\ Outcome(TRUE).pc = "done"
    <3>1. Inserts \in 1 .. Inserts
      BY <1>1
    <3> QED BY <3>1, NewWorkers
  <2>4. me.attempt < MaxRetries =>
          BackingOff(me.attempt) \in Worker /\ BackingOff(me.attempt).pc = "backoff"
    <3>1. me.attempt \in 0 .. MaxRetries
      BY <1>1, <2>1, WorkerShapes
    <3>2. me.attempt < MaxRetries => me.attempt \in 0 .. MaxRetries - 1
      BY <1>1, <3>1
    <3> QED BY <3>2, NewWorkers
  <2> QED BY <2>1, <2>2, <2>3, <2>4, SameAccount DEF BusyPlaces
<1>5. CASE Backoff(s, w)
  <2>1. At(s, w, "backoff") /\ me.pc = "backoff" /\ UNCHANGED <<status, cancelFunc, stats>>
    BY <1>5 DEF Backoff, At
  <2>2. \/ Becomes(s, w, Calling(me.attempt + 1))
        \/ Becomes(s, w, Outcome(TRUE))
    BY <1>5 DEF Backoff, NextAttempt
  <2>3. me.attempt + 1 \in 0 .. MaxRetries
    <3>1. me.attempt \in 0 .. MaxRetries - 1
      BY <1>1, <2>1, WorkerShapes
    <3> QED BY <1>1, <3>1
  <2>4. Calling(me.attempt + 1) \in Worker /\ Calling(me.attempt + 1).pc = "call"
    BY <2>3, NewWorkers
  <2> QED BY <2>1, <2>2, <2>4, NewWorkers, SameAccount DEF BusyPlaces
<1>6. CASE InsertRow(s, w)
  <2>1. At(s, w, "insert") /\ me.pc = "insert" /\ UNCHANGED <<status, cancelFunc, stats>>
    BY <1>6 DEF InsertRow, At
  <2>2. \/ Becomes(s, w, Outcome(FALSE))
        \/ me.left # 1 /\ Becomes(s, w, Inserting(me.left - 1))
    BY <1>6 DEF InsertRow
  <2>3. me.left # 1 => me.left - 1 \in 1 .. Inserts
    <3>1. me.left \in 1 .. Inserts
      BY <1>1, <2>1, WorkerShapes
    <3> QED BY <1>1, <3>1
  <2>4. me.left # 1 => /\ Inserting(me.left - 1) \in Worker
                       /\ Inserting(me.left - 1).pc = "insert"
    BY <2>3, NewWorkers
  <2>5. Outcome(FALSE) \in Worker /\ Outcome(FALSE).pc = "done"
    BY NewWorkers
  <2> QED BY <2>1, <2>2, <2>4, <2>5, SameAccount DEF BusyPlaces
<1> QED BY <1>2, <1>3, <1>4, <1>5, <1>6

\* The steps that move a job: from the dispatcher to a worker, and to the account.
LEMMA TakeKeeps ==
  ASSUME Inductive, NEW s \in SessionId, NEW w \in Workers, Take(s, w)
  PROVE  Inductive'
<1> DEFINE x == session[s]
<1>1. /\ x \in Session /\ Accounted(x) /\ x.phase = "mining" /\ x.canceled \in BOOLEAN
      /\ x.jobs \in 0 .. Total /\ x.own.completed \in Nat /\ x.own.errors \in Nat
      /\ x.worker[w].pc = "idle" /\ UNCHANGED <<status, cancelFunc, stats>>
  BY Known DEF Take, At
<1>2. CASE (x.canceled \/ x.jobs = 0) /\ Becomes(s, w, Exited)
  BY <1>1, <1>2, SameAccount, NewWorkers DEF Take, At
<1>3. CASE /\ x.jobs > 0
           /\ session' = [session EXCEPT ![s].jobs = @ - 1, ![s].worker[w] = [pc |-> "lock"]]
  <2> DEFINE y == WithWorker(x, w, [pc |-> "lock"])
             z == [y EXCEPT !.jobs = x.jobs - 1]
  <2>1. session' = [session EXCEPT ![s] = z]
    BY <1>3 DEF WithWorker, Inductive, TypeOK
  <2>2. /\ y \in Session /\ y.worker = [x.worker EXCEPT ![w] = [pc |-> "lock"]]
        /\ y.phase = x.phase /\ y.canceled = x.canceled /\ y.own = x.own /\ y.lone = x.lone
        /\ [pc |-> "lock"] \in Worker /\ x.worker \in [Workers -> Worker]
    BY <1>1, WithWorkerFields, NewWorkers, Known
  <2> HIDE DEF y
  <2>3. Total \in Nat /\ x.jobs - 1 \in 0 .. Total
    BY <1>1, <1>3, MiningAssumption
  <2>4. /\ z \in Session /\ z.worker = y.worker /\ z.jobs = x.jobs - 1
        /\ z.phase = y.phase /\ z.canceled = y.canceled /\ z.own = y.own /\ z.lone = y.lone
    BY <2>2, <2>3 DEF Session
  <2> HIDE DEF z
  <2>5. /\ Cardinality(Busy(x)) \in Nat
        /\ Cardinality(Busy(z)) = Cardinality(Busy(x)) + 1
    BY <1>1, <2>2, <2>4, BusyCount DEF BusyPlaces
  <2>6. ~x.canceled => \A v \in Workers : z.worker[v].pc # "exited"
    <3>1. ~x.canceled => \A v \in Workers : x.worker[v].pc = "exited" => x.jobs = 0
      BY <1>1 DEF Accounted
    <3>2. \A v \in Workers : z.worker[v] = x.worker[v] \/ z.worker[v] = [pc |-> "lock"]
      BY <2>2, <2>4
    <3> QED BY <1>1, <1>3, <3>1, <3>2
  <2>7. ~x.canceled =>
          z.jobs + Cardinality(Busy(z)) + z.own.completed + z.own.errors = Total
    BY <1>1, <2>2, <2>4, <2>5 DEF Accounted
  <2>8. Accounted(z)
    BY <1>1, <2>2, <2>4, <2>6, <2>7 DEF Accounted
  <2>9. stats' \in Counts
    BY <1>1 DEF Inductive, TypeOK
  <2> QED BY <1>1, <2>1, <2>2, <2>4, <2>8, <2>9, MiningKeeps
<1> QED BY <1>2, <1>3 DEF Take

LEMMA CountsOnce ==
  ASSUME NEW own \in Counts, NEW failed \in BOOLEAN
  PROVE  /\ Counted(own, failed) \in Counts
         /\ Counted(own, failed).completed + Counted(own, failed).errors
              = own.completed + own.errors + 1
         /\ CompletedAnyway(own, failed) \in Counts
BY DEF Counts, Counted, CompletedAnyway

LEMMA DoneKeeps ==
  ASSUME Inductive, NEW s \in SessionId, NEW w \in Workers, Done(s, w)
  PROVE  Inductive'
<1> DEFINE x == session[s]
           failed == x.worker[w].failed
           y == WithWorker(x, w, Idle)
           z == [y EXCEPT !.own = Counted(x.own, failed)]
<1>1. /\ x \in Session /\ Accounted(x) /\ x.phase = "mining" /\ x.canceled \in BOOLEAN
      /\ x.jobs \in Nat /\ x.own \in Counts
      /\ x.own.completed \in Nat /\ x.own.errors \in Nat
      /\ x.worker[w].pc = "done" /\ UNCHANGED <<status, cancelFunc>>
  BY Known DEF Done, At
<1>2. failed \in BOOLEAN
  BY <1>1, WorkerShapes, Known
<1>3. session' = [session EXCEPT ![s] = z]
  BY DEF Done, WithWorker, Inductive, TypeOK
<1>4. stats' \in Counts
  BY <1>2, CountsOnce DEF Done, Inductive, TypeOK
<1> HIDE DEF failed
<1>5. /\ Counted(x.own, failed) \in Counts
      /\ Counted(x.own, failed).completed + Counted(x.own, failed).errors
           = x.own.completed + x.own.errors + 1
      /\ Counted(x.own, failed).completed \in Nat /\ Counted(x.own, failed).errors \in Nat
  BY <1>1, <1>2, CountsOnce DEF Counts
<1>6. /\ y \in Session /\ y.worker = [x.worker EXCEPT ![w] = Idle]
      /\ y.phase = x.phase /\ y.canceled = x.canceled /\ y.jobs = x.jobs /\ y.lone = x.lone
      /\ Idle \in Worker /\ Idle.pc = "idle" /\ x.worker \in [Workers -> Worker]
  BY <1>1, WithWorkerFields, NewWorkers, Known
<1> HIDE DEF y
<1>7. /\ z \in Session /\ z.worker = y.worker /\ z.own = Counted(x.own, failed)
      /\ z.phase = y.phase /\ z.canceled = y.canceled /\ z.jobs = y.jobs /\ z.lone = y.lone
  BY <1>5, <1>6 DEF Session
<1> HIDE DEF z
<1>8. /\ Cardinality(Busy(x)) \in Nat
      /\ Cardinality(Busy(z)) = Cardinality(Busy(x)) - 1
  BY <1>1, <1>6, <1>7, BusyCount DEF BusyPlaces
<1>9. ~x.canceled => \A v \in Workers : z.worker[v].pc = "exited" => z.jobs = 0
  <2>1. ~x.canceled => \A v \in Workers : x.worker[v].pc = "exited" => x.jobs = 0
    BY <1>1 DEF Accounted
  <2>2. \A v \in Workers : z.worker[v] = x.worker[v] \/ z.worker[v] = Idle
    BY <1>6, <1>7
  <2> QED BY <1>6, <1>7, <2>1, <2>2
<1>10. ~x.canceled =>
         z.jobs + Cardinality(Busy(z)) + z.own.completed + z.own.errors = Total
  BY <1>1, <1>5, <1>6, <1>7, <1>8 DEF Accounted
<1>11. Accounted(z)
  BY <1>1, <1>6, <1>7, <1>9, <1>10 DEF Accounted
<1> QED BY <1>1, <1>3, <1>4, <1>6, <1>7, <1>11, MiningKeeps

-----------------------------------------------------------------------------
(* The life of a session. *)

\* When all its workers have left, a session has counted what it dispatched.
LEMMA AllCounted ==
  ASSUME NEW x \in Session, Accounted(x), ~x.canceled,
         \A w \in Workers : x.worker[w].pc = "exited"
  PROVE  x.own.completed + x.own.errors = Total
<1>1. Busy(x) = {}
  BY DEF Busy
<1>2. Cardinality(Busy(x)) = 0
  BY <1>1, FS_EmptySet
<1>3. x.jobs = 0
  BY MiningAssumption DEF Accounted
<1>4. x.own.completed \in Nat /\ x.own.errors \in Nat
  BY DEF Session, Counts
<1> QED BY <1>2, <1>3, <1>4 DEF Accounted

LEMMA FinalizeKeeps ==
  ASSUME Inductive, NEW s \in SessionId, Finalize(s)
  PROVE  Inductive'
<1> DEFINE x == session[s]
           y == [x EXCEPT !.phase = "final"]
<1>1. /\ TypeOK /\ StoppableWhileRunning /\ Managed
      /\ \A u \in SessionId : Accounted(session[u])
  BY DEF Inductive
<1>2. x \in Session /\ x.own \in Counts
  BY Known
<1>3. /\ x.phase = "mining" /\ \A w \in Workers : x.worker[w].pc = "exited"
      /\ session' = [session EXCEPT ![s] = y]
      /\ stats' = x.own /\ UNCHANGED <<status, cancelFunc>>
  BY DEF Finalize
<1>4. /\ y \in Session /\ y.phase = "final" /\ y.canceled = x.canceled /\ y.jobs = x.jobs
      /\ y.own = x.own /\ y.worker = x.worker /\ y.lone = x.lone
  BY <1>2 DEF Session
<1> HIDE DEF y
<1>5. \A u \in SessionId : session'[u] = IF u = s THEN y ELSE session[u]
  BY <1>1, <1>3 DEF TypeOK
<1>6. Accounted(y)
  BY <1>1, <1>3, <1>4 DEF Accounted, Busy
<1>7. TypeOK'
  BY <1>1, <1>2, <1>3, <1>4 DEF TypeOK
<1>8. \A u \in SessionId : Alive(u)' <=> Alive(u)
  BY <1>3, <1>4, <1>5 DEF Alive
<1>9. StoppableWhileRunning'
  <2>1. status = "running" =>
          cancelFunc \in SessionId /\ Alive(cancelFunc) /\ ~session[cancelFunc].canceled
    BY <1>1, MiningAssumption DEF StoppableWhileRunning, TypeOK, SessionId
  <2>2. status = "running" => cancelFunc # 0
    BY <1>1 DEF StoppableWhileRunning
  <2> QED BY <1>3, <1>4, <1>5, <1>8, <2>1, <2>2 DEF StoppableWhileRunning
<1>10. Managed'
  <2>1. SUFFICES ASSUME NEW u \in SessionId, session'[u].lone, Alive(u)'
                 PROVE  /\ cancelFunc' = u
                        /\ status' = "running" \/ (status' = "stopping" /\ session'[u].canceled)
                        /\ \A v \in SessionId \ {u} : ~Alive(v)'
                        /\ session'[u].phase = "final" => stats' = session'[u].own
    BY DEF Managed
  <2>2. session[u].lone /\ Alive(u) /\ session'[u].canceled = session[u].canceled
    BY <1>4, <1>5, <1>8, <2>1
  <2>3. /\ cancelFunc = u /\ \A v \in SessionId \ {u} : ~Alive(v)
        /\ status = "running" \/ (status = "stopping" /\ session[u].canceled)
    BY <1>1, <2>2 DEF Managed
  <2>4. u = s
    BY <1>3, <2>3 DEF Alive
  <2> QED BY <1>3, <1>4, <1>5, <1>8, <2>2, <2>3, <2>4
<1>11. \A u \in SessionId : Accounted(session'[u])
  BY <1>1, <1>5, <1>6
<1> QED BY <1>7, <1>9, <1>10, <1>11 DEF Inductive, Accounted, Busy

\* The verdict on a session that was alone.
LEMMA VerdictOfLone ==
  ASSUME Inductive, NEW s \in SessionId, session[s].phase = "final",
         session[s].lone, ~session[s].canceled
  PROVE  Verdict(s) = "failed" <=> session[s].own.completed = 0
<1> DEFINE x == session[s]
<1>1. /\ x \in Session /\ Accounted(x) /\ \A w \in Workers : x.worker[w].pc = "exited"
      /\ x.own.completed \in Nat /\ x.own.errors \in Nat
  BY Known DEF Accounted
<1>2. x.own.completed + x.own.errors = Total /\ Total \in Nat \ {0}
  BY <1>1, AllCounted, MiningAssumption
<1>3. status = "running" /\ stats = x.own
  BY DEF Inductive, Managed, Alive
<1>4. AllFailed <=> x.own.completed = 0
  BY <1>1, <1>2, <1>3 DEF AllFailed
<1> QED BY <1>3, <1>4 DEF Verdict

LEMMA EndKeeps ==
  ASSUME Inductive, NEW s \in SessionId, End(s)
  PROVE  Inductive'
<1> DEFINE x == session[s]
           v == Verdict(s)
           y == [x EXCEPT !.phase = "ended", !.verdict = v]
<1>1. /\ TypeOK /\ Managed /\ \A u \in SessionId : Accounted(session[u])
  BY DEF Inductive
<1>2. x \in Session
  BY Known
<1>3. v \in {"idle", "failed", "completed"}
  BY DEF Verdict
<1>4. /\ x.phase = "final" /\ session' = [session EXCEPT ![s] = y]
      /\ status' = v /\ cancelFunc' = 0 /\ UNCHANGED stats
  BY DEF End
<1>5. x.lone /\ ~x.canceled => (v = "failed" <=> x.own.completed = 0)
  BY <1>4, VerdictOfLone
<1> HIDE DEF v
<1>6. /\ y \in Session /\ y.phase = "ended" /\ y.verdict = v /\ y.canceled = x.canceled
      /\ y.jobs = x.jobs /\ y.own = x.own /\ y.worker = x.worker /\ y.lone = x.lone
  <2> DEFINE z == [x EXCEPT !.phase = "ended"]
  <2>1. z \in Session /\ y = [z EXCEPT !.verdict = v]
    BY <1>2 DEF Session
  <2>2. /\ y.phase = "ended" /\ y.verdict = v /\ y.canceled = x.canceled
        /\ y.jobs = x.jobs /\ y.own = x.own /\ y.worker = x.worker /\ y.lone = x.lone
    BY <1>2 DEF Session
  <2> HIDE DEF y, z
  <2>3. y \in Session
    BY <1>3, <2>1 DEF Session
  <2> QED BY <2>2, <2>3
<1> HIDE DEF y
<1>7. \A u \in SessionId : session'[u] = IF u = s THEN y ELSE session[u]
  BY <1>1, <1>4 DEF TypeOK
<1>8. Accounted(y)
  BY <1>1, <1>4, <1>5, <1>6 DEF Accounted, Busy
<1>9. TypeOK'
  BY <1>1, <1>3, <1>4, <1>6, MiningAssumption DEF TypeOK
<1>10. StoppableWhileRunning'
  BY <1>3, <1>4 DEF StoppableWhileRunning
<1>11. Managed'
  <2>1. ASSUME NEW u \in SessionId, session'[u].lone, Alive(u)' PROVE FALSE
    <3>1. u # s /\ session[u].lone /\ Alive(u)
      BY <1>6, <1>7, <2>1 DEF Alive
    <3>2. ~Alive(s)
      BY <1>1, <3>1 DEF Managed
    <3> QED BY <1>4, <3>2 DEF Alive
  <2> QED BY <2>1 DEF Managed
<1>12. \A u \in SessionId : Accounted(session'[u])
  BY <1>1, <1>7, <1>8
<1> QED BY <1>9, <1>10, <1>11, <1>12 DEF Inductive, Accounted, Busy

LEMMA StartKeeps ==
  ASSUME Inductive, NEW s \in SessionId, HandleMinerStart(s)
  PROVE  Inductive'
<1> DEFINE alone == \A u \in SessionId : ~Alive(u)
           y == [session[s] EXCEPT !.phase = "mining", !.lone = alone]
<1>1. TypeOK /\ \A u \in SessionId : session[u] \in Session /\ Accounted(session[u])
  BY DEF Inductive, TypeOK
<1>2. /\ session[s].phase = "unborn" /\ status' = "running" /\ cancelFunc' = s
      /\ stats' = NoCounts
      /\ session' = [t \in SessionId |-> IF t = s THEN y
           ELSE [session[t] EXCEPT !.lone = session[t].lone /\ ~Alive(t)]]
  BY <1>1 DEF HandleMinerStart, Start, TypeOK
<1>3. alone \in BOOLEAN /\ \A t \in SessionId : (session[t].lone /\ ~Alive(t)) \in BOOLEAN
  BY <1>1 DEF Session
<1>4. /\ y \in Session /\ y.phase = "mining" /\ y.lone = alone
      /\ y.canceled = session[s].canceled /\ y.jobs = session[s].jobs
      /\ y.own = session[s].own /\ y.worker = session[s].worker
  <2> HIDE DEF alone
  <2> DEFINE z == [session[s] EXCEPT !.phase = "mining"]
  <2>1. z \in Session /\ y = [z EXCEPT !.lone = alone]
    BY <1>1 DEF Session
  <2>2. /\ y.phase = "mining" /\ y.lone = alone
        /\ y.canceled = session[s].canceled /\ y.jobs = session[s].jobs
        /\ y.own = session[s].own /\ y.worker = session[s].worker
    BY <1>1 DEF Session
  <2> HIDE DEF y, z
  <2>3. y \in Session
    BY <1>3, <2>1 DEF Session
  <2> QED BY <2>2, <2>3
<1> HIDE DEF y
<1>5. ASSUME NEW t \in SessionId \ {s}
      PROVE  /\ session'[t] \in Session /\ session'[t].phase = session[t].phase
             /\ session'[t].lone = (session[t].lone /\ ~Alive(t))
             /\ session'[t].canceled = session[t].canceled
             /\ session'[t].jobs = session[t].jobs /\ session'[t].own = session[t].own
             /\ session'[t].worker = session[t].worker
             /\ session'[t].verdict = session[t].verdict
  <2> DEFINE l == session[t].lone /\ ~Alive(t)
  <2>1. session'[t] = [session[t] EXCEPT !.lone = l] /\ l \in BOOLEAN
    BY <1>2, <1>3
  <2> HIDE DEF l
  <2>2. session'[t] \in Session /\ session'[t].lone = l
    BY <1>1, <2>1 DEF Session
  <2> QED BY <1>1, <2>1, <2>2 DEF Session, l
<1>6. session'[s] = y
  BY <1>2
<1>7. TypeOK'
  <2>1. session' \in [SessionId -> Session]
    <3>1. \A t \in SessionId : session'[t] \in Session
      BY <1>4, <1>5, <1>6
    <3>2. session' = [t \in SessionId |-> session'[t]]
      BY <1>2
    <3> HIDE DEF y
    <3> QED BY <3>1, <3>2
  <2>2. NoCounts \in Counts
    BY DEF NoCounts, Counts
  <2>3. s \in 0 .. MaxSessions
    BY MiningAssumption DEF SessionId
  <2> QED BY <1>2, <2>1, <2>2, <2>3 DEF TypeOK
<1>8. \A t \in SessionId : Accounted(session'[t])
  <2>1. Accounted(y)
    BY <1>1, <1>2, <1>4 DEF Accounted, Busy
  <2>2. ASSUME NEW t \in SessionId \ {s} PROVE Accounted(session'[t])
    <3>1. session[t] \in Session /\ Accounted(session[t])
      BY <1>1
    <3>2. Busy(session'[t]) = Busy(session[t])
      BY <1>5 DEF Busy
    <3>3. session'[t].lone => session[t].lone
      BY <1>5, <3>1 DEF Session
    <3> QED BY <1>5, <3>1, <3>2, <3>3 DEF Accounted
  <2> QED BY <1>6, <2>1, <2>2
<1>9. \A t \in SessionId : Alive(t)' <=> t = s \/ Alive(t)
  BY <1>4, <1>5, <1>6 DEF Alive
<1>10. ~session'[s].canceled
  BY <1>1, <1>2, <1>4, <1>6 DEF Accounted
<1>11. StoppableWhileRunning'
  BY <1>2, <1>9, <1>10, MiningAssumption DEF StoppableWhileRunning, SessionId
<1>12. Managed'
  <2>1. SUFFICES ASSUME NEW u \in SessionId, session'[u].lone, Alive(u)'
                 PROVE  /\ cancelFunc' = u
                        /\ status' = "running" \/ (status' = "stopping" /\ session'[u].canceled)
                        /\ \A v \in SessionId \ {u} : ~Alive(v)'
                        /\ session'[u].phase = "final" => stats' = session'[u].own
    BY DEF Managed
  <2>2. u = s
    BY <1>5, <1>9, <2>1
  <2>3. \A v \in SessionId \ {u} : ~Alive(v)'
    BY <1>4, <1>6, <1>9, <2>1, <2>2
  <2> QED BY <1>2, <1>4, <1>6, <2>2, <2>3
<1> QED BY <1>7, <1>8, <1>11, <1>12 DEF Inductive, Accounted, Busy

LEMMA StopKeeps ==
  ASSUME Inductive, Stop
  PROVE  Inductive'
<1> DEFINE s == cancelFunc
           x == session[s]
           y == [x EXCEPT !.canceled = TRUE]
<1>1. TypeOK /\ Managed /\ \A u \in SessionId : Accounted(session[u])
  BY DEF Inductive
<1>2. s \in SessionId /\ Alive(s)
  BY MiningAssumption DEF Inductive, StoppableWhileRunning, TypeOK, SessionId, Stop
<1>3. /\ status' = "stopping" /\ session' = [session EXCEPT ![s] = y]
      /\ UNCHANGED <<cancelFunc, stats>>
  BY <1>2, MiningAssumption DEF Stop, Canceled, SessionId
<1>4. /\ y \in Session /\ y.phase = x.phase /\ y.canceled /\ y.lone = x.lone
      /\ y.own = x.own /\ y.worker = x.worker
  BY <1>1, <1>2 DEF Session, TypeOK
<1> HIDE DEF y
<1>5. \A u \in SessionId : session'[u] = IF u = s THEN y ELSE session[u]
  BY <1>1, <1>3 DEF TypeOK
<1>6. Accounted(y)
  BY <1>1, <1>2, <1>4 DEF Accounted, Alive
<1>7. TypeOK'
  BY <1>1, <1>2, <1>3, <1>4 DEF TypeOK
<1>8. StoppableWhileRunning'
  BY <1>3 DEF StoppableWhileRunning
<1>9. \A u \in SessionId : Alive(u)' <=> Alive(u)
  BY <1>4, <1>5 DEF Alive
<1>10. Managed'
  <2>1. SUFFICES ASSUME NEW u \in SessionId, session'[u].lone, Alive(u)'
                 PROVE  /\ cancelFunc' = u
                        /\ status' = "running" \/ (status' = "stopping" /\ session'[u].canceled)
                        /\ \A v \in SessionId \ {u} : ~Alive(v)'
                        /\ session'[u].phase = "final" => stats' = session'[u].own
    BY DEF Managed
  <2>2. session[u].lone /\ Alive(u)
    BY <1>4, <1>5, <1>9, <2>1
  <2>3. /\ cancelFunc = u /\ \A v \in SessionId \ {u} : ~Alive(v)
        /\ session[u].phase = "final" => stats = session[u].own
    BY <1>1, <2>2 DEF Managed
  <2> QED BY <1>3, <1>4, <1>5, <1>9, <2>3
<1>11. \A u \in SessionId : Accounted(session'[u])
  BY <1>1, <1>5, <1>6
<1> QED BY <1>7, <1>8, <1>10, <1>11 DEF Inductive, Accounted, Busy

-----------------------------------------------------------------------------
(* The inductive invariant. *)

LEMMA InitInductive == Init => Inductive
<1> SUFFICES ASSUME Init PROVE Inductive
  OBVIOUS
<1> DEFINE x == [phase |-> "unborn", canceled |-> FALSE, jobs |-> Total, own |-> NoCounts,
                 worker |-> [w \in Workers |-> Idle], lone |-> TRUE, verdict |-> "none"]
<1>1. session = [s \in SessionId |-> x]
  BY DEF Init
<1>2. Total \in Nat /\ Total \in 0 .. Total /\ NoCounts \in Counts
  BY MiningAssumption DEF NoCounts, Counts
<1>3. x \in Session
  BY <1>2, NewWorkers DEF Session
<1>4. Busy(x) = {}
  BY NewWorkers DEF Busy
<1>5. Cardinality(Busy(x)) = 0
  BY <1>4, FS_EmptySet
<1>6. /\ x.phase = "unborn" /\ ~x.canceled /\ x.jobs = Total /\ x.own = NoCounts
      /\ x.worker = [w \in Workers |-> Idle]
  OBVIOUS
<1> HIDE DEF x
<1>7. Accounted(x)
  <2>1. x.own.completed = 0 /\ x.own.errors = 0
    BY <1>6 DEF NoCounts
  <2>2. \A w \in Workers : x.worker[w].pc # "exited"
    BY <1>6, NewWorkers
  <2> QED BY <1>2, <1>5, <1>6, <2>1, <2>2 DEF Accounted
<1>8. TypeOK
  <2>1. session \in [SessionId -> Session]
    BY <1>1, <1>3
  <2>2. status = "idle" /\ cancelFunc = 0 /\ stats = NoCounts
    BY DEF Init
  <2> QED BY <1>2, <2>1, <2>2, MiningAssumption DEF TypeOK
<1>9. StoppableWhileRunning
  BY DEF Init, StoppableWhileRunning
<1>10. Managed
  BY <1>1, <1>6 DEF Managed, Alive
<1> QED BY <1>1, <1>7, <1>8, <1>9, <1>10 DEF Inductive

LEMMA StepInductive == Inductive /\ [Next]_vars => Inductive'
<1> SUFFICES ASSUME Inductive, [Next]_vars PROVE Inductive'
  OBVIOUS
<1>1. ASSUME NEW s \in SessionId, Step(s) PROVE Inductive'
  BY <1>1, TakeKeeps, JobSteps, DoneKeeps, FinalizeKeeps, EndKeeps DEF Step
<1>2. CASE UNCHANGED vars
  BY <1>2 DEF vars, Inductive, TypeOK, StoppableWhileRunning, Managed, Alive, Accounted, Busy
<1> QED BY <1>1, <1>2, StopKeeps, StartKeeps DEF Next

LEMMA AlwaysInductive == Spec => []Inductive
BY InitInductive, StepInductive, PTL DEF Spec

\* Sessions, workers and statistics keep their types, for any number of each.
THEOREM TypeCorrect == Spec => []TypeOK
<1>1. Inductive => TypeOK
  BY DEF Inductive
<1> QED BY <1>1, AlwaysInductive, PTL

\* A session that Status calls running is the one that Stop would cancel
\* (Start, Stop and the deferred end of a session in miner.go).
THEOREM RunningIsStoppable == Spec => []StoppableWhileRunning
<1>1. Inductive => StoppableWhileRunning
  BY DEF Inductive
<1> QED BY <1>1, AlwaysInductive, PTL

\* A session that is not canceled counts each prompt once, and its verdict fits when it
\* was alone: for any number of workers, prompts, retries and rows.
THEOREM PromptsAddUp == Spec => []SessionAccounted
<1>1. Inductive => SessionAccounted
  <2> SUFFICES ASSUME Inductive, NEW s \in SessionId,
                      session[s].phase \in {"final", "ended"}, ~session[s].canceled
               PROVE  /\ session[s].own.completed + session[s].own.errors = Total
                      /\ session[s].lone /\ session[s].phase = "ended" =>
                           (session[s].verdict = "failed" <=> session[s].own.completed = 0)
    BY DEF SessionAccounted
  <2>1. session[s] \in Session /\ Accounted(session[s])
    BY Known
  <2> QED BY <2>1, AllCounted DEF Accounted
<1> QED BY <1>1, AlwaysInductive, PTL
=============================================================================
