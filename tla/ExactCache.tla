----------------------------- MODULE ExactCache -----------------------------
(***************************************************************************)
(* The exact-match cache (internal/cache/exact): a memory LRU over a SQLite *)
(* table, which a background worker fills from a bounded queue.  A lookup  *)
(* reads the tiers one after the other, an eviction removes from them one   *)
(* after the other, and an insert reaches the table only when the worker   *)
(* comes to it, so any of these interleave.  The database has a single     *)
(* connection: each statement is one step.                                 *)
(*                                                                         *)
(* A reply is its serial number: the n-th one cached.  Time is "now", cut   *)
(* off at MaxTime; an entry carries the time of its created_at.            *)
(***************************************************************************)
EXTENDS Integers, Sequences

CONSTANTS
  Clients, Keys, \* who uses the cache, and the hashes they use
  Admins,        \* the clients that also delete, purge and pin
  Capacity,      \* of the LRU, cache.l1_max_entries
  QueueCap,      \* of taskChan, 5000
  TTL,           \* default_ttl_seconds
  MaxTime,       \* bound: the clock stops here
  MaxReplies     \* bound: replies cached in all

ASSUME CacheAssumption ==
  /\ Admins \subseteq Clients
  /\ Capacity \in Nat \ {0} /\ QueueCap \in Nat \ {0}
  /\ TTL \in Nat \ {0}
  /\ MaxTime \in Nat /\ MaxReplies \in Nat

VARIABLES
  l1,     \* the LRU: entries, the least recently used first
  l2,     \* the rows of cache_entries, at most one per key
  queue,  \* taskChan
  worker, \* "running", "draining" once stopChan is closed, or "exited"
  op,     \* what each client is in the middle of
  made,   \* history: when each reply was cached
  now

vars == <<l1, l2, queue, worker, op, made, now>>

Reply == 1 .. MaxReplies
Cached == [key : Keys, reply : Reply, created : 0 .. MaxTime]
Row == [key : Keys, reply : Reply, created : 0 .. MaxTime, pinned : BOOLEAN]

\* A queued insert remembers, as history, whether it came after Close.
Insert == [kind : {"insert"}, entry : Cached, late : BOOLEAN]
Hit == [kind : {"hit"}]

\* What a client is in the middle of, and what it holds meanwhile.
Op ==
  [pc : {"idle", "flush"}] \cup [pc : {"stale", "read", "expire", "evict"}, key : Keys]
    \cup [pc : {"hit", "queue"}, entry : Cached] \cup [pc : {"promote"}, entry : Row]
    \cup [pc : {"pin"}, key : Keys, pinned : BOOLEAN]

OnePerKey(cache) == \A i, j \in 1 .. Len(cache) : cache[i].key = cache[j].key => i = j

TypeOK ==
  /\ l1 \in Seq(Cached) /\ Len(l1) <= Capacity /\ OnePerKey(l1)
  /\ l2 \subseteq Row
  /\ \A x, y \in l2 : x.key = y.key => x = y
  /\ queue \in Seq(Insert \cup Hit) /\ Len(queue) <= QueueCap
  /\ worker \in {"running", "draining", "exited"}
  /\ op \in [Clients -> Op]
  /\ made \in Seq(0 .. MaxTime) /\ Len(made) <= MaxReplies
  /\ now \in 0 .. MaxTime

Idle == [pc |-> "idle"]

Init ==
  /\ l1 = <<>> /\ l2 = {} /\ queue = <<>>
  /\ worker = "running"
  /\ op = [c \in Clients |-> Idle]
  /\ made = <<>> /\ now = 0

-----------------------------------------------------------------------------
(* The tiers. *)

Holds(cache, k) == \E i \in 1 .. Len(cache) : cache[i].key = k

PlaceOf(cache, k) == CHOOSE i \in 1 .. Len(cache) : cache[i].key = k

\* A hash has at most one entry.
Without(cache, k) ==
  IF ~Holds(cache, k) THEN cache
  ELSE LET i == PlaceOf(cache, k)
       IN  SubSeq(cache, 1, i - 1) \o SubSeq(cache, i + 1, Len(cache))

InL1(k) == Holds(l1, k)

L1Entry(k) == l1[PlaceOf(l1, k)]

\* Mutant: nothing is evicted.
AddedUnbounded(cache, e) == Append(Without(cache, e.key), e)

\* Add and Get put an entry at the recent end; a full LRU loses its oldest.
Added(cache, e) ==
  LET rest == Without(cache, e.key)
  IN  Append(IF Len(rest) >= Capacity THEN Tail(rest) ELSE rest, e)

Expired(e) == now > e.created + TTL

\* Mutant: the tiers do not expire together, a row's time is when it was written.
StampedRow(e, pinned) ==
  [key |-> e.key, reply |-> e.reply, created |-> now, pinned |-> pinned]

\* Set of the SQLite store: the entry's own creation time; overwriting keeps the pin.
\* Pinning changes the pin alone.
RowOf(e, pinned) ==
  [key |-> e.key, reply |-> e.reply, created |-> e.created, pinned |-> pinned]

RowsOf(k) == {row \in l2 : row.key = k}

Upserted(e) ==
  (l2 \ RowsOf(e.key)) \cup {RowOf(e, \E row \in RowsOf(e.key) : row.pinned)}

\* Mutant: hits overtake the inserts.
HitsFirst(item) ==
  IF Len(queue) = QueueCap THEN queue
  ELSE IF item.kind = "hit" THEN <<item>> \o queue ELSE Append(queue, item)

\* Queueing never blocks; a full queue drops the task.
Queued(item) == IF Len(queue) < QueueCap THEN Append(queue, item) ELSE queue

HitTask == [kind |-> "hit"]

-----------------------------------------------------------------------------
(* Get *)

GetL1(c, k) ==
  /\ op[c].pc = "idle"
  /\ l1' = IF InL1(k) THEN Added(l1, L1Entry(k)) ELSE l1
  /\ op' = [op EXCEPT ![c] =
       IF ~InL1(k) THEN [pc |-> "read", key |-> k]
       ELSE IF Expired(L1Entry(k)) THEN [pc |-> "stale", key |-> k]
       ELSE [pc |-> "hit", entry |-> L1Entry(k)]]
  /\ UNCHANGED <<l2, queue, worker, made, now>>

\* The expired entry is removed by its hash, whatever that names by now.
RemoveExpired(c) ==
  /\ op[c].pc = "stale"
  /\ l1' = Without(l1, op[c].key)
  /\ op' = [op EXCEPT ![c] = [pc |-> "read", key |-> op[c].key]]
  /\ UNCHANGED <<l2, queue, worker, made, now>>

\* The row as it was read is what is served, and later promoted.  A read error
\* is a miss.
GetL2(c) ==
  /\ op[c].pc = "read"
  /\ \/ op' = [op EXCEPT ![c] = Idle]
     \/ \E row \in RowsOf(op[c].key) :
          op' = [op EXCEPT ![c] =
            IF ~row.pinned /\ Expired(row) THEN [pc |-> "expire", key |-> row.key]
            ELSE [pc |-> "promote", entry |-> row]]
  /\ UNCHANGED <<l1, l2, queue, worker, made, now>>

\* The expired row is deleted by its hash, whatever it holds by now.
DeleteExpired(c) ==
  /\ op[c].pc = "expire"
  /\ l2' = l2 \ RowsOf(op[c].key)
  /\ op' = [op EXCEPT ![c] = Idle]
  /\ UNCHANGED <<l1, queue, worker, made, now>>

Promote(c) ==
  /\ op[c].pc = "promote"
  /\ LET row == op[c].entry
         e == [key |-> row.key, reply |-> row.reply, created |-> row.created]
     IN  /\ l1' = Added(l1, e)
         /\ op' = [op EXCEPT ![c] = [pc |-> "hit", entry |-> e]]
  /\ UNCHANGED <<l2, queue, worker, made, now>>

QueueHit(c) ==
  /\ op[c].pc = "hit"
  /\ queue' = Queued(HitTask)
  /\ op' = [op EXCEPT ![c] = Idle]
  /\ UNCHANGED <<l1, l2, worker, made, now>>

-----------------------------------------------------------------------------
(* Set, Delete, the admin's purge and pin *)

\* Set puts the reply in memory, and then queues it for the table.
Set(c, k) ==
  /\ op[c].pc = "idle"
  /\ Len(made) < MaxReplies
  /\ LET e == [key |-> k, reply |-> Len(made) + 1, created |-> now]
     IN  /\ l1' = Added(l1, e)
         /\ op' = [op EXCEPT ![c] = [pc |-> "queue", entry |-> e]]
  /\ made' = Append(made, now)
  /\ UNCHANGED <<l2, queue, worker, now>>

QueueInsert(c) ==
  /\ op[c].pc = "queue"
  /\ queue' = Queued([kind |-> "insert", entry |-> op[c].entry,
                      late |-> worker # "running"])
  /\ op' = [op EXCEPT ![c] = Idle]
  /\ UNCHANGED <<l1, l2, worker, made, now>>

DeleteL1(c, k) ==
  /\ op[c].pc = "idle"
  /\ l1' = Without(l1, k)
  /\ op' = [op EXCEPT ![c] = [pc |-> "evict", key |-> k]]
  /\ UNCHANGED <<l2, queue, worker, made, now>>

DeleteL2(c) ==
  /\ op[c].pc = "evict"
  /\ l2' = l2 \ RowsOf(op[c].key)
  /\ op' = [op EXCEPT ![c] = Idle]
  /\ UNCHANGED <<l1, queue, worker, made, now>>

\* HandlePurgeCache deletes rows (all, a model's, the large ones), then flushes the
\* memory tier if there were any.
PurgeL2(c, ks) ==
  /\ op[c].pc = "idle"
  /\ \E row \in l2 : row.key \in ks
  /\ l2' = {row \in l2 : row.key \notin ks}
  /\ op' = [op EXCEPT ![c] = [pc |-> "flush"]]
  /\ UNCHANGED <<l1, queue, worker, made, now>>

FlushMemory(c) ==
  /\ op[c].pc = "flush"
  /\ l1' = <<>>
  /\ op' = [op EXCEPT ![c] = Idle]
  /\ UNCHANGED <<l2, queue, worker, made, now>>

\* HandleTogglePinCacheEntry reads the pin with one statement and writes its
\* opposite with another, to the row the hash then has, if any.
ReadPin(c, k) ==
  /\ op[c].pc = "idle"
  /\ \E row \in RowsOf(k) :
       op' = [op EXCEPT ![c] = [pc |-> "pin", key |-> k, pinned |-> ~row.pinned]]
  /\ UNCHANGED <<l1, l2, queue, worker, made, now>>

WritePin(c) ==
  /\ op[c].pc = "pin"
  /\ l2' = {IF row.key = op[c].key THEN RowOf(row, op[c].pinned) ELSE row : row \in l2}
  /\ op' = [op EXCEPT ![c] = Idle]
  /\ UNCHANGED <<l1, queue, worker, made, now>>

-----------------------------------------------------------------------------
(* The background worker, and the process around it *)

\* One task: an insert is written, or fails with a logged error.
ProcessTask ==
  /\ worker # "exited" /\ queue # <<>>
  /\ queue' = Tail(queue)
  /\ IF Head(queue).kind = "insert"
     THEN l2' \in {Upserted(Head(queue).entry), l2}
     ELSE UNCHANGED l2
  /\ UNCHANGED <<l1, worker, op, made, now>>

\* Close; requests that outlive the server's shutdown timeout may still use the cache.
Close ==
  /\ worker = "running"
  /\ worker' = "draining"
  /\ UNCHANGED <<l1, l2, queue, op, made, now>>

Drained(tasks) == tasks = <<>>

Exit ==
  /\ worker = "draining" /\ Drained(queue)
  /\ worker' = "exited"
  /\ UNCHANGED <<l1, l2, queue, op, made, now>>

\* A crash, or a start after a shutdown: only the table is left.
Restart ==
  /\ l1' = <<>> /\ queue' = <<>> /\ worker' = "running"
  /\ op' = [c \in Clients |-> Idle]
  /\ UNCHANGED <<l2, made, now>>

Tick ==
  /\ now < MaxTime
  /\ now' = now + 1
  /\ UNCHANGED <<l1, l2, queue, worker, op, made>>

Next ==
  \/ \E c \in Clients :
       \/ RemoveExpired(c) \/ GetL2(c) \/ DeleteExpired(c) \/ Promote(c) \/ QueueHit(c)
       \/ QueueInsert(c)
       \/ \E k \in Keys : GetL1(c, k) \/ Set(c, k)
  \/ \E c \in Admins :
       \/ DeleteL2(c) \/ FlushMemory(c) \/ WritePin(c)
       \/ \E k \in Keys : DeleteL1(c, k) \/ ReadPin(c, k)
       \/ \E ks \in SUBSET Keys : PurgeL2(c, ks)
  \/ ProcessTask \/ Close \/ Exit
  \/ Restart \/ Tick

Spec == Init /\ [][Next]_vars

\* The worker is a goroutine of its own that never waits for anything but work.
FairSpec == Spec /\ WF_vars(ProcessTask \/ Exit)

-----------------------------------------------------------------------------
\* Neither tier, alone or through the queue and the promotions between them,
\* keeps a reply alive past its TTL: one that a lookup decides to serve was made
\* at most TTL ago, unless an administrator has pinned its row.
ServedWithinTTL ==
  [][\A c \in Clients :
       /\ op[c].pc \in {"idle", "read"} /\ op'[c].pc \in {"hit", "promote"}
       /\ op'[c].pc = "promote" => ~op'[c].entry.pinned
       => now <= made[op'[c].entry.reply] + TTL]_vars

\* Every copy of an entry carries the reply it was made with, and its time.
Genuine(e) == e.reply \in 1 .. Len(made) /\ e.created = made[e.reply]

CopiesGenuine ==
  /\ \A i \in 1 .. Len(l1) : Genuine(l1[i])
  /\ \A row \in l2 : Genuine(row)
  /\ \A i \in 1 .. Len(queue) : queue[i].kind = "insert" => Genuine(queue[i].entry)
  /\ \A c \in Clients : op[c].pc \in {"hit", "queue", "promote"} => Genuine(op[c].entry)

Inductive == TypeOK /\ CopiesGenuine

Pending(n) ==
  \E i \in 1 .. Len(queue) :
    queue[i].kind = "insert" /\ queue[i].entry.reply = n /\ ~queue[i].late

\* However lookups and inserts keep the queue full, through a shutdown too, an
\* insert that was queued in time leaves the queue: it is written, or its failure
\* is logged, or the process crashes.
QueuedIsWritten == \A n \in Reply : []<>~Pending(n)
=============================================================================
