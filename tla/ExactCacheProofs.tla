-------------------------- MODULE ExactCacheProofs --------------------------
(***************************************************************************)
(* The tiers stay caches, and neither keeps a reply past its TTL, for any   *)
(* number of clients and keys, any capacities, TTL and number of replies.   *)
(***************************************************************************)
EXTENDS ExactCache, TLAPS, SequenceTheorems

Distinct(cache) == cache \in Seq(Cached) /\ OnePerKey(cache)

-----------------------------------------------------------------------------
(* The operators of the memory tier. *)

LEMMA PlaceIsWhereHeld ==
  ASSUME NEW cache \in Seq(Cached), NEW k, Holds(cache, k)
  PROVE  /\ PlaceOf(cache, k) \in 1 .. Len(cache)
         /\ cache[PlaceOf(cache, k)] \in Cached
         /\ cache[PlaceOf(cache, k)].key = k
<1>1. \E i \in 1 .. Len(cache) : cache[i].key = k
  BY DEF Holds
<1>2. /\ PlaceOf(cache, k) \in 1 .. Len(cache)
      /\ cache[PlaceOf(cache, k)].key = k
  BY <1>1 DEF PlaceOf
<1> QED BY <1>2, ElementOfSeq

\* Taking one entry out shifts those behind it.
LEMMA OneTakenOut ==
  ASSUME NEW cache \in Seq(Cached), NEW i \in 1 .. Len(cache)
  PROVE  LET rest == SubSeq(cache, 1, i - 1) \o SubSeq(cache, i + 1, Len(cache))
         IN  /\ rest \in Seq(Cached)
             /\ Len(rest) = Len(cache) - 1
             /\ \A j \in 1 .. Len(rest) : rest[j] = IF j < i THEN cache[j] ELSE cache[j + 1]
<1> DEFINE front == SubSeq(cache, 1, i - 1)
           back == SubSeq(cache, i + 1, Len(cache))
<1>1. Len(cache) \in Nat /\ i \in Nat /\ 1 <= i /\ i <= Len(cache)
  BY LenProperties
<1>2. /\ front \in Seq(Cached) /\ Len(front) = i - 1
      /\ \A j \in 1 .. i - 1 : front[j] = cache[j]
<2>1. \A j \in 1 .. i - 1 : cache[j] \in Cached
  BY <1>1, ElementOfSeq
<2> QED BY <1>1, <2>1, SubSeqProperties
<1>3. /\ back \in Seq(Cached) /\ Len(back) = Len(cache) - i
      /\ \A j \in 1 .. Len(cache) - i : back[j] = cache[j + i]
<2>1. \A j \in i + 1 .. Len(cache) : cache[j] \in Cached
  BY <1>1, ElementOfSeq
<2> QED BY <1>1, <2>1, SubSeqProperties
<1> DEFINE rest == front \o back
<1> HIDE DEF front, back
<1>4. /\ rest \in Seq(Cached) /\ Len(rest) = Len(front) + Len(back)
      /\ \A j \in 1 .. Len(front) + Len(back) :
           rest[j] = IF j <= Len(front) THEN front[j] ELSE back[j - Len(front)]
  BY <1>2, <1>3, ConcatProperties
<1> HIDE DEF rest
<1>5. ASSUME NEW j \in 1 .. Len(rest)
      PROVE  rest[j] = IF j < i THEN cache[j] ELSE cache[j + 1]
<2>1. rest[j] = IF j <= i - 1 THEN front[j] ELSE back[j - (i - 1)]
  BY <1>1, <1>2, <1>3, <1>4
<2>2. CASE j < i
  BY <1>1, <1>2, <2>1, <2>2
<2>3. CASE j >= i
<3>1. j - (i - 1) \in 1 .. Len(cache) - i /\ (j - (i - 1)) + i = j + 1
  BY <1>1, <1>2, <1>3, <1>4, <2>3
<3>2. back[j - (i - 1)] = cache[(j - (i - 1)) + i]
  BY <1>3, <3>1
<3> QED BY <1>1, <2>1, <2>3, <3>1, <3>2
<2> QED BY <1>1, <1>4, <1>2, <1>3, <2>2, <2>3
<1>6. rest \in Seq(Cached) /\ Len(rest) = Len(cache) - 1
  BY <1>1, <1>2, <1>3, <1>4
<1>7. rest = SubSeq(cache, 1, i - 1) \o SubSeq(cache, i + 1, Len(cache))
  BY DEF rest, front, back
<1> QED BY <1>5, <1>6, <1>7

\* Removing a key leaves the other entries, and them only.
LEMMA WithoutKeepsOthers ==
  ASSUME NEW cache, Distinct(cache), NEW k
  PROVE  /\ Distinct(Without(cache, k))
         /\ Len(Without(cache, k)) <= Len(cache)
         /\ \A j \in 1 .. Len(Without(cache, k)) :
              /\ Without(cache, k)[j].key # k
              /\ \E i \in 1 .. Len(cache) : Without(cache, k)[j] = cache[i]
<1> USE DEF Distinct
<1>1. Len(cache) \in Nat
  BY LenProperties
<1>2. CASE ~Holds(cache, k)
  BY <1>1, <1>2 DEF Without, Holds
<1>3. CASE Holds(cache, k)
<2> DEFINE i == PlaceOf(cache, k)
           rest == SubSeq(cache, 1, i - 1) \o SubSeq(cache, i + 1, Len(cache))
<2>1. i \in 1 .. Len(cache) /\ cache[i].key = k
  BY <1>3, PlaceIsWhereHeld
<2>2. Without(cache, k) = rest
  BY <1>3 DEF Without
<2> HIDE DEF i
<2>3. /\ rest \in Seq(Cached) /\ Len(rest) = Len(cache) - 1
      /\ \A j \in 1 .. Len(rest) : rest[j] = IF j < i THEN cache[j] ELSE cache[j + 1]
  BY <2>1, OneTakenOut
<2> HIDE DEF rest
<2> DEFINE from(j) == IF j < i THEN j ELSE j + 1
<2>4. \A j \in 1 .. Len(rest) :
        from(j) \in 1 .. Len(cache) /\ from(j) # i /\ rest[j] = cache[from(j)]
  BY <1>1, <2>1, <2>3
<2>5. \A j, m \in 1 .. Len(rest) : from(j) = from(m) => j = m
  BY <1>1, <2>1, <2>3
<2> HIDE DEF from
<2>6. \A j \in 1 .. Len(rest) : rest[j].key # k
  BY <2>1, <2>4 DEF OnePerKey
<2>7. OnePerKey(rest)
<3> SUFFICES ASSUME NEW j \in 1 .. Len(rest), NEW m \in 1 .. Len(rest),
                    rest[j].key = rest[m].key
             PROVE  j = m
  BY DEF OnePerKey
<3>1. from(j) = from(m)
  BY <2>4 DEF OnePerKey
<3> QED BY <2>5, <3>1
<2> QED BY <1>1, <2>2, <2>3, <2>4, <2>6, <2>7
<1> QED BY <1>2, <1>3

LEMMA TailKeepsOthers ==
  ASSUME NEW cache, Distinct(cache), cache # <<>>
  PROVE  /\ Distinct(Tail(cache)) /\ Len(Tail(cache)) = Len(cache) - 1
         /\ \A j \in 1 .. Len(Tail(cache)) :
              \E i \in 1 .. Len(cache) : Tail(cache)[j] = cache[i]
<1> USE DEF Distinct
<1>1. /\ Tail(cache) \in Seq(Cached) /\ Len(Tail(cache)) = Len(cache) - 1
      /\ \A j \in 1 .. Len(Tail(cache)) : Tail(cache)[j] = cache[j + 1]
  BY HeadTailProperties
<1>2. Len(cache) \in Nat
  BY LenProperties
<1>3. \A j \in 1 .. Len(Tail(cache)) : j + 1 \in 1 .. Len(cache)
  BY <1>1, <1>2
<1>4. OnePerKey(Tail(cache))
  BY <1>1, <1>2, <1>3 DEF OnePerKey
<1> QED BY <1>1, <1>3, <1>4

\* Adding an entry keeps the cache within its capacity and adds no other.
LEMMA AddedKeepsOthers ==
  ASSUME NEW cache, Distinct(cache), Len(cache) <= Capacity, NEW e \in Cached
  PROVE  /\ Distinct(Added(cache, e)) /\ Len(Added(cache, e)) <= Capacity
         /\ \A j \in 1 .. Len(Added(cache, e)) :
              Added(cache, e)[j] = e \/ \E i \in 1 .. Len(cache) : Added(cache, e)[j] = cache[i]
<1> DEFINE rest == Without(cache, e.key)
           kept == IF Len(rest) >= Capacity THEN Tail(rest) ELSE rest
<1>1. /\ Distinct(rest) /\ Len(rest) <= Capacity
      /\ \A j \in 1 .. Len(rest) :
           rest[j].key # e.key /\ \E i \in 1 .. Len(cache) : rest[j] = cache[i]
<2>1. Len(cache) \in Nat /\ Len(rest) \in Nat
  BY WithoutKeepsOthers, LenProperties DEF Distinct
<2> QED BY <2>1, WithoutKeepsOthers, CacheAssumption
<1>2. Capacity \in Nat \ {0}
  BY CacheAssumption
<1> HIDE DEF rest
<1>3. Len(rest) \in Nat
  BY <1>1, LenProperties DEF Distinct
<1>4. /\ Distinct(kept) /\ Len(kept) < Capacity
      /\ \A j \in 1 .. Len(kept) : \E i \in 1 .. Len(rest) : kept[j] = rest[i]
<2>1. CASE Len(rest) >= Capacity
<3>1. rest # <<>>
  BY <1>2, <2>1, EmptySeq
<3> QED BY <1>1, <1>2, <1>3, <2>1, <3>1, TailKeepsOthers
<2>2. CASE ~(Len(rest) >= Capacity)
  BY <1>1, <1>2, <1>3, <2>2
<2> QED BY <2>1, <2>2
<1>5. Added(cache, e) = Append(kept, e)
  BY DEF Added, rest
<1> HIDE DEF kept
<1>6. Len(kept) \in Nat /\ kept \in Seq(Cached)
  BY <1>4, LenProperties DEF Distinct
<1>7. /\ Append(kept, e) \in Seq(Cached) /\ Len(Append(kept, e)) = Len(kept) + 1
      /\ \A j \in 1 .. Len(kept) : Append(kept, e)[j] = kept[j]
      /\ Append(kept, e)[Len(kept) + 1] = e
  BY <1>6, AppendProperties
<1>8. \A j \in 1 .. Len(Append(kept, e)) : j \in 1 .. Len(kept) \/ j = Len(kept) + 1
  BY <1>6, <1>7
<1>9. ASSUME NEW j \in 1 .. Len(kept)
      PROVE  kept[j].key # e.key /\ \E i \in 1 .. Len(cache) : kept[j] = cache[i]
<2>1. PICK i \in 1 .. Len(rest) : kept[j] = rest[i]
  BY <1>4
<2>2. rest[i].key # e.key /\ \E m \in 1 .. Len(cache) : rest[i] = cache[m]
  BY <1>1
<2> QED BY <2>1, <2>2
<1>10. OnePerKey(Append(kept, e))
  BY <1>4, <1>7, <1>8, <1>9 DEF OnePerKey, Distinct
<1> QED BY <1>2, <1>4, <1>5, <1>6, <1>7, <1>8, <1>9, <1>10 DEF Distinct

-----------------------------------------------------------------------------
(* The operators of the table and of the queue. *)

LEMMA RowOfIsRow ==
  ASSUME NEW e \in Cached \cup Row, NEW pinned \in BOOLEAN
  PROVE  /\ RowOf(e, pinned) \in Row
         /\ RowOf(e, pinned).key = e.key /\ RowOf(e, pinned).reply = e.reply
         /\ RowOf(e, pinned).created = e.created
BY DEF RowOf, Row, Cached

LEMMA QueuedAddsOne ==
  ASSUME NEW S, queue \in Seq(S), Len(queue) <= QueueCap, NEW item \in S
  PROVE  /\ Queued(item) \in Seq(S) /\ Len(Queued(item)) <= QueueCap
         /\ \A j \in 1 .. Len(Queued(item)) :
              Queued(item)[j] = item \/ \E i \in 1 .. Len(queue) : Queued(item)[j] = queue[i]
<1>1. Len(queue) \in Nat /\ QueueCap \in Nat
  BY LenProperties, CacheAssumption
<1>2. CASE Len(queue) < QueueCap
<2>1. Queued(item) = Append(queue, item)
  BY <1>2 DEF Queued
<2>2. /\ Append(queue, item) \in Seq(S) /\ Len(Append(queue, item)) = Len(queue) + 1
      /\ \A j \in 1 .. Len(queue) : Append(queue, item)[j] = queue[j]
      /\ Append(queue, item)[Len(queue) + 1] = item
  BY AppendProperties
<2>3. \A j \in 1 .. Len(queue) + 1 : j \in 1 .. Len(queue) \/ j = Len(queue) + 1
  BY <1>1
<2> QED BY <1>1, <1>2, <2>1, <2>2, <2>3
<1>3. CASE ~(Len(queue) < QueueCap)
  BY <1>1, <1>3 DEF Queued
<1> QED BY <1>2, <1>3

-----------------------------------------------------------------------------
(* Types. *)

LEMMA OpShapes ==
  /\ Idle \in Op
  /\ [pc |-> "flush"] \in Op
  /\ \A k \in Keys :
       /\ [pc |-> "stale", key |-> k] \in Op
       /\ [pc |-> "read", key |-> k] \in Op
       /\ [pc |-> "expire", key |-> k] \in Op
       /\ [pc |-> "evict", key |-> k] \in Op
  /\ \A e \in Cached : [pc |-> "hit", entry |-> e] \in Op /\ [pc |-> "queue", entry |-> e] \in Op
  /\ \A row \in Row : [pc |-> "promote", entry |-> row] \in Op
  /\ \A k \in Keys, b \in BOOLEAN : [pc |-> "pin", key |-> k, pinned |-> b] \in Op
BY DEF Op, Idle

LEMMA OpHolds ==
  ASSUME NEW o \in Op
  PROVE  /\ o.pc \in {"stale", "read", "expire", "evict"} => o.key \in Keys
         /\ o.pc \in {"hit", "queue"} => o.entry \in Cached
         /\ o.pc = "promote" => o.entry \in Row
         /\ o.pc = "pin" => o.key \in Keys /\ o.pinned \in BOOLEAN
BY DEF Op

LEMMA OpChanges ==
  ASSUME TypeOK, NEW c \in Clients, NEW o \in Op, op' = [op EXCEPT ![c] = o]
  PROVE  /\ op' \in [Clients -> Op] /\ op'[c] = o
         /\ \A d \in Clients : d # c => op'[d] = op[d]
BY DEF TypeOK

LEMMA OpOfClient ==
  ASSUME TypeOK, NEW c \in Clients
  PROVE  op[c] \in Op
BY DEF TypeOK

LEMMA L1Types ==
  ASSUME TypeOK
  PROVE  /\ Distinct(l1) /\ Len(l1) <= Capacity
         /\ \A k : InL1(k) => L1Entry(k) \in Cached /\ L1Entry(k).key = k
                                /\ \E i \in 1 .. Len(l1) : L1Entry(k) = l1[i]
BY PlaceIsWhereHeld DEF TypeOK, Distinct, InL1, L1Entry

LEMMA AddedTypes ==
  ASSUME TypeOK, NEW e \in Cached, l1' = Added(l1, e)
  PROVE  /\ l1' \in Seq(Cached) /\ Len(l1') <= Capacity /\ OnePerKey(l1')
BY L1Types, AddedKeepsOthers DEF Distinct

LEMMA WithoutTypes ==
  ASSUME TypeOK, NEW k, l1' = Without(l1, k)
  PROVE  l1' \in Seq(Cached) /\ Len(l1') <= Capacity /\ OnePerKey(l1')
<1>1. Distinct(l1) /\ Len(l1) <= Capacity /\ Len(l1) \in Nat
  BY L1Types, LenProperties DEF Distinct
<1>2. Distinct(Without(l1, k)) /\ Len(Without(l1, k)) <= Len(l1)
  BY <1>1, WithoutKeepsOthers
<1>3. Len(Without(l1, k)) \in Nat /\ Capacity \in Nat
  BY <1>2, LenProperties, CacheAssumption DEF Distinct
<1> QED BY <1>1, <1>2, <1>3 DEF Distinct

LEMMA EmptyTypes ==
  /\ <<>> \in Seq(Cached) /\ Len(<<>>) <= Capacity /\ OnePerKey(<<>>)
  /\ <<>> \in Seq(Insert \cup Hit) /\ Len(<<>>) <= QueueCap
BY EmptySeq, CacheAssumption DEF OnePerKey

LEMMA InitTypes == Init => TypeOK
<1> SUFFICES ASSUME Init PROVE TypeOK
  OBVIOUS
<1>1. op \in [Clients -> Op]
  BY OpShapes DEF Init
<1>2. made \in Seq(0 .. MaxTime) /\ Len(made) <= MaxReplies /\ now \in 0 .. MaxTime
  BY EmptySeq, CacheAssumption DEF Init
<1> QED BY <1>1, <1>2, EmptyTypes DEF Init, TypeOK

LEMMA ClientTypes ==
  ASSUME TypeOK, NEW c \in Clients,
         \/ RemoveExpired(c) \/ GetL2(c) \/ DeleteExpired(c) \/ Promote(c)
         \/ QueueHit(c) \/ QueueInsert(c)
         \/ \E k \in Keys : GetL1(c, k) \/ Set(c, k)
  PROVE  TypeOK'
<1>1. op[c] \in Op
  BY OpOfClient
<1>2. CASE RemoveExpired(c)
<2>1. op[c].key \in Keys
  BY <1>1, <1>2, OpHolds DEF RemoveExpired
<2>2. op' \in [Clients -> Op]
  BY <1>2, <2>1, OpShapes, OpChanges DEF RemoveExpired
<2>3. l1' \in Seq(Cached) /\ Len(l1') <= Capacity /\ OnePerKey(l1')
  BY <1>2, WithoutTypes DEF RemoveExpired
<2> QED BY <1>2, <2>2, <2>3 DEF RemoveExpired, TypeOK
<1>3. CASE GetL2(c)
<2>1. \A row \in RowsOf(op[c].key) : row \in Row /\ row.key \in Keys
  BY DEF TypeOK, RowsOf, Row
<2>2. op' \in [Clients -> Op]
<3>1. CASE op' = [op EXCEPT ![c] = Idle]
  BY <3>1, OpShapes, OpChanges
<3>2. CASE \E row \in RowsOf(op[c].key) :
             op' = [op EXCEPT ![c] =
               IF ~row.pinned /\ Expired(row) THEN [pc |-> "expire", key |-> row.key]
               ELSE [pc |-> "promote", entry |-> row]]
<4>1. PICK row \in RowsOf(op[c].key) :
        op' = [op EXCEPT ![c] =
          IF ~row.pinned /\ Expired(row) THEN [pc |-> "expire", key |-> row.key]
          ELSE [pc |-> "promote", entry |-> row]]
  BY <3>2
<4>2. /\ [pc |-> "expire", key |-> row.key] \in Op
      /\ [pc |-> "promote", entry |-> row] \in Op
  BY <2>1, OpShapes
<4> QED BY <4>1, <4>2, OpChanges
<3> QED BY <1>3, <3>1, <3>2 DEF GetL2
<2> QED BY <1>3, <2>2 DEF GetL2, TypeOK
<1>4. CASE DeleteExpired(c)
<2>1. op' \in [Clients -> Op]
  BY <1>4, OpShapes, OpChanges DEF DeleteExpired
<2> QED BY <1>4, <2>1 DEF DeleteExpired, TypeOK
<1>5. CASE Promote(c)
<2> DEFINE e == [key |-> op[c].entry.key, reply |-> op[c].entry.reply,
                 created |-> op[c].entry.created]
<2>1. e \in Cached
<3>1. op[c].entry \in Row
  BY <1>1, <1>5, OpHolds DEF Promote
<3> QED BY <3>1 DEF Row, Cached
<2>2. l1' = Added(l1, e) /\ op' = [op EXCEPT ![c] = [pc |-> "hit", entry |-> e]]
  BY <1>5 DEF Promote
<2> HIDE DEF e
<2>3. op' \in [Clients -> Op]
  BY <2>1, <2>2, OpShapes, OpChanges
<2>4. l1' \in Seq(Cached) /\ Len(l1') <= Capacity /\ OnePerKey(l1')
  BY <2>1, <2>2, AddedTypes
<2> QED BY <1>5, <2>3, <2>4 DEF Promote, TypeOK
<1>6. CASE QueueHit(c)
<2>1. op' \in [Clients -> Op]
  BY <1>6, OpShapes, OpChanges DEF QueueHit
<2>2. queue' \in Seq(Insert \cup Hit) /\ Len(queue') <= QueueCap
<3>1. HitTask \in Insert \cup Hit
  BY DEF HitTask, Hit
<3>2. queue \in Seq(Insert \cup Hit) /\ Len(queue) <= QueueCap
  BY DEF TypeOK
<3> QED BY <1>6, <3>1, <3>2, QueuedAddsOne DEF QueueHit
<2> QED BY <1>6, <2>1, <2>2 DEF QueueHit, TypeOK
<1>7. CASE QueueInsert(c)
<2>1. op' \in [Clients -> Op]
  BY <1>7, OpShapes, OpChanges DEF QueueInsert
<2>2. queue' \in Seq(Insert \cup Hit) /\ Len(queue') <= QueueCap
<3> DEFINE item == [kind |-> "insert", entry |-> op[c].entry, late |-> worker # "running"]
<3>1. item \in Insert \cup Hit
<4>1. op[c].entry \in Cached
  BY <1>1, <1>7, OpHolds DEF QueueInsert
<4> QED BY <4>1 DEF Insert
<3>2. queue \in Seq(Insert \cup Hit) /\ Len(queue) <= QueueCap
  BY DEF TypeOK
<3>3. queue' = Queued(item)
  BY <1>7 DEF QueueInsert
<3> HIDE DEF item
<3> QED BY <3>1, <3>2, <3>3, QueuedAddsOne
<2> QED BY <1>7, <2>1, <2>2 DEF QueueInsert, TypeOK
<1>8. ASSUME NEW k \in Keys, GetL1(c, k)
      PROVE  TypeOK'
<2>1. op' \in [Clients -> Op]
<3> DEFINE o == IF ~InL1(k) THEN [pc |-> "read", key |-> k]
                ELSE IF Expired(L1Entry(k)) THEN [pc |-> "stale", key |-> k]
                ELSE [pc |-> "hit", entry |-> L1Entry(k)]
<3>1. o \in Op
  BY OpShapes, L1Types
<3>2. op' = [op EXCEPT ![c] = o]
  BY <1>8 DEF GetL1
<3> HIDE DEF o
<3> QED BY <3>1, <3>2, OpChanges
<2>2. l1' \in Seq(Cached) /\ Len(l1') <= Capacity /\ OnePerKey(l1')
<3>1. CASE InL1(k)
  BY <1>8, <3>1, L1Types, AddedTypes DEF GetL1
<3>2. CASE ~InL1(k)
  BY <1>8, <3>2, L1Types DEF GetL1, Distinct
<3> QED BY <3>1, <3>2
<2> QED BY <1>8, <2>1, <2>2 DEF GetL1, TypeOK
<1>9. ASSUME NEW k \in Keys, Set(c, k)
      PROVE  TypeOK'
<2> DEFINE e == [key |-> k, reply |-> Len(made) + 1, created |-> now]
<2>1. e \in Cached
<3>1. Len(made) + 1 \in Reply
  BY <1>9, LenProperties, CacheAssumption DEF Set, TypeOK, Reply
<3> QED BY <3>1 DEF Cached, TypeOK
<2>2. l1' = Added(l1, e) /\ op' = [op EXCEPT ![c] = [pc |-> "queue", entry |-> e]]
  BY <1>9 DEF Set
<2> HIDE DEF e
<2>3. op' \in [Clients -> Op]
  BY <2>1, <2>2, OpShapes, OpChanges
<2>4. l1' \in Seq(Cached) /\ Len(l1') <= Capacity /\ OnePerKey(l1')
  BY <2>1, <2>2, AddedTypes
<2>5. made' \in Seq(0 .. MaxTime) /\ Len(made') <= MaxReplies
<3>1. made \in Seq(0 .. MaxTime) /\ now \in 0 .. MaxTime /\ Len(made) \in Nat
  BY LenProperties DEF TypeOK
<3>2. Append(made, now) \in Seq(0 .. MaxTime) /\ Len(Append(made, now)) = Len(made) + 1
  BY <3>1, AppendProperties
<3> QED BY <1>9, <3>1, <3>2, CacheAssumption DEF Set
<2> QED BY <1>9, <2>3, <2>4, <2>5 DEF Set, TypeOK
<1> QED BY <1>2, <1>3, <1>4, <1>5, <1>6, <1>7, <1>8, <1>9

LEMMA AdminTypes ==
  ASSUME TypeOK, NEW c \in Admins,
         \/ DeleteL2(c) \/ FlushMemory(c) \/ WritePin(c)
         \/ \E k \in Keys : DeleteL1(c, k) \/ ReadPin(c, k)
         \/ \E ks \in SUBSET Keys : PurgeL2(c, ks)
  PROVE  TypeOK'
<1>1. c \in Clients /\ op[c] \in Op
  BY OpOfClient, CacheAssumption
<1>2. CASE DeleteL2(c)
<2>1. op' \in [Clients -> Op]
  BY <1>1, <1>2, OpShapes, OpChanges DEF DeleteL2
<2> QED BY <1>2, <2>1 DEF DeleteL2, TypeOK
<1>3. CASE FlushMemory(c)
<2>1. op' \in [Clients -> Op]
  BY <1>1, <1>3, OpShapes, OpChanges DEF FlushMemory
<2> QED BY <1>3, <2>1, EmptyTypes DEF FlushMemory, TypeOK
<1>4. CASE WritePin(c)
<2>1. op' \in [Clients -> Op]
  BY <1>1, <1>4, OpShapes, OpChanges DEF WritePin
<2>2. op[c].pinned \in BOOLEAN
  BY <1>1, <1>4, OpHolds DEF WritePin
<2> DEFINE written(row) == IF row.key = op[c].key THEN RowOf(row, op[c].pinned) ELSE row
<2>3. \A row \in l2 : written(row) \in Row /\ written(row).key = row.key
  BY <2>2, RowOfIsRow DEF TypeOK
<2>4. l2' = {written(row) : row \in l2}
  BY <1>4 DEF WritePin
<2> HIDE DEF written
<2>5. l2' \subseteq Row /\ \A x, y \in l2' : x.key = y.key => x = y
  BY <2>3, <2>4 DEF TypeOK
<2> QED BY <1>4, <2>1, <2>5 DEF WritePin, TypeOK
<1>5. ASSUME NEW k \in Keys, DeleteL1(c, k)
      PROVE  TypeOK'
<2>1. op' \in [Clients -> Op]
  BY <1>1, <1>5, OpShapes, OpChanges DEF DeleteL1
<2>2. l1' \in Seq(Cached) /\ Len(l1') <= Capacity /\ OnePerKey(l1')
  BY <1>5, WithoutTypes DEF DeleteL1
<2> QED BY <1>5, <2>1, <2>2 DEF DeleteL1, TypeOK
<1>6. ASSUME NEW k \in Keys, ReadPin(c, k)
      PROVE  TypeOK'
<2>1. PICK row \in RowsOf(k) :
        op' = [op EXCEPT ![c] = [pc |-> "pin", key |-> k, pinned |-> ~row.pinned]]
  BY <1>6 DEF ReadPin
<2>2. [pc |-> "pin", key |-> k, pinned |-> ~row.pinned] \in Op
  BY OpShapes
<2>3. op' \in [Clients -> Op]
  BY <1>1, <2>1, <2>2, OpChanges
<2> QED BY <1>6, <2>3 DEF ReadPin, TypeOK
<1>7. ASSUME NEW ks \in SUBSET Keys, PurgeL2(c, ks)
      PROVE  TypeOK'
<2>1. op' \in [Clients -> Op]
  BY <1>1, <1>7, OpShapes, OpChanges DEF PurgeL2
<2> QED BY <1>7, <2>1 DEF PurgeL2, TypeOK
<1> QED BY <1>2, <1>3, <1>4, <1>5, <1>6, <1>7

LEMMA HeadTask ==
  ASSUME TypeOK, queue # <<>>
  PROVE  /\ Head(queue) = queue[1] /\ 1 \in 1 .. Len(queue)
         /\ Head(queue).kind = "insert" => Head(queue).entry \in Cached
         /\ Tail(queue) \in Seq(Insert \cup Hit) /\ Len(Tail(queue)) <= QueueCap
         /\ \A j \in 1 .. Len(Tail(queue)) : \E i \in 1 .. Len(queue) : Tail(queue)[j] = queue[i]
<1>1. queue \in Seq(Insert \cup Hit) /\ Len(queue) <= QueueCap /\ Len(queue) \in Nat
  BY LenProperties DEF TypeOK
<1>2. /\ Len(queue) # 0 /\ Head(queue) = queue[1] /\ Head(queue) \in Insert \cup Hit
      /\ Tail(queue) \in Seq(Insert \cup Hit) /\ Len(Tail(queue)) = Len(queue) - 1
      /\ \A j \in 1 .. Len(Tail(queue)) : Tail(queue)[j] = queue[j + 1]
  BY <1>1, HeadTailProperties, EmptySeq
<1>3. Head(queue).kind = "insert" => Head(queue).entry \in Cached
  BY <1>2 DEF Insert, Hit
<1>4. \A j \in 1 .. Len(Tail(queue)) : j + 1 \in 1 .. Len(queue)
  BY <1>1, <1>2
<1>5. QueueCap \in Nat
  BY CacheAssumption
<1> QED BY <1>1, <1>2, <1>3, <1>4, <1>5

LEMMA UpsertedTypes ==
  ASSUME TypeOK, NEW e \in Cached
  PROVE  /\ Upserted(e) \subseteq Row
         /\ \A x, y \in Upserted(e) : x.key = y.key => x = y
<1> DEFINE new == RowOf(e, \E row \in RowsOf(e.key) : row.pinned)
<1>1. new \in Row /\ new.key = e.key
  BY RowOfIsRow
<1>2. Upserted(e) = (l2 \ RowsOf(e.key)) \cup {new}
  BY DEF Upserted
<1>3. \A x \in l2 \ RowsOf(e.key) : x \in l2 /\ x.key # e.key
  BY DEF RowsOf
<1> HIDE DEF new
<1> QED BY <1>1, <1>2, <1>3 DEF TypeOK

LEMMA WorkerTypes ==
  ASSUME TypeOK, ProcessTask \/ Close \/ Exit \/ Restart \/ Tick
  PROVE  TypeOK'
<1>1. CASE ProcessTask
<2>1. queue # <<>> /\ queue' = Tail(queue)
  BY <1>1 DEF ProcessTask
<2>2. l2' = l2 \/ (Head(queue).kind = "insert" /\ l2' = Upserted(Head(queue).entry))
  BY <1>1 DEF ProcessTask
<2>3. l2' \subseteq Row /\ \A x, y \in l2' : x.key = y.key => x = y
  BY <2>1, <2>2, HeadTask, UpsertedTypes DEF TypeOK
<2>4. queue' \in Seq(Insert \cup Hit) /\ Len(queue') <= QueueCap
  BY <2>1, HeadTask
<2> QED BY <1>1, <2>3, <2>4 DEF ProcessTask, TypeOK
<1>2. CASE Close
  BY <1>2 DEF Close, TypeOK
<1>3. CASE Exit
  BY <1>3 DEF Exit, TypeOK
<1>4. CASE Restart
<2>1. op' \in [Clients -> Op]
  BY <1>4, OpShapes DEF Restart
<2> QED BY <1>4, <2>1, EmptyTypes DEF Restart, TypeOK
<1>5. CASE Tick
  BY <1>5, CacheAssumption DEF Tick, TypeOK
<1> QED BY <1>1, <1>2, <1>3, <1>4, <1>5

LEMMA StepTypes == TypeOK /\ [Next]_vars => TypeOK'
<1> SUFFICES ASSUME TypeOK, [Next]_vars PROVE TypeOK'
  OBVIOUS
<1>1. CASE UNCHANGED vars
  BY <1>1 DEF vars, TypeOK
<1>2. CASE Next
  BY <1>2, ClientTypes, AdminTypes, WorkerTypes DEF Next
<1> QED BY <1>1, <1>2

\* Through every interleaving of lookups, inserts, deletions, purges, pins, the
\* worker and restarts, the memory tier holds one entry per hash within its
\* capacity, the table one row per hash, and the queue no more than its bound.
THEOREM TypeCorrect == Spec => []TypeOK
BY InitTypes, StepTypes, PTL DEF Spec

-----------------------------------------------------------------------------
(* Every copy is genuine. *)

LEMMA MadeGrows ==
  ASSUME TypeOK, \/ made' = made
                 \/ made' = Append(made, now)
  PROVE  \A e : Genuine(e) => e.reply \in 1 .. Len(made') /\ e.created = made'[e.reply]
<1>1. CASE made' = made
  BY <1>1 DEF Genuine
<1>2. CASE made' = Append(made, now)
<2>1. made \in Seq(0 .. MaxTime) /\ now \in 0 .. MaxTime /\ Len(made) \in Nat
  BY LenProperties DEF TypeOK
<2>2. /\ Len(made') = Len(made) + 1
      /\ \A i \in 1 .. Len(made) : made'[i] = made[i]
  BY <1>2, <2>1, AppendProperties
<2> QED BY <2>1, <2>2 DEF Genuine
<1> QED BY <1>1, <1>2

LEMMA AddedGenuine ==
  ASSUME TypeOK, CopiesGenuine, NEW e \in Cached, Genuine(e), l1' = Added(l1, e), made' = made
  PROVE  \A i \in 1 .. Len(l1') : Genuine(l1'[i])
<1>1. \A j \in 1 .. Len(l1') : l1'[j] = e \/ \E i \in 1 .. Len(l1) : l1'[j] = l1[i]
  BY L1Types, AddedKeepsOthers
<1> QED BY <1>1 DEF CopiesGenuine

LEMMA WithoutGenuine ==
  ASSUME TypeOK, CopiesGenuine, NEW k, l1' = Without(l1, k)
  PROVE  \A i \in 1 .. Len(l1') : Genuine(l1'[i])
<1>1. \A j \in 1 .. Len(l1') : \E i \in 1 .. Len(l1) : l1'[j] = l1[i]
  BY L1Types, WithoutKeepsOthers
<1> QED BY <1>1 DEF CopiesGenuine

LEMMA QueuedGenuine ==
  ASSUME TypeOK, CopiesGenuine, NEW item \in Insert \cup Hit, queue' = Queued(item),
         item.kind = "insert" => Genuine(item.entry)
  PROVE  \A i \in 1 .. Len(queue') : queue'[i].kind = "insert" => Genuine(queue'[i].entry)
<1>1. queue \in Seq(Insert \cup Hit) /\ Len(queue) <= QueueCap
  BY DEF TypeOK
<1>2. \A j \in 1 .. Len(queue') :
        queue'[j] = item \/ \E i \in 1 .. Len(queue) : queue'[j] = queue[i]
  BY <1>1, QueuedAddsOne
<1> QED BY <1>2 DEF CopiesGenuine

LEMMA OpGenuine ==
  ASSUME TypeOK, CopiesGenuine, NEW c \in Clients, NEW o \in Op,
         o.pc \in {"hit", "queue", "promote"} => Genuine(o.entry),
         op' = [op EXCEPT ![c] = o]
  PROVE  \A d \in Clients : op'[d].pc \in {"hit", "queue", "promote"} => Genuine(op'[d].entry)
BY OpChanges DEF CopiesGenuine

LEMMA IdleGenuine ==
  ASSUME TypeOK, CopiesGenuine, NEW c \in Clients, op' = [op EXCEPT ![c] = Idle]
  PROVE  \A d \in Clients : op'[d].pc \in {"hit", "queue", "promote"} => Genuine(op'[d].entry)
<1>1. Idle.pc = "idle"
  BY DEF Idle
<1> QED BY <1>1, OpShapes, OpGenuine

LEMMA ClientGenuine ==
  ASSUME TypeOK, CopiesGenuine, NEW c \in Clients,
         \/ RemoveExpired(c) \/ GetL2(c) \/ DeleteExpired(c) \/ Promote(c)
         \/ QueueHit(c) \/ QueueInsert(c)
         \/ \E k \in Keys : GetL1(c, k) \/ Set(c, k)
  PROVE  CopiesGenuine'
<1>1. op[c] \in Op
  BY OpOfClient
<1>2. CASE RemoveExpired(c)
<2>1. op[c].key \in Keys
  BY <1>1, <1>2, OpHolds DEF RemoveExpired
<2>2. \A d \in Clients : op'[d].pc \in {"hit", "queue", "promote"} => Genuine(op'[d].entry)
  BY <1>2, <2>1, OpShapes, OpGenuine DEF RemoveExpired
<2>3. \A i \in 1 .. Len(l1') : Genuine(l1'[i])
  BY <1>2, WithoutGenuine DEF RemoveExpired
<2> QED BY <1>2, <2>2, <2>3 DEF RemoveExpired, CopiesGenuine, Genuine
<1>3. CASE GetL2(c)
<2>1. \A row \in RowsOf(op[c].key) : row \in Row /\ row.key \in Keys /\ Genuine(row)
  BY DEF TypeOK, RowsOf, Row, CopiesGenuine
<2>2. \A d \in Clients : op'[d].pc \in {"hit", "queue", "promote"} => Genuine(op'[d].entry)
<3>1. CASE op' = [op EXCEPT ![c] = Idle]
  BY <3>1, IdleGenuine
<3>2. CASE \E row \in RowsOf(op[c].key) :
             op' = [op EXCEPT ![c] =
               IF ~row.pinned /\ Expired(row) THEN [pc |-> "expire", key |-> row.key]
               ELSE [pc |-> "promote", entry |-> row]]
<4>1. PICK row \in RowsOf(op[c].key) :
        op' = [op EXCEPT ![c] =
          IF ~row.pinned /\ Expired(row) THEN [pc |-> "expire", key |-> row.key]
          ELSE [pc |-> "promote", entry |-> row]]
  BY <3>2
<4>2. /\ [pc |-> "expire", key |-> row.key] \in Op
      /\ [pc |-> "promote", entry |-> row] \in Op
  BY <2>1, OpShapes
<4> QED BY <2>1, <4>1, <4>2, OpGenuine
<3> QED BY <1>3, <3>1, <3>2 DEF GetL2
<2> QED BY <1>3, <2>2 DEF GetL2, CopiesGenuine, Genuine
<1>4. CASE DeleteExpired(c)
<2>1. \A d \in Clients : op'[d].pc \in {"hit", "queue", "promote"} => Genuine(op'[d].entry)
  BY <1>4, IdleGenuine DEF DeleteExpired
<2> QED BY <1>4, <2>1 DEF DeleteExpired, CopiesGenuine, Genuine
<1>5. CASE Promote(c)
<2> DEFINE e == [key |-> op[c].entry.key, reply |-> op[c].entry.reply,
                 created |-> op[c].entry.created]
<2>1. e \in Cached /\ Genuine(e)
<3>1. op[c].entry \in Row /\ Genuine(op[c].entry)
  BY <1>1, <1>5, OpHolds DEF Promote, CopiesGenuine
<3> QED BY <3>1 DEF Row, Cached, Genuine
<2>2. /\ l1' = Added(l1, e) /\ op' = [op EXCEPT ![c] = [pc |-> "hit", entry |-> e]]
      /\ UNCHANGED <<l2, queue, worker, made, now>>
  BY <1>5 DEF Promote
<2> HIDE DEF e
<2>3. \A d \in Clients : op'[d].pc \in {"hit", "queue", "promote"} => Genuine(op'[d].entry)
  BY <2>1, <2>2, OpShapes, OpGenuine
<2>4. \A i \in 1 .. Len(l1') : Genuine(l1'[i])
  BY <2>1, <2>2, AddedGenuine
<2> QED BY <2>2, <2>3, <2>4 DEF CopiesGenuine, Genuine
<1>6. CASE QueueHit(c)
<2>1. \A d \in Clients : op'[d].pc \in {"hit", "queue", "promote"} => Genuine(op'[d].entry)
  BY <1>6, IdleGenuine DEF QueueHit
<2>2. \A i \in 1 .. Len(queue') : queue'[i].kind = "insert" => Genuine(queue'[i].entry)
<3>1. HitTask \in Insert \cup Hit /\ HitTask.kind # "insert"
  BY DEF HitTask, Hit
<3> QED BY <1>6, <3>1, QueuedGenuine DEF QueueHit
<2> QED BY <1>6, <2>1, <2>2 DEF QueueHit, CopiesGenuine, Genuine
<1>7. CASE QueueInsert(c)
<2>1. \A d \in Clients : op'[d].pc \in {"hit", "queue", "promote"} => Genuine(op'[d].entry)
  BY <1>7, IdleGenuine DEF QueueInsert
<2> DEFINE item == [kind |-> "insert", entry |-> op[c].entry, late |-> worker # "running"]
<2>2. item \in Insert \cup Hit /\ Genuine(item.entry)
<3>1. op[c].entry \in Cached /\ Genuine(op[c].entry)
  BY <1>1, <1>7, OpHolds DEF QueueInsert, CopiesGenuine
<3> QED BY <3>1 DEF Insert
<2>3. queue' = Queued(item) /\ UNCHANGED <<l1, l2, worker, made, now>>
  BY <1>7 DEF QueueInsert
<2> HIDE DEF item
<2>4. \A i \in 1 .. Len(queue') : queue'[i].kind = "insert" => Genuine(queue'[i].entry)
  BY <2>2, <2>3, QueuedGenuine
<2> QED BY <2>1, <2>3, <2>4 DEF CopiesGenuine, Genuine
<1>8. ASSUME NEW k \in Keys, GetL1(c, k)
      PROVE  CopiesGenuine'
<2>1. InL1(k) => L1Entry(k) \in Cached /\ Genuine(L1Entry(k))
  BY L1Types DEF CopiesGenuine
<2>2. \A d \in Clients : op'[d].pc \in {"hit", "queue", "promote"} => Genuine(op'[d].entry)
<3> DEFINE o == IF ~InL1(k) THEN [pc |-> "read", key |-> k]
                ELSE IF Expired(L1Entry(k)) THEN [pc |-> "stale", key |-> k]
                ELSE [pc |-> "hit", entry |-> L1Entry(k)]
<3>1. o \in Op /\ (o.pc \in {"hit", "queue", "promote"} => Genuine(o.entry))
  BY <2>1, OpShapes
<3>2. op' = [op EXCEPT ![c] = o]
  BY <1>8 DEF GetL1
<3> HIDE DEF o
<3> QED BY <3>1, <3>2, OpGenuine
<2>3. \A i \in 1 .. Len(l1') : Genuine(l1'[i])
<3>1. CASE InL1(k)
  BY <1>8, <2>1, <3>1, AddedGenuine DEF GetL1
<3>2. CASE ~InL1(k)
  BY <1>8, <3>2 DEF GetL1, CopiesGenuine
<3> QED BY <3>1, <3>2
<2> QED BY <1>8, <2>2, <2>3 DEF GetL1, CopiesGenuine, Genuine
<1>9. ASSUME NEW k \in Keys, Set(c, k)
      PROVE  CopiesGenuine'
<2> DEFINE e == [key |-> k, reply |-> Len(made) + 1, created |-> now]
<2>1. made' = Append(made, now) /\ UNCHANGED <<l2, queue, worker, now>>
  BY <1>9 DEF Set
<2>2. e \in Cached /\ e.reply \in 1 .. Len(made') /\ e.created = made'[e.reply]
<3>1. /\ made \in Seq(0 .. MaxTime) /\ now \in 0 .. MaxTime /\ Len(made) \in Nat
      /\ Len(made) + 1 \in Reply
  BY <1>9, LenProperties, CacheAssumption DEF Set, TypeOK, Reply
<3>2. Len(made') = Len(made) + 1 /\ made'[Len(made) + 1] = now
  BY <2>1, <3>1, AppendProperties
<3> QED BY <3>1, <3>2 DEF Cached
<2>3. l1' = Added(l1, e) /\ op' = [op EXCEPT ![c] = [pc |-> "queue", entry |-> e]]
  BY <1>9 DEF Set
<2> HIDE DEF e
<2>4. \A x : Genuine(x) => x.reply \in 1 .. Len(made') /\ x.created = made'[x.reply]
  BY <2>1, MadeGrows
<2>5. \A i \in 1 .. Len(l1') :
        l1'[i].reply \in 1 .. Len(made') /\ l1'[i].created = made'[l1'[i].reply]
<3>1. \A j \in 1 .. Len(l1') : l1'[j] = e \/ \E i \in 1 .. Len(l1) : l1'[j] = l1[i]
  BY <2>2, <2>3, L1Types, AddedKeepsOthers
<3> QED BY <2>2, <2>4, <3>1 DEF CopiesGenuine
<2>6. \A row \in l2' : row.reply \in 1 .. Len(made') /\ row.created = made'[row.reply]
  BY <2>1, <2>4 DEF CopiesGenuine
<2>7. \A i \in 1 .. Len(queue') : queue'[i].kind = "insert" =>
        /\ queue'[i].entry.reply \in 1 .. Len(made')
        /\ queue'[i].entry.created = made'[queue'[i].entry.reply]
  BY <2>1, <2>4 DEF CopiesGenuine
<2>8. \A d \in Clients : op'[d].pc \in {"hit", "queue", "promote"} =>
        /\ op'[d].entry.reply \in 1 .. Len(made')
        /\ op'[d].entry.created = made'[op'[d].entry.reply]
<3>1. op'[c] = [pc |-> "queue", entry |-> e] /\ \A d \in Clients : d # c => op'[d] = op[d]
  BY <2>2, <2>3, OpShapes, OpChanges
<3> QED BY <2>2, <2>4, <3>1 DEF CopiesGenuine
<2> QED BY <2>5, <2>6, <2>7, <2>8 DEF CopiesGenuine, Genuine
<1> QED BY <1>2, <1>3, <1>4, <1>5, <1>6, <1>7, <1>8, <1>9

LEMMA AdminGenuine ==
  ASSUME TypeOK, CopiesGenuine, NEW c \in Admins,
         \/ DeleteL2(c) \/ FlushMemory(c) \/ WritePin(c)
         \/ \E k \in Keys : DeleteL1(c, k) \/ ReadPin(c, k)
         \/ \E ks \in SUBSET Keys : PurgeL2(c, ks)
  PROVE  CopiesGenuine'
<1>1. c \in Clients /\ op[c] \in Op
  BY OpOfClient, CacheAssumption
<1>2. CASE DeleteL2(c)
<2>1. \A d \in Clients : op'[d].pc \in {"hit", "queue", "promote"} => Genuine(op'[d].entry)
  BY <1>1, <1>2, IdleGenuine DEF DeleteL2
<2> QED BY <1>2, <2>1 DEF DeleteL2, CopiesGenuine, Genuine
<1>3. CASE FlushMemory(c)
<2>1. \A d \in Clients : op'[d].pc \in {"hit", "queue", "promote"} => Genuine(op'[d].entry)
  BY <1>1, <1>3, IdleGenuine DEF FlushMemory
<2>2. Len(<<>>) = 0
  BY EmptySeq
<2> QED BY <1>3, <2>1, <2>2 DEF FlushMemory, CopiesGenuine, Genuine
<1>4. CASE WritePin(c)
<2>1. \A d \in Clients : op'[d].pc \in {"hit", "queue", "promote"} => Genuine(op'[d].entry)
  BY <1>1, <1>4, IdleGenuine DEF WritePin
<2>2. op[c].pinned \in BOOLEAN
  BY <1>1, <1>4, OpHolds DEF WritePin
<2> DEFINE written(row) == IF row.key = op[c].key THEN RowOf(row, op[c].pinned) ELSE row
<2>3. \A row \in l2 : written(row).reply = row.reply /\ written(row).created = row.created
  BY <2>2, RowOfIsRow DEF TypeOK
<2>4. l2' = {written(row) : row \in l2}
  BY <1>4 DEF WritePin
<2> HIDE DEF written
<2>5. \A row \in l2' : Genuine(row)
  BY <2>3, <2>4 DEF CopiesGenuine, Genuine
<2> QED BY <1>4, <2>1, <2>5 DEF WritePin, CopiesGenuine, Genuine
<1>5. ASSUME NEW k \in Keys, DeleteL1(c, k)
      PROVE  CopiesGenuine'
<2>1. \A d \in Clients : op'[d].pc \in {"hit", "queue", "promote"} => Genuine(op'[d].entry)
  BY <1>1, <1>5, OpShapes, OpGenuine DEF DeleteL1
<2>2. \A i \in 1 .. Len(l1') : Genuine(l1'[i])
  BY <1>5, WithoutGenuine DEF DeleteL1
<2> QED BY <1>5, <2>1, <2>2 DEF DeleteL1, CopiesGenuine, Genuine
<1>6. ASSUME NEW k \in Keys, ReadPin(c, k)
      PROVE  CopiesGenuine'
<2>1. PICK row \in RowsOf(k) :
        op' = [op EXCEPT ![c] = [pc |-> "pin", key |-> k, pinned |-> ~row.pinned]]
  BY <1>6 DEF ReadPin
<2>2. \A d \in Clients : op'[d].pc \in {"hit", "queue", "promote"} => Genuine(op'[d].entry)
  BY <1>1, <2>1, OpShapes, OpGenuine
<2> QED BY <1>6, <2>2 DEF ReadPin, CopiesGenuine, Genuine
<1>7. ASSUME NEW ks \in SUBSET Keys, PurgeL2(c, ks)
      PROVE  CopiesGenuine'
<2>1. \A d \in Clients : op'[d].pc \in {"hit", "queue", "promote"} => Genuine(op'[d].entry)
  BY <1>1, <1>7, OpShapes, OpGenuine DEF PurgeL2
<2> QED BY <1>7, <2>1 DEF PurgeL2, CopiesGenuine, Genuine
<1> QED BY <1>2, <1>3, <1>4, <1>5, <1>6, <1>7

LEMMA WorkerGenuine ==
  ASSUME TypeOK, CopiesGenuine, ProcessTask \/ Close \/ Exit \/ Restart \/ Tick
  PROVE  CopiesGenuine'
<1>1. CASE ProcessTask
<2>1. queue # <<>> /\ queue' = Tail(queue) /\ UNCHANGED <<l1, worker, op, made, now>>
  BY <1>1 DEF ProcessTask
<2>2. l2' = l2 \/ (Head(queue).kind = "insert" /\ l2' = Upserted(Head(queue).entry))
  BY <1>1 DEF ProcessTask
<2>3. Head(queue).kind = "insert" =>
        Head(queue).entry \in Cached /\ Genuine(Head(queue).entry)
  BY <2>1, HeadTask DEF CopiesGenuine
<2>4. ASSUME NEW e \in Cached, Genuine(e)
      PROVE  \A row \in Upserted(e) : Genuine(row)
<3> DEFINE new == RowOf(e, \E row \in RowsOf(e.key) : row.pinned)
<3>1. Genuine(new)
  BY <2>4, RowOfIsRow DEF Genuine
<3>2. Upserted(e) = (l2 \ RowsOf(e.key)) \cup {new}
  BY DEF Upserted
<3> HIDE DEF new
<3> QED BY <3>1, <3>2 DEF CopiesGenuine
<2>5. \A row \in l2' : Genuine(row)
  BY <2>2, <2>3, <2>4 DEF CopiesGenuine
<2>6. \A i \in 1 .. Len(queue') : queue'[i].kind = "insert" => Genuine(queue'[i].entry)
  BY <2>1, HeadTask DEF CopiesGenuine
<2> QED BY <2>1, <2>5, <2>6 DEF CopiesGenuine, Genuine
<1>2. CASE Close
  BY <1>2 DEF Close, CopiesGenuine, Genuine
<1>3. CASE Exit
  BY <1>3 DEF Exit, CopiesGenuine, Genuine
<1>4. CASE Restart
<2>1. Len(<<>>) = 0
  BY EmptySeq
<2>2. \A d \in Clients : op'[d].pc = "idle"
  BY <1>4 DEF Restart, Idle
<2> QED BY <1>4, <2>1, <2>2 DEF Restart, CopiesGenuine, Genuine
<1>5. CASE Tick
  BY <1>5 DEF Tick, CopiesGenuine, Genuine
<1> QED BY <1>1, <1>2, <1>3, <1>4, <1>5

LEMMA StepInductive == Inductive /\ [Next]_vars => Inductive'
<1> SUFFICES ASSUME TypeOK, CopiesGenuine, [Next]_vars PROVE CopiesGenuine'
  BY StepTypes DEF Inductive
<1>1. CASE UNCHANGED vars
  BY <1>1 DEF vars, CopiesGenuine, Genuine
<1>2. CASE Next
  BY <1>2, ClientGenuine, AdminGenuine, WorkerGenuine DEF Next
<1> QED BY <1>1, <1>2

LEMMA InitInductive == Init => Inductive
<1> SUFFICES ASSUME Init PROVE CopiesGenuine
  BY InitTypes DEF Inductive
<1>1. Len(<<>>) = 0
  BY EmptySeq
<1>2. \A c \in Clients : op[c].pc = "idle"
  BY DEF Init, Idle
<1> QED BY <1>1, <1>2 DEF Init, CopiesGenuine

-----------------------------------------------------------------------------
(* Only the two reads of a lookup decide what is served. *)

LEMMA OthersKeepTheirOp ==
  ASSUME TypeOK, NEW c \in Clients, NEW d \in Clients, d # c,
         \/ RemoveExpired(d) \/ GetL2(d) \/ DeleteExpired(d) \/ Promote(d)
         \/ QueueHit(d) \/ QueueInsert(d)
         \/ \E k \in Keys : GetL1(d, k) \/ Set(d, k)
         \/ DeleteL2(d) \/ FlushMemory(d) \/ WritePin(d)
         \/ \E k \in Keys : DeleteL1(d, k) \/ ReadPin(d, k)
         \/ \E ks \in SUBSET Keys : PurgeL2(d, ks)
  PROVE  op'[c] = op[c]
<1>1. \E o : op' = [op EXCEPT ![d] = o]
  BY DEF RemoveExpired, GetL2, DeleteExpired, Promote, QueueHit, QueueInsert, GetL1, Set,
         DeleteL2, FlushMemory, WritePin, DeleteL1, ReadPin, PurgeL2
<1> QED BY <1>1 DEF TypeOK

LEMMA ReadsServe ==
  ASSUME TypeOK, [Next]_vars, NEW c \in Clients,
         op[c].pc \in {"idle", "read"}, op'[c].pc \in {"hit", "promote"}
  PROVE  GetL2(c) \/ \E k \in Keys : GetL1(c, k)
<1> DEFINE Client(d) ==
             \/ RemoveExpired(d) \/ GetL2(d) \/ DeleteExpired(d) \/ Promote(d)
             \/ QueueHit(d) \/ QueueInsert(d)
             \/ \E k \in Keys : GetL1(d, k) \/ Set(d, k)
           Admin(d) ==
             \/ DeleteL2(d) \/ FlushMemory(d) \/ WritePin(d)
             \/ \E k \in Keys : DeleteL1(d, k) \/ ReadPin(d, k)
             \/ \E ks \in SUBSET Keys : PurgeL2(d, ks)
<1>1. op'[c] # op[c]
  OBVIOUS
<1>2. ~(UNCHANGED vars \/ Close \/ Exit \/ Tick \/ ProcessTask \/ Restart)
  BY <1>1 DEF vars, Close, Exit, Tick, ProcessTask, Restart, Idle
<1>3. Client(c) \/ (Admin(c) /\ c \in Admins)
<2>1. \E d \in Clients : Client(d) \/ (Admin(d) /\ d \in Admins)
  BY <1>2, CacheAssumption DEF Next
<2>2. PICK d \in Clients : Client(d) \/ (Admin(d) /\ d \in Admins)
  BY <2>1
<2>3. d = c
  BY <1>1, <2>2, OthersKeepTheirOp
<2> QED BY <2>2, <2>3
<1>4. op[c].pc \notin {"stale", "expire", "evict", "hit", "queue", "promote", "pin", "flush"}
  OBVIOUS
<1>5. ~(RemoveExpired(c) \/ DeleteExpired(c) \/ Promote(c) \/ QueueHit(c) \/ QueueInsert(c)
        \/ DeleteL2(c) \/ FlushMemory(c) \/ WritePin(c))
  BY <1>4 DEF RemoveExpired, DeleteExpired, Promote, QueueHit, QueueInsert, DeleteL2,
              FlushMemory, WritePin
<1>6. op \in [Clients -> Op]
  BY DEF TypeOK
<1>7. ~\E k \in Keys : Set(c, k) \/ DeleteL1(c, k) \/ ReadPin(c, k)
<2>1. ASSUME NEW k \in Keys, Set(c, k)
      PROVE  op'[c].pc = "queue"
<3>1. op'[c] = [pc |-> "queue",
                entry |-> [key |-> k, reply |-> Len(made) + 1, created |-> now]]
  BY <1>6, <2>1 DEF Set
<3> QED BY <3>1
<2>2. ASSUME NEW k \in Keys, DeleteL1(c, k)
      PROVE  op'[c].pc = "evict"
<3>1. op'[c] = [pc |-> "evict", key |-> k]
  BY <1>6, <2>2 DEF DeleteL1
<3> QED BY <3>1
<2>3. ASSUME NEW k \in Keys, ReadPin(c, k)
      PROVE  op'[c].pc = "pin"
<3>1. PICK row \in RowsOf(k) :
        op' = [op EXCEPT ![c] = [pc |-> "pin", key |-> k, pinned |-> ~row.pinned]]
  BY <2>3 DEF ReadPin
<3>2. op'[c] = [pc |-> "pin", key |-> k, pinned |-> ~row.pinned]
  BY <1>6, <3>1
<3> QED BY <3>2
<2> QED BY <2>1, <2>2, <2>3
<1>8. ~\E ks \in SUBSET Keys : PurgeL2(c, ks)
  BY <1>6 DEF PurgeL2
<1> QED BY <1>3, <1>5, <1>7, <1>8

LEMMA FreshIsWithinTTL ==
  ASSUME TypeOK, NEW e, Genuine(e), ~Expired(e)
  PROVE  now <= made[e.reply] + TTL
<1>1. made[e.reply] \in 0 .. MaxTime
  BY ElementOfSeq DEF Genuine, TypeOK
<1>2. now \in Int /\ TTL \in Int /\ made[e.reply] \in Int
  BY <1>1, CacheAssumption DEF TypeOK
<1> QED BY <1>2 DEF Genuine, Expired

\* Whoever else inserts, deletes, promotes, pins or writes in between, and
\* however long the task waited, what a lookup decides to serve was made at most
\* a TTL ago: every copy of a reply, in memory, in the table, queued or held by
\* a client, carries the time it was made.
THEOREM ServesWithinTTL == Spec => ServedWithinTTL
<1>1. ASSUME Inductive, [Next]_vars
      PROVE  [\A c \in Clients :
                /\ op[c].pc \in {"idle", "read"} /\ op'[c].pc \in {"hit", "promote"}
                /\ op'[c].pc = "promote" => ~op'[c].entry.pinned
                => now <= made[op'[c].entry.reply] + TTL]_vars
<2> SUFFICES ASSUME NEW c \in Clients,
                    op[c].pc \in {"idle", "read"}, op'[c].pc \in {"hit", "promote"},
                    op'[c].pc = "promote" => ~op'[c].entry.pinned
             PROVE  now <= made[op'[c].entry.reply] + TTL
  OBVIOUS
<2> USE <1>1 DEF Inductive
<2>1. op \in [Clients -> Op]
  BY DEF TypeOK
<2>2. ASSUME NEW k \in Keys, GetL1(c, k)
      PROVE  Genuine(op'[c].entry) /\ ~Expired(op'[c].entry)
<3>1. op'[c] = IF ~InL1(k) THEN [pc |-> "read", key |-> k]
               ELSE IF Expired(L1Entry(k)) THEN [pc |-> "stale", key |-> k]
               ELSE [pc |-> "hit", entry |-> L1Entry(k)]
  BY <2>1, <2>2 DEF GetL1
<3>2. InL1(k) /\ ~Expired(L1Entry(k)) /\ op'[c].entry = L1Entry(k)
  BY <3>1
<3>3. Genuine(L1Entry(k))
  BY <3>2, L1Types DEF CopiesGenuine
<3> QED BY <3>2, <3>3
<2>3. ASSUME GetL2(c)
      PROVE  Genuine(op'[c].entry) /\ ~Expired(op'[c].entry)
<3>1. op'[c].pc # "idle"
  OBVIOUS
<3>2. PICK row \in RowsOf(op[c].key) :
        op' = [op EXCEPT ![c] =
          IF ~row.pinned /\ Expired(row) THEN [pc |-> "expire", key |-> row.key]
          ELSE [pc |-> "promote", entry |-> row]]
  BY <2>1, <2>3, <3>1 DEF GetL2, Idle
<3>3. op'[c] = IF ~row.pinned /\ Expired(row) THEN [pc |-> "expire", key |-> row.key]
               ELSE [pc |-> "promote", entry |-> row]
  BY <2>1, <3>2
<3>4. op'[c].entry = row /\ ~(~row.pinned /\ Expired(row)) /\ op'[c].pc = "promote"
  BY <3>3
<3>5. Genuine(row)
  BY DEF RowsOf, CopiesGenuine
<3> QED BY <3>4, <3>5
<2>4. Genuine(op'[c].entry) /\ ~Expired(op'[c].entry)
  BY <2>2, <2>3, ReadsServe
<2> QED BY <2>4, FreshIsWithinTTL
<1> QED BY <1>1, InitInductive, StepInductive, PTL DEF Spec, ServedWithinTTL
=============================================================================
