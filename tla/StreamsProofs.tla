--------------------------- MODULE StreamsProofs ----------------------------
(***************************************************************************)
(* What a client reads is a well-formed message and the validated reply, and  *)
(* what an attempt returns is what its upstream sent: for any tokens, texts,   *)
(* indices, protocols, channel, hold-back and number of chunks.               *)
(***************************************************************************)
EXTENDS Streams, SequenceTheorems, FiniteSetTheorems, WellFoundedInduction, TLAPS

-----------------------------------------------------------------------------
(* Induction, over numbers and over sequences. *)

LEMMA Induct ==
  ASSUME NEW P \in SUBSET Nat, 0 \in P, \A n \in P : n + 1 \in P
  PROVE  P = Nat
<1> DEFINE R == OpToRel(<, Nat)
           T == Nat \ P
<1>1. IsWellFoundedOn(R, Nat)
  BY NatLessThanWellFounded
<1>2. ASSUME NEW x \in Nat, NEW y \in Nat, x < y PROVE <<x, y>> \in R
  BY <1>2 DEF OpToRel
<1> HIDE DEF R
<1>3. SUFFICES ASSUME T # {} PROVE FALSE
  OBVIOUS
<1>4. PICK x \in T : \A y \in T : <<y, x>> \notin R
  BY <1>1, <1>3, WFMin
<1>5. x \in Nat /\ x # 0 /\ x - 1 \in Nat /\ x - 1 < x
  BY <1>4
<1>6. x - 1 \in P
  BY <1>2, <1>4, <1>5
<1>7. (x - 1) + 1 = x
  BY <1>5
<1> QED BY <1>4, <1>6, <1>7

\* Induction over sequences: they are built by Append.
LEMMA InductSeq ==
  ASSUME NEW S, NEW P \in SUBSET Seq(S), <<>> \in P, \A s \in P : \A e \in S : Append(s, e) \in P
  PROVE  P = Seq(S)
<1> DEFINE L == {n \in Nat : \A s \in Seq(S) : Len(s) = n => s \in P}
<1>1. 0 \in L
  <2>1. ASSUME NEW s \in Seq(S), Len(s) = 0 PROVE s \in P
    BY <2>1, EmptySeq
  <2> QED BY <2>1
<1>2. ASSUME NEW n \in L PROVE n + 1 \in L
  <2>1. ASSUME NEW s \in Seq(S), Len(s) = n + 1 PROVE s \in P
    <3>1. s # <<>> /\ n \in Nat
      BY <2>1
    <3>2. PICK t \in Seq(S), e \in S : s = Append(t, e)
      BY <3>1, SequenceEmptyOrAppend
    <3>3. Len(s) = Len(t) + 1 /\ Len(t) \in Nat
      BY <3>2, AppendProperties
    <3>4. Len(t) = n
      BY <2>1, <3>1, <3>3
    <3> QED BY <3>2, <3>4
  <2> QED BY <2>1
<1>3. L = Nat
  <2> HIDE DEF L
  <2>1. L \in SUBSET Nat
    BY DEF L
  <2> QED BY <1>1, <1>2, <2>1, Induct
<1> HIDE DEF L
<1>4. ASSUME NEW s \in Seq(S) PROVE s \in P
  <2>1. Len(s) \in L
    BY <1>3
  <2> QED BY <2>1 DEF L
<1> QED BY <1>4

Flattens(f, s) == f = [i \in 1 .. Len(s) |-> IF i = 1 THEN s[i] ELSE f[i - 1] \o s[i]]

LEMMA FlattenUnique ==
  ASSUME NEW S, NEW s \in Seq(S), NEW f, NEW g, Flattens(f, s), Flattens(g, s)
  PROVE  f = g
<1> DEFINE P == {n \in Nat : \A i \in 1 .. n : i \in 1 .. Len(s) => f[i] = g[i]}
<1>1. 0 \in P
  OBVIOUS
<1>2. ASSUME NEW n \in P PROVE n + 1 \in P
  <2>1. ASSUME n + 1 \in 1 .. Len(s) PROVE f[n + 1] = g[n + 1]
    <3>1. CASE n = 0
      BY <2>1, <3>1 DEF Flattens
    <3>2. CASE n # 0
      <4>1. f[n] = g[n]
        BY <2>1, <3>2
      <4>2. n \in Nat /\ n + 1 # 1 /\ (n + 1) - 1 = n
        BY <3>2
      <4> HIDE DEF P
      <4>3. f[n + 1] = f[n] \o s[n + 1]
        BY <2>1, <4>2 DEF Flattens
      <4>4. g[n + 1] = g[n] \o s[n + 1]
        BY <2>1, <4>2 DEF Flattens
      <4> QED BY <4>1, <4>3, <4>4
    <3> QED BY <3>1, <3>2
  <2> QED BY <2>1
<1>3. P = Nat
  <2> HIDE DEF P
  <2>1. P \in SUBSET Nat
    BY DEF P
  <2> QED BY <1>1, <1>2, <2>1, Induct
<1>4. \A i \in 1 .. Len(s) : f[i] = g[i]
  <2>1. Len(s) \in Nat
    OBVIOUS
  <2> HIDE DEF P
  <2>2. Len(s) \in P
    BY <1>3, <2>1
  <2> QED BY <2>1, <2>2 DEF P
<1> QED BY <1>4 DEF Flattens

LEMMA FlattenIs ==
  ASSUME NEW S, NEW s \in Seq(S), Len(s) # 0, NEW f, Flattens(f, s)
  PROVE  FlattenSeq(s) = f[Len(s)]
<1>1. \A g : Flattens(g, s) => g = f
  BY FlattenUnique
<1>2. f = [i \in 1 .. Len(s) |-> IF i = 1 THEN s[i] ELSE f[i - 1] \o s[i]]
  BY DEF Flattens
<1> QED BY <1>1, <1>2, Zenon DEF FlattenSeq, Flattens

LEMMA FlattenEmpty == FlattenSeq(<<>>) = <<>>
BY DEF FlattenSeq

LEMMA FlattenExists ==
  ASSUME NEW S, NEW s \in Seq(Seq(S)), NEW f, Flattens(f, s), NEW e \in Seq(S)
  PROVE  LET g == [i \in 1 .. Len(s) + 1 |-> IF i \in 1 .. Len(s) THEN f[i] ELSE FlattenSeq(s) \o e]
         IN  Flattens(g, Append(s, e)) /\ FlattenSeq(Append(s, e)) = FlattenSeq(s) \o e
<1> DEFINE t == Append(s, e)
           g == [i \in 1 .. Len(s) + 1 |-> IF i \in 1 .. Len(s) THEN f[i] ELSE FlattenSeq(s) \o e]
<1>1. /\ t \in Seq(Seq(S)) /\ Len(t) = Len(s) + 1 /\ t[Len(s) + 1] = e /\ Len(s) \in Nat
      /\ \A i \in 1 .. Len(s) : t[i] = s[i]
  OBVIOUS
<1>2. ASSUME NEW i \in 1 .. Len(t) PROVE g[i] = IF i = 1 THEN t[i] ELSE g[i - 1] \o t[i]
  <2>1. CASE i \in 1 .. Len(s)
    <3>1. g[i] = f[i] /\ t[i] = s[i] /\ (i # 1 => g[i - 1] = f[i - 1])
      BY <1>1, <2>1
    <3>2. f[i] = IF i = 1 THEN s[i] ELSE f[i - 1] \o s[i]
      BY <2>1 DEF Flattens
    <3> HIDE DEF g, t
    <3> QED BY <3>1, <3>2
  <2>2. CASE i = Len(s) + 1 /\ i = 1
    <3>1. s = <<>> /\ g[i] = FlattenSeq(s) \o e
      BY <1>1, <2>2, EmptySeq
    <3>2. FlattenSeq(s) = <<>> /\ <<>> \o e = e
      BY <3>1, FlattenEmpty
    <3> QED BY <1>1, <2>2, <3>1, <3>2
  <2>3. CASE i = Len(s) + 1 /\ i # 1
    <3>1. g[i] = FlattenSeq(s) \o e /\ g[i - 1] = f[Len(s)]
      BY <1>1, <2>3
    <3>2. Len(s) # 0
      BY <1>1, <2>3
    <3>3. FlattenSeq(s) = f[Len(s)]
      BY <3>2, FlattenIs
    <3>4. t[i] = e
      BY <1>1, <2>3
    <3> HIDE DEF g, t
    <3> QED BY <2>3, <3>1, <3>3, <3>4
  <2>4. i \in 1 .. Len(s) \/ i = Len(s) + 1
    <3> HIDE DEF t
    <3> QED BY <1>1
  <2> HIDE DEF g, t
  <2> QED BY <2>1, <2>2, <2>3, <2>4
<1>3. Flattens(g, t)
  <2>1. g = [i \in 1 .. Len(t) |-> g[i]]
    BY <1>1
  <2> HIDE DEF g, t
  <2> QED BY <1>2, <2>1 DEF Flattens
<1>4. FlattenSeq(t) = g[Len(t)]
  <2> HIDE DEF g, t
  <2> QED BY <1>1, <1>3, FlattenIs
<1>5. g[Len(t)] = FlattenSeq(s) \o e
  BY <1>1
<1> QED BY <1>3, <1>4, <1>5

\* FlattenSeq of a sequence to which one is appended.
LEMMA FlattenAppend ==
  ASSUME NEW S, NEW s \in Seq(Seq(S))
  PROVE  /\ FlattenSeq(s) \in Seq(S)
         /\ \A e \in Seq(S) : FlattenSeq(Append(s, e)) = FlattenSeq(s) \o e
<1> DEFINE P == {t \in Seq(Seq(S)) : FlattenSeq(t) \in Seq(S) /\ \E f : Flattens(f, t)}
<1>1. <<>> \in P
  <2> DEFINE f == [i \in 1 .. Len(<<>>) |-> <<>>]
  <2>1. Flattens(f, <<>>)
    BY DEF Flattens
  <2>2. <<>> \in Seq(S) /\ <<>> \in Seq(Seq(S)) /\ FlattenSeq(<<>>) = <<>>
    BY FlattenEmpty
  <2> QED BY <2>1, <2>2
<1>2. ASSUME NEW t \in P, NEW e \in Seq(S) PROVE Append(t, e) \in P
  <2>1. PICK f : Flattens(f, t)
    OBVIOUS
  <2>2. FlattenSeq(Append(t, e)) = FlattenSeq(t) \o e /\ \E g : Flattens(g, Append(t, e))
    BY <2>1, FlattenExists
  <2>3. FlattenSeq(t) \o e \in Seq(S) /\ Append(t, e) \in Seq(Seq(S))
    OBVIOUS
  <2> QED BY <2>2, <2>3
<1>3. P = Seq(Seq(S))
  <2> HIDE DEF P
  <2>1. P \in SUBSET Seq(Seq(S))
    BY DEF P
  <2> QED BY <1>1, <1>2, <2>1, InductSeq
<1> QED BY <1>3, FlattenExists

\* A sequence that is another with one element more.
LEMMA IsAppend ==
  ASSUME NEW S, NEW s \in Seq(S), NEW t \in Seq(S), NEW e \in S, Len(t) = Len(s) + 1,
         \A i \in 1 .. Len(s) : t[i] = s[i], t[Len(s) + 1] = e
  PROVE  t = Append(s, e)
<1> DEFINE u == Append(s, e)
<1>1. /\ u \in Seq(S) /\ Len(u) = Len(s) + 1 /\ u[Len(s) + 1] = e
      /\ \A i \in 1 .. Len(s) : u[i] = s[i]
  BY AppendProperties
<1> HIDE DEF u
<1>2. ASSUME NEW i \in 1 .. Len(t) PROVE t[i] = u[i]
  <2>1. i \in 1 .. Len(s) \/ i = Len(s) + 1
    OBVIOUS
  <2> QED BY <1>1, <2>1
<1>3. t = u
  BY <1>1, <1>2, SeqEqual
<1> QED BY <1>3 DEF u

LEMMA ConcatAppend ==
  ASSUME NEW S, NEW s \in Seq(S), NEW t \in Seq(S), NEW e \in S
  PROVE  s \o Append(t, e) = Append(s \o t, e)
<1>1. Append(t, e) = t \o <<e>> /\ Append(s \o t, e) = (s \o t) \o <<e>>
  BY AppendIsConcat, ConcatProperties
<1>2. <<e>> \in Seq(S)
  OBVIOUS
<1> QED BY <1>1, <1>2, ConcatAssociative

-----------------------------------------------------------------------------
(* The text and the calls of a sequence of events. *)

Item == Event \cup Chunk

TextPiece(e) == IF e.type = "text_delta" THEN e.text ELSE <<>>
CallPiece(e) == IF e.type \in {"tool_call", "input_json_delta"} THEN <<e.call>> ELSE <<>>

LEMMA Pieces ==
  ASSUME NEW e \in Item
  PROVE  TextPiece(e) \in Text /\ CallPiece(e) \in Seq(Call)
<1>1. <<>> \in Text /\ <<>> \in Seq(Call)
  BY DEF Text
<1>2. e.type = "text_delta" => e.text \in Text
  BY DEF Item, Event, Chunk, Start, Total, Stop, Error, ThinkingEvent
<1>3. e.type \in {"tool_call", "input_json_delta"} => e.call \in Call
  BY DEF Item, Event, Chunk, Start, Total, Stop, Error, ThinkingEvent
<1>4. TextPiece(e) \in Text
  BY <1>1, <1>2 DEF TextPiece
<1>5. CallPiece(e) \in Seq(Call)
  <2>1. \A c \in Call : <<c>> \in Seq(Call)
    OBVIOUS
  <2> QED BY <1>1, <1>3, <2>1 DEF CallPiece
<1> QED BY <1>4, <1>5

LEMMA NoEvents == TextOf(<<>>) = <<>> /\ CallsOf(<<>>) = <<>>
<1>1. \A f : [k \in DOMAIN <<>> |-> f[k]] = <<>>
  OBVIOUS
<1> QED BY FlattenEmpty DEF TextOf, CallsOf

LEMMA TextAppend ==
  ASSUME NEW w \in Seq(Item)
  PROVE  /\ TextOf(w) \in Text
         /\ \A e \in Item : TextOf(Append(w, e)) = TextOf(w) \o TextPiece(e)
<1> DEFINE m == [k \in DOMAIN w |-> TextPiece(w[k])]
<1>1. m \in Seq(Text) /\ Len(m) = Len(w) /\ \A k \in 1 .. Len(w) : m[k] = TextPiece(w[k])
  <2>1. \A k \in 1 .. Len(w) : TextPiece(w[k]) \in Text
    BY Pieces
  <2> QED BY <2>1
<1>2. TextOf(w) = FlattenSeq(m)
  BY DEF TextOf, TextPiece
<1> HIDE DEF m
<1>3. TextOf(w) \in Text
  BY <1>1, <1>2, FlattenAppend DEF Text
<1>4. ASSUME NEW e \in Item PROVE TextOf(Append(w, e)) = TextOf(w) \o TextPiece(e)
  <2> DEFINE v == Append(w, e)
             n == [k \in DOMAIN v |-> TextPiece(v[k])]
  <2>1. /\ v \in Seq(Item) /\ Len(v) = Len(w) + 1 /\ v[Len(w) + 1] = e
        /\ \A k \in 1 .. Len(w) : v[k] = w[k]
    BY AppendProperties
  <2>2. TextOf(v) = FlattenSeq(n)
    BY DEF TextOf, TextPiece
  <2> HIDE DEF v
  <2>3. n \in Seq(Text) /\ Len(n) = Len(v) /\ \A k \in 1 .. Len(v) : n[k] = TextPiece(v[k])
    BY <2>1, Pieces
  <2> HIDE DEF n
  <2>4. n = Append(m, TextPiece(e))
    <3>1. TextPiece(e) \in Text
      BY Pieces
    <3>2. \A k \in 1 .. Len(m) : n[k] = m[k]
      BY <1>1, <2>1, <2>3
    <3>3. Len(n) = Len(m) + 1 /\ n[Len(m) + 1] = TextPiece(e)
      BY <1>1, <2>1, <2>3
    <3> QED BY <1>1, <2>3, <3>1, <3>2, <3>3, IsAppend
  <2>5. FlattenSeq(Append(m, TextPiece(e))) = FlattenSeq(m) \o TextPiece(e)
    BY <1>1, Pieces, FlattenAppend DEF Text
  <2> QED BY <1>2, <2>2, <2>4, <2>5 DEF v
<1> QED BY <1>3, <1>4

LEMMA CallsAppend ==
  ASSUME NEW w \in Seq(Item)
  PROVE  /\ CallsOf(w) \in Seq(Call)
         /\ \A e \in Item : CallsOf(Append(w, e)) = CallsOf(w) \o CallPiece(e)
<1> DEFINE m == [k \in DOMAIN w |-> CallPiece(w[k])]
<1>1. m \in Seq(Seq(Call)) /\ Len(m) = Len(w) /\ \A k \in 1 .. Len(w) : m[k] = CallPiece(w[k])
  <2>1. \A k \in 1 .. Len(w) : CallPiece(w[k]) \in Seq(Call)
    BY Pieces
  <2> QED BY <2>1
<1>2. CallsOf(w) = FlattenSeq(m)
  BY DEF CallsOf, CallPiece
<1> HIDE DEF m
<1>3. CallsOf(w) \in Seq(Call)
  BY <1>1, <1>2, FlattenAppend
<1>4. ASSUME NEW e \in Item PROVE CallsOf(Append(w, e)) = CallsOf(w) \o CallPiece(e)
  <2> DEFINE v == Append(w, e)
             n == [k \in DOMAIN v |-> CallPiece(v[k])]
  <2>1. /\ v \in Seq(Item) /\ Len(v) = Len(w) + 1 /\ v[Len(w) + 1] = e
        /\ \A k \in 1 .. Len(w) : v[k] = w[k]
    BY AppendProperties
  <2>2. CallsOf(v) = FlattenSeq(n)
    BY DEF CallsOf, CallPiece
  <2> HIDE DEF v
  <2>3. n \in Seq(Seq(Call)) /\ Len(n) = Len(v) /\ \A k \in 1 .. Len(v) : n[k] = CallPiece(v[k])
    BY <2>1, Pieces
  <2> HIDE DEF n
  <2>4. n = Append(m, CallPiece(e))
    <3>1. CallPiece(e) \in Seq(Call)
      BY Pieces
    <3>2. \A k \in 1 .. Len(m) : n[k] = m[k]
      BY <1>1, <2>1, <2>3
    <3>3. Len(n) = Len(m) + 1 /\ n[Len(m) + 1] = CallPiece(e)
      BY <1>1, <2>1, <2>3
    <3> QED BY <1>1, <2>3, <3>1, <3>2, <3>3, IsAppend
  <2>5. FlattenSeq(Append(m, CallPiece(e))) = FlattenSeq(m) \o CallPiece(e)
    BY <1>1, Pieces, FlattenAppend
  <2> QED BY <1>2, <2>2, <2>4, <2>5 DEF v
<1> QED BY <1>3, <1>4

LEMMA TextsAssociate ==
  ASSUME NEW a \in Text, NEW b \in Text, NEW c \in Text
  PROVE  (a \o b) \o c = a \o (b \o c)
BY ConcatAssociative DEF Text

LEMMA EventsAssociate ==
  ASSUME NEW a \in Seq(Event), NEW b \in Seq(Event), NEW c \in Seq(Event)
  PROVE  (a \o b) \o c = a \o (b \o c)
BY ConcatAssociative

LEMMA CallsAssociate ==
  ASSUME NEW a \in Seq(Call), NEW b \in Seq(Call), NEW c \in Seq(Call)
  PROVE  (a \o b) \o c = a \o (b \o c)
BY ConcatAssociative

\* The text and the calls of two sequences, one after the other.
LEMMA PiecesConcat ==
  ASSUME NEW s \in Seq(Item), NEW t \in Seq(Item)
  PROVE  TextOf(s \o t) = TextOf(s) \o TextOf(t) /\ CallsOf(s \o t) = CallsOf(s) \o CallsOf(t)
<1> DEFINE P == {u \in Seq(Item) : /\ TextOf(s \o u) = TextOf(s) \o TextOf(u)
                                   /\ CallsOf(s \o u) = CallsOf(s) \o CallsOf(u)}
<1>1. <<>> \in P
  <2>1. TextOf(s) \o <<>> = TextOf(s)
    BY TextAppend, ConcatEmptySeq DEF Text
  <2>2. CallsOf(s) \o <<>> = CallsOf(s) /\ s \o <<>> = s
    BY CallsAppend, ConcatEmptySeq
  <2>3. <<>> \in Seq(Item)
    OBVIOUS
  <2> QED BY <2>1, <2>2, <2>3, NoEvents
<1>2. ASSUME NEW u \in P, NEW e \in Item PROVE Append(u, e) \in P
  <2>1. s \o Append(u, e) = Append(s \o u, e) /\ s \o u \in Seq(Item) /\ Append(u, e) \in Seq(Item)
    BY ConcatAppend, ConcatProperties, AppendProperties
  <2>2. TextOf(s) \in Text /\ TextOf(u) \in Text /\ TextPiece(e) \in Text
    BY TextAppend, Pieces
  <2>3. CallsOf(s) \in Seq(Call) /\ CallsOf(u) \in Seq(Call) /\ CallPiece(e) \in Seq(Call)
    BY CallsAppend, Pieces
  <2>4. (TextOf(s) \o TextOf(u)) \o TextPiece(e) = TextOf(s) \o (TextOf(u) \o TextPiece(e))
    BY <2>2, TextsAssociate
  <2>5. (CallsOf(s) \o CallsOf(u)) \o CallPiece(e) = CallsOf(s) \o (CallsOf(u) \o CallPiece(e))
    BY <2>3, CallsAssociate
  <2> QED BY <2>1, <2>4, <2>5, TextAppend, CallsAppend
<1>3. P = Seq(Item)
  <2> HIDE DEF P
  <2>1. P \in SUBSET Seq(Item)
    BY DEF P
  <2> QED BY <1>1, <1>2, <2>1, InductSeq
<1> QED BY <1>3

-----------------------------------------------------------------------------
(* Messages: sequences of events of which each may follow the one before. *)

LEMMA LastAppend ==
  ASSUME NEW a, NEW w \in Seq(Event), NEW e \in Event
  PROVE  LastOf(a, Append(w, e)) = e
BY AppendProperties DEF LastOf, Last

LEMMA LastConcat ==
  ASSUME NEW a, NEW s \in Seq(Event), NEW t \in Seq(Event)
  PROVE  LastOf(a, s \o t) = LastOf(LastOf(a, s), t)
<1>1. CASE t = <<>>
  BY <1>1, ConcatEmptySeq DEF LastOf
<1>2. CASE t # <<>>
  <2>1. PICK u \in Seq(Event), e \in Event : t = Append(u, e)
    BY <1>2, SequenceEmptyOrAppend
  <2>2. s \o t = Append(s \o u, e) /\ s \o u \in Seq(Event)
    BY <2>1, ConcatAppend, ConcatProperties
  <2>3. LastOf(a, Append(s \o u, e)) = e
    BY <2>2, LastAppend
  <2>4. LastOf(LastOf(a, s), Append(u, e)) = e
    BY LastAppend
  <2> QED BY <2>1, <2>2, <2>3, <2>4
<1> QED BY <1>1, <1>2

LEMMA LeadsAppend ==
  ASSUME NEW a, NEW w \in Seq(Event), NEW e \in Event
  PROVE  Leads(a, Append(w, e)) <=> Leads(a, w) /\ Follows(LastOf(a, w), e)
<1> DEFINE v == Append(w, e)
           n == Len(w)
<1>1. /\ n \in Nat /\ DOMAIN w = 1 .. n /\ DOMAIN v = 1 .. n + 1 /\ v[n + 1] = e
      /\ \A k \in 1 .. n : v[k] = w[k]
  BY AppendProperties
<1>2. LastOf(a, w) = IF n + 1 = 1 THEN a ELSE v[(n + 1) - 1]
  <2>1. CASE w = <<>>
    BY <2>1 DEF LastOf
  <2>2. CASE w # <<>>
    <3>1. n \in Nat \ {0}
      BY <2>2, EmptySeq
    <3>2. n + 1 # 1 /\ (n + 1) - 1 = n /\ n \in 1 .. n
      BY <3>1
    <3>3. LastOf(a, w) = w[n]
      BY <2>2 DEF LastOf, Last
    <3> HIDE DEF v, n
    <3> QED BY <1>1, <3>2, <3>3
  <2> QED BY <2>1, <2>2
<1> HIDE DEF v, n
<1>3. \A k \in 1 .. n : k # 1 => v[k - 1] = w[k - 1]
  BY <1>1
<1>4. \A k \in 1 .. n + 1 : k \in 1 .. n \/ k = n + 1
  BY <1>1
<1>5. n + 1 \in 1 .. n + 1 /\ 1 .. n \subseteq 1 .. n + 1
  BY <1>1
<1>6. Leads(a, v) => Leads(a, w) /\ Follows(LastOf(a, w), e)
  <2> SUFFICES ASSUME Leads(a, v) PROVE Leads(a, w) /\ Follows(LastOf(a, w), e)
    OBVIOUS
  <2>1. \A k \in 1 .. n + 1 : Follows(IF k = 1 THEN a ELSE v[k - 1], v[k])
    BY <1>1 DEF Leads
  <2>2. Follows(LastOf(a, w), e)
    BY <1>1, <1>2, <1>5, <2>1, Zenon
  <2>3. ASSUME NEW k \in 1 .. n PROVE Follows(IF k = 1 THEN a ELSE w[k - 1], w[k])
    <3>1. Follows(IF k = 1 THEN a ELSE v[k - 1], v[k]) /\ v[k] = w[k]
      BY <1>1, <1>5, <2>1, Zenon
    <3>2. CASE k = 1
      BY <3>1, <3>2
    <3>3. CASE k # 1
      BY <1>3, <3>1, <3>3
    <3> QED BY <3>2, <3>3
  <2> QED BY <1>1, <2>2, <2>3 DEF Leads
<1>7. Leads(a, w) /\ Follows(LastOf(a, w), e) => Leads(a, v)
  <2> SUFFICES ASSUME Leads(a, w), Follows(LastOf(a, w), e), NEW k \in 1 .. n + 1
               PROVE  Follows(IF k = 1 THEN a ELSE v[k - 1], v[k])
    BY <1>1 DEF Leads
  <2>1. CASE k = n + 1
    BY <1>1, <1>2, <2>1, Zenon
  <2>2. CASE k \in 1 .. n
    <3>1. Follows(IF k = 1 THEN a ELSE w[k - 1], w[k]) /\ v[k] = w[k]
      BY <1>1, <2>2 DEF Leads
    <3>2. CASE k = 1
      BY <3>1, <3>2
    <3>3. CASE k # 1
      BY <1>3, <2>2, <3>1, <3>3
    <3> QED BY <3>2, <3>3
  <2> QED BY <1>4, <2>1, <2>2
<1> QED BY <1>6, <1>7 DEF v

LEMMA LeadsNowhere == \A a : Leads(a, <<>>) /\ LastOf(a, <<>>) = a
BY DEF Leads, LastOf

LEMMA LeadsConcat ==
  ASSUME NEW a, NEW s \in Seq(Event), NEW t \in Seq(Event)
  PROVE  Leads(a, s \o t) <=> Leads(a, s) /\ Leads(LastOf(a, s), t)
<1> DEFINE b == LastOf(a, s)
           P == {u \in Seq(Event) : Leads(a, s \o u) <=> Leads(a, s) /\ Leads(b, u)}
<1>1. <<>> \in P
  <2>1. s \o <<>> = s /\ <<>> \in Seq(Event)
    BY ConcatEmptySeq
  <2> QED BY <2>1, LeadsNowhere
<1>2. ASSUME NEW u \in P, NEW e \in Event PROVE Append(u, e) \in P
  <2>1. s \o Append(u, e) = Append(s \o u, e) /\ s \o u \in Seq(Event) /\ Append(u, e) \in Seq(Event)
    BY ConcatAppend, ConcatProperties, AppendProperties
  <2>2. LastOf(a, s \o u) = LastOf(b, u)
    BY LastConcat
  <2>3. Leads(a, Append(s \o u, e)) <=> Leads(a, s \o u) /\ Follows(LastOf(a, s \o u), e)
    BY <2>1, LeadsAppend
  <2>4. Leads(b, Append(u, e)) <=> Leads(b, u) /\ Follows(LastOf(b, u), e)
    BY LeadsAppend
  <2> HIDE DEF b
  <2> QED BY <2>1, <2>2, <2>3, <2>4
<1>3. P = Seq(Event)
  <2> HIDE DEF P
  <2>1. P \in SUBSET Seq(Event)
    BY DEF P
  <2> QED BY <1>1, <1>2, <2>1, InductSeq
<1> QED BY <1>3

\* Numbers up to n have a greatest.
LEMMA Greatest ==
  ASSUME NEW n \in Nat, NEW T \in SUBSET (1 .. n), T # {}
  PROVE  Max(T) \in T /\ \A k \in T : k <= Max(T)
<1> DEFINE P == {m \in Nat : \A U \in SUBSET (1 .. m) : U # {} => \E x \in U : \A y \in U : y <= x}
<1>1. 0 \in P
  <2>1. 1 .. 0 = {}
    OBVIOUS
  <2> QED BY <2>1
<1>2. ASSUME NEW m \in P PROVE m + 1 \in P
  <2>1. ASSUME NEW U \in SUBSET (1 .. m + 1), U # {} PROVE \E x \in U : \A y \in U : y <= x
    <3>1. CASE m + 1 \in U
      BY <3>1
    <3>2. CASE m + 1 \notin U
      <4>1. U \in SUBSET (1 .. m)
        BY <3>2
      <4> QED BY <2>1, <4>1
    <3> QED BY <3>1, <3>2
  <2> QED BY <2>1
<1>3. P = Nat
  <2> HIDE DEF P
  <2>1. P \in SUBSET Nat
    BY DEF P
  <2> QED BY <1>1, <1>2, <2>1, Induct
<1>4. \E x \in T : \A y \in T : y <= x
  <2>1. n \in P
    BY <1>3
  <2> QED BY <2>1
<1> QED BY <1>4 DEF Max

LEMMA CountAppend ==
  ASSUME NEW w \in Seq(Event), NEW e \in Event, NEW type
  PROVE  /\ Count(w, type) \in Nat
         /\ Count(Append(w, e), type) = Count(w, type) + IF e.type = type THEN 1 ELSE 0
<1> DEFINE n == Len(w)
           v == Append(w, e)
           S == {k \in DOMAIN w : w[k].type = type}
           T == {k \in DOMAIN v : v[k].type = type}
<1>1. /\ n \in Nat /\ DOMAIN w = 1 .. n /\ DOMAIN v = 1 .. n + 1 /\ v[n + 1] = e
      /\ \A k \in 1 .. n : v[k] = w[k]
  BY AppendProperties
<1> HIDE DEF v, n
<1>2. IsFiniteSet(S) /\ n + 1 \notin S
  <2>1. IsFiniteSet(1 .. n) /\ S \subseteq 1 .. n
    BY <1>1, FS_Interval
  <2> QED BY <1>1, <2>1, FS_Subset
<1>3. T = IF e.type = type THEN S \cup {n + 1} ELSE S
  BY <1>1
<1>4. Cardinality(S) \in Nat /\ Cardinality(S \cup {n + 1}) = Cardinality(S) + 1
  <2> HIDE DEF S
  <2> QED BY <1>2, FS_CardinalityType, FS_AddElement
<1> HIDE DEF S, T
<1>5. Cardinality(T) = Cardinality(S) + IF e.type = type THEN 1 ELSE 0
  BY <1>3, <1>4
<1> QED BY <1>4, <1>5 DEF Count, S, T, v

-----------------------------------------------------------------------------
(* What the protocol sees of a message. *)

LEMMA EventShapes ==
  ASSUME NEW e \in Event
  PROVE  /\ \/ e = Start \/ e = Total \/ e = Stop \/ e = Error
            \/ e.type = "content_block_start" \/ e.type \in Deltas \/ e.type = "content_block_stop"
         /\ e.type = "content_block_start" =>
              e.index \in Nat /\ e.kind \in {"thinking", "text", "tool_use"}
         /\ e.type \in Deltas \cup {"content_block_stop"} => e.index \in Nat
         /\ e.type = "content_block_stop" => e = BlockStop(e.index)
         /\ e # Nothing
BY DEF Event, Start, Total, Stop, Error, Deltas, BlockStop, Nothing

LEMMA Types ==
  /\ Start.type = "message_start" /\ Total.type = "message_delta" /\ Stop.type = "message_stop"
  /\ Error.type = "error" /\ Nothing.type = "nothing"
  /\ \A i : BlockStop(i).type = "content_block_stop" /\ BlockStop(i).index = i
BY DEF Start, Total, Stop, Error, Nothing, BlockStop

\* How many blocks have been started and stopped, by the last event.
Numbered(w) ==
  LET a == LastOf(Nothing, w)
  IN  /\ NextIndex(w) = Count(w, "content_block_stop") + IF InBlock(a) THEN 1 ELSE 0
      /\ a = Nothing \/ Between(a) \/ InBlock(a) => NextIndex(w) = NextAfter(a)

LEMMA MessagesNumbered ==
  ASSUME NEW w \in Seq(Event), Leads(Nothing, w)
  PROVE  Numbered(w)
<1> DEFINE P == {u \in Seq(Event) : Leads(Nothing, u) => Numbered(u)}
<1>1. <<>> \in P
  <2>1. \A type : Count(<<>>, type) = 0
    <3>1. \A type : {k \in DOMAIN <<>> : <<>>[k].type = type} = {}
      OBVIOUS
    <3> QED BY <3>1, FS_EmptySet DEF Count
  <2>2. ~InBlock(Nothing) /\ NextAfter(Nothing) = 0
    BY Types DEF InBlock, NextAfter, Deltas
  <2>3. <<>> \in Seq(Event)
    OBVIOUS
  <2> QED BY <2>1, <2>2, <2>3, LeadsNowhere DEF Numbered, NextIndex
<1>2. ASSUME NEW u \in P, NEW e \in Event PROVE Append(u, e) \in P
  <2> DEFINE v == Append(u, e)
             a == LastOf(Nothing, u)
  <2>1. SUFFICES ASSUME Leads(Nothing, v) PROVE Numbered(v)
    BY AppendProperties
  <2>2. Numbered(u) /\ Follows(a, e) /\ LastOf(Nothing, v) = e
    BY <2>1, LeadsAppend, LastAppend
  <2>3. /\ NextIndex(u) \in Nat /\ Count(u, "content_block_stop") \in Nat
        /\ NextIndex(v) = NextIndex(u) + IF e.type = "content_block_start" THEN 1 ELSE 0
        /\ Count(v, "content_block_stop") =
             Count(u, "content_block_stop") + IF e.type = "content_block_stop" THEN 1 ELSE 0
    BY CountAppend DEF NextIndex
  <2> HIDE DEF v
  <2>4. u = <<>> \/ a \in Event
    <3>1. ASSUME u # <<>> PROVE a \in Event
      <4>1. Len(u) \in 1 .. Len(u)
        BY <3>1, EmptySeq
      <4> QED BY <3>1, <4>1 DEF LastOf, Last
    <3> QED BY <3>1
  <2>5. u = <<>> => a = Nothing
    BY LeadsNowhere
  <2> HIDE DEF a
  <2>6. /\ NextIndex(u) = Count(u, "content_block_stop") + IF InBlock(a) THEN 1 ELSE 0
        /\ a = Nothing \/ Between(a) \/ InBlock(a) => NextIndex(u) = NextAfter(a)
    BY <2>2 DEF Numbered, a
  <2>7. CASE a = Nothing /\ e = Start
    BY <2>2, <2>3, <2>6, <2>7, Types DEF Numbered, InBlock, Between, NextAfter, Deltas
  <2>8. CASE Between(a) /\ e \in {Total, Error}
    BY <2>2, <2>3, <2>6, <2>8, Types DEF Numbered, InBlock, Between, NextAfter, Deltas
  <2>9. CASE Between(a) /\ e.type = "content_block_start" /\ e.index = NextAfter(a)
    BY <2>2, <2>3, <2>6, <2>9, Types DEF Numbered, InBlock, Between, NextAfter, Deltas
  <2>10. CASE InBlock(a) /\ e.type \in Deltas /\ e.index = a.index
    BY <2>2, <2>3, <2>6, <2>10, Types DEF Numbered, InBlock, Between, NextAfter, Deltas
  <2>11. CASE a.type \in Deltas /\ e = BlockStop(a.index)
    BY <2>2, <2>3, <2>6, <2>11, Types DEF Numbered, InBlock, Between, NextAfter, Deltas
  <2>12. CASE a = Total /\ e = Stop
    BY <2>2, <2>3, <2>6, <2>12, Types DEF Numbered, InBlock, Between, NextAfter, Deltas
  <2>13. \A kind \in {"thinking", "text", "tool_use"} : DeltaOf(kind) \in Deltas
    BY DEF DeltaOf, Deltas
  <2>14. a.type = "content_block_start" => a.kind \in {"thinking", "text", "tool_use"}
    BY <2>4, <2>5, EventShapes, Types
  <2> QED
    BY <2>2, <2>7, <2>8, <2>9, <2>10, <2>11, <2>12, <2>13, <2>14 DEF Follows, InBlock, Deltas
<1>3. P = Seq(Event)
  <2> HIDE DEF P
  <2>1. P \in SUBSET Seq(Event)
    BY DEF P
  <2> QED BY <1>1, <1>2, <2>1, InductSeq
<1> QED BY <1>3

\* The last event of what is not empty is an event.
LEMMA LastIsEvent ==
  ASSUME NEW w \in Seq(Event), w # <<>>
  PROVE  LastOf(Nothing, w) \in Event /\ LastOf(Nothing, w) = Last(w) /\ LastOf(Nothing, w) # Nothing
<1>1. Len(w) \in 1 .. Len(w)
  BY EmptySeq
<1>2. w[Len(w)] \in Event
  BY <1>1
<1> QED BY <1>2, EventShapes DEF LastOf, Last

\* The open block is the one of the last event.
Opening(w) ==
  LET a == LastOf(Nothing, w)
  IN  /\ ~InBlock(a) => OpenBlocks(w) = {}
      /\ InBlock(a) => \E k \in DOMAIN w :
           /\ OpenBlocks(w) = {k} /\ w[k].index = a.index
           /\ w[k].kind \in {"thinking", "text", "tool_use"}

LEMMA OpenAppend ==
  ASSUME NEW w \in Seq(Event), NEW e \in Event
  PROVE  OpenBlocks(Append(w, e)) =
           {k \in OpenBlocks(w) : e # BlockStop(w[k].index)}
             \cup (IF e.type = "content_block_start" THEN {Len(w) + 1} ELSE {})
<1> DEFINE n == Len(w)
           v == Append(w, e)
<1>1. /\ n \in Nat /\ DOMAIN w = 1 .. n /\ DOMAIN v = 1 .. n + 1 /\ Len(v) = n + 1 /\ v[n + 1] = e
      /\ \A k \in 1 .. n : v[k] = w[k]
  BY AppendProperties
<1> HIDE DEF v, n
<1>2. ASSUME NEW k \in 1 .. n
      PROVE  k \in OpenBlocks(v) <=> k \in OpenBlocks(w) /\ e # BlockStop(w[k].index)
  <2>1. v[k] = w[k] /\ k .. n + 1 = (k .. n) \cup {n + 1} /\ \A j \in k .. n : v[j] = w[j]
    BY <1>1
  <2> QED BY <1>1, <2>1 DEF OpenBlocks, n
<1>3. n + 1 \in OpenBlocks(v) <=> e.type = "content_block_start"
  <2>1. (n + 1) .. (n + 1) = {n + 1}
    BY <1>1
  <2> QED BY <1>1, <2>1, Types DEF OpenBlocks
<1>4. OpenBlocks(v) \subseteq 1 .. n + 1 /\ OpenBlocks(w) \subseteq 1 .. n
  BY <1>1 DEF OpenBlocks
<1>5. \A k \in 1 .. n + 1 : k \in 1 .. n \/ k = n + 1
  BY <1>1
<1>6. n + 1 \notin 1 .. n
  BY <1>1
<1> QED BY <1>2, <1>3, <1>4, <1>5, <1>6 DEF v, n

LEMMA FollowsCases ==
  ASSUME NEW a \in Event \cup {Nothing}, NEW e \in Event, Follows(a, e)
  PROVE  \/ a = Nothing /\ e = Start
         \/ Between(a) /\ e \in {Total, Error}
         \/ Between(a) /\ e.type = "content_block_start" /\ e.index = NextAfter(a)
         \/ InBlock(a) /\ e.type \in Deltas /\ e.index = a.index
         \/ a.type \in Deltas /\ e = BlockStop(a.index)
         \/ a = Total /\ e = Stop
<1>1. \A kind \in {"thinking", "text", "tool_use"} : DeltaOf(kind) \in Deltas
  BY DEF DeltaOf, Deltas
<1>2. a.type = "content_block_start" => a.kind \in {"thinking", "text", "tool_use"}
  BY EventShapes, Types
<1> QED BY <1>1, <1>2 DEF Follows, InBlock, Deltas

LEMMA MessagesOpen ==
  ASSUME NEW w \in Seq(Event), Leads(Nothing, w)
  PROVE  Opening(w)
<1> DEFINE P == {u \in Seq(Event) : Leads(Nothing, u) => Opening(u)}
<1>1. <<>> \in P
  <2>1. <<>> \in Seq(Event) /\ OpenBlocks(<<>>) = {} /\ ~InBlock(Nothing)
    BY Types DEF OpenBlocks, InBlock, Deltas
  <2> QED BY <2>1, LeadsNowhere DEF Opening
<1>2. ASSUME NEW u \in P, NEW e \in Event PROVE Append(u, e) \in P
  <2> DEFINE v == Append(u, e)
             a == LastOf(Nothing, u)
             n == Len(u)
  <2>1. SUFFICES ASSUME Leads(Nothing, v) PROVE Opening(v)
    BY AppendProperties
  <2>2. Opening(u) /\ Follows(a, e) /\ LastOf(Nothing, v) = e
    BY <2>1, LeadsAppend, LastAppend
  <2>3. /\ n \in Nat /\ DOMAIN u = 1 .. n /\ DOMAIN v = 1 .. n + 1 /\ v[n + 1] = e
        /\ \A k \in 1 .. n : v[k] = u[k]
    BY AppendProperties
  <2>4. OpenBlocks(v) = {k \in OpenBlocks(u) : e # BlockStop(u[k].index)}
                          \cup (IF e.type = "content_block_start" THEN {n + 1} ELSE {})
    BY OpenAppend
  <2>5. a \in Event \cup {Nothing}
    BY LeadsNowhere, LastIsEvent
  <2>6. /\ ~InBlock(a) => OpenBlocks(u) = {}
        /\ InBlock(a) => \E k \in DOMAIN u :
             /\ OpenBlocks(u) = {k} /\ u[k].index = a.index
             /\ u[k].kind \in {"thinking", "text", "tool_use"}
    BY <2>2 DEF Opening
  <2> HIDE DEF v, a, n
  <2>7. CASE ~InBlock(a) /\ e.type # "content_block_start" /\ ~InBlock(e)
    <3>1. OpenBlocks(v) = {}
      BY <2>4, <2>6, <2>7
    <3> QED BY <2>2, <2>7, <3>1 DEF Opening
  <2>8. CASE Between(a) /\ e.type = "content_block_start"
    <3>1. ~InBlock(a) /\ InBlock(e)
      BY <2>8, Types DEF Between, InBlock, Deltas
    <3>2. OpenBlocks(v) = {n + 1} /\ n + 1 \in DOMAIN v
      BY <2>3, <2>4, <2>6, <2>8, <3>1
    <3>3. v[n + 1].index = e.index /\ v[n + 1].kind \in {"thinking", "text", "tool_use"}
      BY <2>3, <2>8, EventShapes
    <3> QED BY <2>2, <3>1, <3>2, <3>3 DEF Opening
  <2>9. CASE InBlock(a) /\ e.type \in Deltas /\ e.index = a.index
    <3>1. PICK k \in DOMAIN u : /\ OpenBlocks(u) = {k} /\ u[k].index = a.index
                                /\ u[k].kind \in {"thinking", "text", "tool_use"}
      BY <2>6, <2>9
    <3>2. e.type # "content_block_start" /\ e # BlockStop(u[k].index) /\ InBlock(e)
      BY <2>9, Types DEF Deltas, InBlock
    <3>3. OpenBlocks(v) = {k}
      BY <2>4, <3>1, <3>2
    <3>4. k \in DOMAIN v /\ v[k] = u[k]
      BY <2>3
    <3> QED BY <2>2, <2>9, <3>1, <3>2, <3>3, <3>4 DEF Opening
  <2>10. CASE a.type \in Deltas /\ e = BlockStop(a.index)
    <3>1. InBlock(a) /\ ~InBlock(e) /\ e.type # "content_block_start"
      BY <2>10, Types DEF InBlock, Deltas
    <3>2. PICK k \in DOMAIN u : OpenBlocks(u) = {k} /\ u[k].index = a.index
      BY <2>6, <3>1
    <3>3. OpenBlocks(v) = {}
      BY <2>4, <2>10, <3>1, <3>2
    <3> QED BY <2>2, <3>1, <3>3 DEF Opening
  <2>11. a = Nothing \/ Between(a) \/ a = Total => ~InBlock(a)
    BY Types DEF Between, InBlock, Deltas
  <2>12. e \in {Start, Total, Error, Stop} => ~InBlock(e) /\ e.type # "content_block_start"
    BY Types DEF InBlock, Deltas
  <2> QED BY <2>2, <2>5, <2>7, <2>8, <2>9, <2>10, <2>11, <2>12, FollowsCases
<1>3. P = Seq(Event)
  <2> HIDE DEF P
  <2>1. P \in SUBSET Seq(Event)
    BY DEF P
  <2> QED BY <1>1, <1>2, <2>1, InductSeq
<1> QED BY <1>3

LEMMA DeltaAppend ==
  ASSUME NEW w \in Seq(Event), NEW e \in Event
  PROVE  LastDelta(Append(w, e)) = IF e.type \in Deltas THEN e.index + 1 ELSE LastDelta(w)
<1> DEFINE n == Len(w)
           v == Append(w, e)
           S == {k \in DOMAIN w : w[k].type \in Deltas}
           T == {k \in DOMAIN v : v[k].type \in Deltas}
<1>1. /\ n \in Nat /\ DOMAIN w = 1 .. n /\ DOMAIN v = 1 .. n + 1 /\ v[n + 1] = e
      /\ \A k \in 1 .. n : v[k] = w[k]
  BY AppendProperties
<1> HIDE DEF v, n
<1>2. LastDelta(w) = (IF S = {} THEN 0 ELSE w[Max(S)].index + 1)
      /\ LastDelta(v) = (IF T = {} THEN 0 ELSE v[Max(T)].index + 1)
  BY DEF LastDelta
<1>3. CASE e.type \in Deltas
  <2>1. n + 1 \in T /\ T \in SUBSET (1 .. n + 1) /\ n + 1 \in Nat
    BY <1>1, <1>3
  <2> HIDE DEF S, T
  <2>2. Max(T) \in T /\ \A k \in T : k <= Max(T)
    BY <2>1, Greatest
  <2>3. Max(T) \in 1 .. n + 1 /\ n + 1 <= Max(T)
    BY <2>1, <2>2
  <2>4. Max(T) = n + 1
    BY <1>1, <2>3
  <2> QED BY <1>1, <1>2, <1>3, <2>1, <2>4 DEF v
<1>4. CASE e.type \notin Deltas
  <2>1. T = S /\ S \in SUBSET (1 .. n)
    BY <1>1, <1>4
  <2> HIDE DEF S, T
  <2>2. S # {} => Max(S) \in S
    BY <1>1, <2>1, Greatest
  <2>3. S # {} => v[Max(S)] = w[Max(S)]
    BY <1>1, <2>1, <2>2
  <2> QED BY <1>2, <1>4, <2>1, <2>3 DEF v
<1> QED BY <1>3, <1>4

LEMMA PhaseByLast ==
  ASSUME NEW w \in Seq(Event)
  PROVE  LET a == LastOf(Nothing, w)
         IN  /\ a = Nothing => Phase(w) = "unsent"
             /\ a = Total => Phase(w) = "totalled"
             /\ a = Stop <=> Phase(w) = "stopped"
             /\ a = Error => Phase(w) = "failed"
             /\ Between(a) \/ InBlock(a) => Phase(w) = "started"
<1>1. CASE w = <<>>
  BY <1>1, Types, LeadsNowhere DEF Phase, Between, InBlock, Deltas
<1>2. CASE w # <<>>
  <2>1. LastOf(Nothing, w) # Nothing /\ LastOf(Nothing, w) = Last(w)
    BY <1>2, LastIsEvent
  <2> DEFINE a == Last(w)
  <2>2. Phase(w) = CASE a = Stop  -> "stopped"
                     [] a = Error -> "failed"
                     [] a = Total -> "totalled"
                     [] OTHER     -> "started"
    BY <1>2 DEF Phase
  <2> HIDE DEF a
  <2> QED BY <2>1, <2>2, Types DEF Between, InBlock, Deltas, a
<1> QED BY <1>1, <1>2

LEMMA DeltaByLast ==
  ASSUME NEW w \in Seq(Event), LastOf(Nothing, w).type \in Deltas
  PROVE  LastDelta(w) = LastOf(Nothing, w).index + 1
<1>1. w # <<>>
  BY LeadsNowhere, Types DEF Deltas
<1>2. PICK u \in Seq(Event), e \in Event : w = Append(u, e)
  BY <1>1, SequenceEmptyOrAppend
<1> QED BY <1>2, DeltaAppend, LastAppend

LEMMA BlockByLast ==
  ASSUME NEW w \in Seq(Event), Leads(Nothing, w)
  PROVE  LET a == LastOf(Nothing, w)
         IN  /\ ~InBlock(a) => OpenBlock(w) = "none"
             /\ InBlock(a) => OpenBlock(w) \in {"thinking", "text", "tool_use"}
<1> DEFINE a == LastOf(Nothing, w)
<1>1. /\ ~InBlock(a) => OpenBlocks(w) = {}
      /\ InBlock(a) => \E k \in DOMAIN w :
           OpenBlocks(w) = {k} /\ w[k].kind \in {"thinking", "text", "tool_use"}
  BY MessagesOpen DEF Opening
<1>2. \A k \in DOMAIN w : Max({k}) = k
  BY DEF Max
<1> HIDE DEF a
<1> QED BY <1>1, <1>2 DEF OpenBlock, a

\* A delta leaves the open block open.
LEMMA BlockStays ==
  ASSUME NEW w \in Seq(Event), NEW e \in Event, Leads(Nothing, w), e.type \in Deltas
  PROVE  OpenBlock(Append(w, e)) = OpenBlock(w)
<1> DEFINE v == Append(w, e)
<1>1. \A k \in DOMAIN w : v[k] = w[k]
  BY AppendProperties
<1>2. OpenBlocks(v) = OpenBlocks(w)
  <2>1. e.type # "content_block_start" /\ \A i : e # BlockStop(i)
    BY Types DEF Deltas
  <2>2. OpenBlocks(v) = {k \in OpenBlocks(w) : e # BlockStop(w[k].index)}
                          \cup (IF e.type = "content_block_start" THEN {Len(w) + 1} ELSE {})
    BY OpenAppend
  <2> HIDE DEF v
  <2> QED BY <2>1, <2>2
<1>3. OpenBlocks(w) = {} \/ \E k \in DOMAIN w : OpenBlocks(w) = {k}
  BY MessagesOpen DEF Opening
<1>4. \A k \in DOMAIN w : Max({k}) = k
  BY DEF Max
<1> HIDE DEF v
<1> QED BY <1>1, <1>2, <1>3, <1>4 DEF OpenBlock, v

\* An event that may follow is a step of the protocol.
LEMMA MessageStep ==
  ASSUME wire \in Seq(Event), NEW e \in Event, wire' = Append(wire, e), Leads(Nothing, wire')
  PROVE  Message!Next
<1> DEFINE a == LastOf(Nothing, wire)
<1>1. wire' \in Seq(Event) /\ Leads(Nothing, wire) /\ Follows(a, e) /\ LastOf(Nothing, wire') = e
  BY LeadsAppend, LastAppend, AppendProperties
<1>2. a \in Event \cup {Nothing}
  BY LeadsNowhere, LastIsEvent
<1>3. /\ NextIndex(wire) \in Nat
      /\ NextIndex(wire') = NextIndex(wire) + IF e.type = "content_block_start" THEN 1 ELSE 0
      /\ a = Nothing \/ Between(a) \/ InBlock(a) => NextIndex(wire) = NextAfter(a)
  BY <1>1, MessagesNumbered, CountAppend DEF NextIndex, Numbered
<1>4. LastDelta(wire') = IF e.type \in Deltas THEN e.index + 1 ELSE LastDelta(wire)
  BY DeltaAppend
<1>5. /\ ~InBlock(a) => OpenBlock(wire) = "none"
      /\ InBlock(a) => OpenBlock(wire) # "none"
      /\ ~InBlock(e) => OpenBlock(wire') = "none"
      /\ InBlock(e) => OpenBlock(wire') \in {"thinking", "text", "tool_use"}
  BY <1>1, BlockByLast
<1>6. /\ a = Nothing => Phase(wire) = "unsent"
      /\ a = Total => Phase(wire) = "totalled"
      /\ Between(a) \/ InBlock(a) => Phase(wire) = "started"
  BY PhaseByLast
<1>7. /\ e = Total => Phase(wire') = "totalled"
      /\ e = Stop => Phase(wire') = "stopped"
      /\ e = Error => Phase(wire') = "failed"
      /\ Between(e) \/ InBlock(e) => Phase(wire') = "started"
  BY <1>1, PhaseByLast
<1>8. a.type \in Deltas => LastDelta(wire) = a.index + 1
  BY DeltaByLast
<1>9. e.type \in Deltas => OpenBlock(wire') = OpenBlock(wire)
  BY <1>1, BlockStays
<1> HIDE DEF a
<1>10. CASE a = Nothing /\ e = Start
  <2>1. /\ ~InBlock(a) /\ ~InBlock(e) /\ Between(e) /\ e.type # "content_block_start"
        /\ e.type \notin Deltas
    BY <1>10, Types DEF InBlock, Between, Deltas
  <2>2. Message!MessageStart
    BY <1>3, <1>4, <1>5, <1>6, <1>7, <1>10, <2>1 DEF Message!MessageStart
  <2> QED BY <2>2 DEF Message!Next
<1>11. CASE Between(a) /\ e \in {Total, Error}
  <2>1. ~InBlock(a) /\ ~InBlock(e) /\ e.type # "content_block_start" /\ e.type \notin Deltas
    BY <1>11, Types DEF InBlock, Between, Deltas
  <2>2. Message!Totals \/ Message!End
    BY <1>3, <1>4, <1>5, <1>6, <1>7, <1>11, <2>1 DEF Message!Totals, Message!End
  <2> QED BY <2>2 DEF Message!Next
<1>12. CASE Between(a) /\ e.type = "content_block_start"
  <2>1. ~InBlock(a) /\ InBlock(e) /\ e.type \notin Deltas
    BY <1>12, Types DEF InBlock, Between, Deltas
  <2>2. Message!BlockStart
    BY <1>3, <1>4, <1>5, <1>6, <1>7, <1>12, <2>1 DEF Message!BlockStart, Message!Kinds
  <2> QED BY <2>2 DEF Message!Next
<1>13. CASE InBlock(a) /\ e.type \in Deltas /\ e.index = a.index
  <2>1. InBlock(e) /\ e.type # "content_block_start" /\ NextAfter(a) = a.index + 1
    BY <1>13 DEF InBlock, Deltas, NextAfter
  <2>2. Message!Delta
    BY <1>3, <1>4, <1>5, <1>6, <1>7, <1>9, <1>13, <2>1 DEF Message!Delta
  <2> QED BY <2>2 DEF Message!Next
<1>14. CASE a.type \in Deltas /\ e = BlockStop(a.index)
  <2>1. /\ InBlock(a) /\ ~InBlock(e) /\ Between(e) /\ e.type # "content_block_start"
        /\ e.type \notin Deltas /\ NextAfter(a) = a.index + 1
    BY <1>14, Types DEF InBlock, Deltas, NextAfter, Between
  <2>2. Message!BlockStop
    BY <1>3, <1>4, <1>5, <1>6, <1>7, <1>8, <1>14, <2>1 DEF Message!BlockStop
  <2> QED BY <2>2 DEF Message!Next
<1>15. CASE a = Total /\ e = Stop
  <2>1. ~InBlock(a) /\ ~InBlock(e) /\ e.type # "content_block_start" /\ e.type \notin Deltas
    BY <1>15, Types DEF InBlock, Deltas
  <2>2. Message!End
    BY <1>3, <1>4, <1>5, <1>6, <1>7, <1>15, <2>1 DEF Message!End
  <2> QED BY <2>2 DEF Message!Next
<1> QED BY <1>1, <1>2, <1>10, <1>11, <1>12, <1>13, <1>14, <1>15, FollowsCases

-----------------------------------------------------------------------------
(* What a call of the sink writes follows what has been written. *)

LEMMA EventTypes ==
  /\ Start \in Event /\ Total \in Event /\ Stop \in Event /\ Error \in Event
  /\ \A i \in Nat :
       /\ \A kind \in {"thinking", "text", "tool_use"} : BlockStart(i, kind) \in Event
       /\ ThinkingDelta(i) \in Event /\ BlockStop(i) \in Event
       /\ \A text \in Text : TextDelta(i, text) \in Event
       /\ \A call \in Call : CallDelta(i, call) \in Event
BY DEF Event, BlockStart, ThinkingDelta, BlockStop, TextDelta, CallDelta

LEMMA EventPieces ==
  /\ TextPiece(Start) = <<>> /\ TextPiece(Total) = <<>> /\ TextPiece(Stop) = <<>> /\ TextPiece(Error) = <<>>
  /\ CallPiece(Start) = <<>> /\ CallPiece(Total) = <<>> /\ CallPiece(Stop) = <<>> /\ CallPiece(Error) = <<>>
  /\ \A i, x :
       /\ TextPiece(BlockStart(i, x)) = <<>> /\ CallPiece(BlockStart(i, x)) = <<>>
       /\ TextPiece(ThinkingDelta(i)) = <<>> /\ CallPiece(ThinkingDelta(i)) = <<>>
       /\ TextPiece(BlockStop(i)) = <<>> /\ CallPiece(BlockStop(i)) = <<>>
       /\ TextPiece(TextDelta(i, x)) = x /\ CallPiece(TextDelta(i, x)) = <<>>
       /\ TextPiece(CallDelta(i, x)) = <<>> /\ CallPiece(CallDelta(i, x)) = <<x>>
BY DEF TextPiece, CallPiece, Start, Total, Stop, Error, BlockStart, ThinkingDelta, BlockStop,
       TextDelta, CallDelta

LEMMA TextNeutral ==
  ASSUME NEW a \in Text
  PROVE  a \o <<>> = a /\ <<>> \o a = a /\ <<>> \in Text
BY ConcatEmptySeq DEF Text

LEMMA CallsNeutral ==
  ASSUME NEW a \in Seq(Call)
  PROVE  a \o <<>> = a /\ <<>> \o a = a /\ <<>> \in Seq(Call)
BY ConcatEmptySeq

\* One event.
LEMMA One ==
  ASSUME NEW a, NEW e \in Event
  PROVE  /\ <<e>> \in Seq(Event) /\ LastOf(a, <<e>>) = e /\ Leads(a, <<e>>) = Follows(a, e)
         /\ TextOf(<<e>>) = TextPiece(e) /\ CallsOf(<<e>>) = CallPiece(e)
<1>1. <<>> \in Seq(Event) /\ <<>> \in Seq(Item) /\ Append(<<>>, e) = <<e>> /\ e \in Item
  BY DEF Item
<1>2. TextOf(<<e>>) = TextPiece(e)
  BY <1>1, NoEvents, TextAppend, Pieces, TextNeutral
<1>3. CallsOf(<<e>>) = CallPiece(e)
  BY <1>1, NoEvents, CallsAppend, Pieces, CallsNeutral
<1>4. <<e>> \in Seq(Event)
  OBVIOUS
<1>5. LastOf(a, <<e>>) = e
  BY <1>1, LastAppend
<1>6. Leads(a, <<e>>) = Follows(a, e)
  <2>1. Leads(a, <<e>>) <=> Follows(a, e)
    <3>1. Leads(a, Append(<<>>, e)) <=> Leads(a, <<>>) /\ Follows(LastOf(a, <<>>), e)
      BY <1>1, LeadsAppend
    <3> QED BY <1>1, <3>1, LeadsNowhere
  <2>2. Leads(a, <<e>>) \in BOOLEAN /\ Follows(a, e) \in BOOLEAN
    BY DEF Leads, Follows
  <2> QED BY <2>1, <2>2
<1> QED BY <1>2, <1>3, <1>4, <1>5, <1>6

\* Events that follow each other, after what they follow.
LEMMA Both ==
  ASSUME NEW a, NEW s \in Seq(Event), NEW t \in Seq(Event)
  PROVE  /\ s \o t \in Seq(Event) /\ LastOf(a, s \o t) = LastOf(LastOf(a, s), t)
         /\ Leads(a, s \o t) <=> Leads(a, s) /\ Leads(LastOf(a, s), t)
         /\ TextOf(s \o t) = TextOf(s) \o TextOf(t) /\ CallsOf(s \o t) = CallsOf(s) \o CallsOf(t)
         /\ TextOf(s) \in Text /\ CallsOf(s) \in Seq(Call)
<1>1. s \in Seq(Item) /\ t \in Seq(Item)
  BY DEF Item
<1> QED BY <1>1, LastConcat, LeadsConcat, PiecesConcat, ConcatProperties, TextAppend, CallsAppend

LEMMA Lists ==
  ASSUME NEW S, NEW c \in S, NEW d \in S, NEW e \in S
  PROVE  Append(<<c>>, d) = <<c, d>> /\ Append(<<c, d>>, e) = <<c, d, e>>
<1>1. <<c>> \in Seq(S) /\ Len(<<c>>) = 1 /\ <<c>>[1] = c
  OBVIOUS
<1>2. <<c, d>> \in Seq(S) /\ Len(<<c, d>>) = 2 /\ <<c, d>>[1] = c /\ <<c, d>>[2] = d
  OBVIOUS
<1>3. /\ <<c, d, e>> \in Seq(S) /\ Len(<<c, d, e>>) = 3
      /\ <<c, d, e>>[1] = c /\ <<c, d, e>>[2] = d /\ <<c, d, e>>[3] = e
  OBVIOUS
<1>4. (\A i \in 1 .. 1 : i = 1) /\ (\A i \in 1 .. 2 : i = 1 \/ i = 2)
  OBVIOUS
<1>5. <<c, d>> = Append(<<c>>, d)
  <2>1. \A i \in 1 .. Len(<<c>>) : <<c, d>>[i] = <<c>>[i]
    BY <1>1, <1>2, <1>4
  <2>2. Len(<<c, d>>) = Len(<<c>>) + 1 /\ <<c, d>>[Len(<<c>>) + 1] = d
    BY <1>1, <1>2
  <2> QED BY <1>1, <1>2, <2>1, <2>2, IsAppend
<1>6. <<c, d, e>> = Append(<<c, d>>, e)
  <2>1. \A i \in 1 .. Len(<<c, d>>) : <<c, d, e>>[i] = <<c, d>>[i]
    BY <1>2, <1>3, <1>4
  <2>2. Len(<<c, d, e>>) = Len(<<c, d>>) + 1 /\ <<c, d, e>>[Len(<<c, d>>) + 1] = e
    BY <1>2, <1>3
  <2> QED BY <1>2, <1>3, <2>1, <2>2, IsAppend
<1> QED BY <1>5, <1>6

LEMMA Two ==
  ASSUME NEW a, NEW d \in Event, NEW e \in Event
  PROVE  /\ <<d, e>> \in Seq(Event) /\ LastOf(a, <<d, e>>) = e
         /\ Leads(a, <<d, e>>) <=> Follows(a, d) /\ Follows(d, e)
         /\ TextOf(<<d, e>>) = TextPiece(d) \o TextPiece(e)
         /\ CallsOf(<<d, e>>) = CallPiece(d) \o CallPiece(e)
<1> DEFINE s == <<d>>
<1>1. Append(s, e) = <<d, e>> /\ e \in Item
  BY Lists DEF Item
<1>2. /\ s \in Seq(Event) /\ LastOf(a, s) = d /\ Leads(a, s) = Follows(a, d)
      /\ TextOf(s) = TextPiece(d) /\ CallsOf(s) = CallPiece(d)
  BY One
<1> HIDE DEF s
<1>3. Append(s, e) \in Seq(Event) /\ s \in Seq(Item)
  BY <1>2, AppendProperties DEF Item
<1>4. LastOf(a, Append(s, e)) = e /\ (Leads(a, Append(s, e)) <=> Leads(a, s) /\ Follows(LastOf(a, s), e))
  BY <1>2, LastAppend, LeadsAppend
<1>5. TextOf(Append(s, e)) = TextOf(s) \o TextPiece(e)
  BY <1>1, <1>3, TextAppend
<1>6. CallsOf(Append(s, e)) = CallsOf(s) \o CallPiece(e)
  BY <1>1, <1>3, CallsAppend
<1> QED BY <1>1, <1>2, <1>3, <1>4, <1>5, <1>6

\* The events s, after a, continue a message and carry the text and the calls.
Carries(a, s, text, calls) ==
  s \in Seq(Event) /\ Leads(a, s) /\ TextOf(s) = text /\ CallsOf(s) = calls

LEMMA CarriesNothing == \A a : Carries(a, <<>>, <<>>, <<>>)
BY NoEvents, LeadsNowhere DEF Carries

LEMMA CarriesBoth ==
  \A a, s, text, calls : Carries(a, s, text, calls) =>
    \A t, more, others : Carries(LastOf(a, s), t, more, others) =>
      Carries(a, s \o t, text \o more, calls \o others)
<1> SUFFICES ASSUME NEW a, NEW s, NEW text, NEW calls, Carries(a, s, text, calls),
                    NEW t, NEW more, NEW others, Carries(LastOf(a, s), t, more, others)
             PROVE  Carries(a, s \o t, text \o more, calls \o others)
  BY Zenon
<1>1. s \in Seq(Event) /\ t \in Seq(Event)
  BY DEF Carries
<1>2. /\ s \o t \in Seq(Event) /\ LastOf(a, s \o t) = LastOf(LastOf(a, s), t)
      /\ Leads(a, s \o t) <=> Leads(a, s) /\ Leads(LastOf(a, s), t)
      /\ TextOf(s \o t) = TextOf(s) \o TextOf(t) /\ CallsOf(s \o t) = CallsOf(s) \o CallsOf(t)
  <2>1. /\ s \o t \in Seq(Event) /\ LastOf(a, s \o t) = LastOf(LastOf(a, s), t)
        /\ Leads(a, s \o t) <=> Leads(a, s) /\ Leads(LastOf(a, s), t)
    BY <1>1, Both
  <2>2. TextOf(s \o t) = TextOf(s) \o TextOf(t)
    BY <1>1, Both
  <2>3. CallsOf(s \o t) = CallsOf(s) \o CallsOf(t)
    BY <1>1, Both
  <2> QED BY <2>1, <2>2, <2>3
<1> QED BY <1>2 DEF Carries

LEMMA LastBoth ==
  \A a, s, t : s \in Seq(Event) /\ t \in Seq(Event) => LastOf(a, s \o t) = LastOf(LastOf(a, s), t)
BY Both

LEMMA LastType ==
  ASSUME NEW w \in Seq(Event)
  PROVE  LastOf(Nothing, w) \in Event \cup {Nothing}
BY LeadsNowhere, LastIsEvent

LEMMA OpenByLast ==
  ASSUME NEW w \in Seq(Event), Leads(Nothing, w)
  PROVE  LET a == LastOf(Nothing, w)
         IN  /\ TextOpen(w) <=> InBlock(a)
             /\ NextIndex(w) \in Nat
             /\ a = Nothing \/ Between(a) \/ InBlock(a) => NextIndex(w) = NextAfter(a)
<1> DEFINE a == LastOf(Nothing, w)
<1>1. /\ NextIndex(w) = Count(w, "content_block_stop") + IF InBlock(a) THEN 1 ELSE 0
      /\ a = Nothing \/ Between(a) \/ InBlock(a) => NextIndex(w) = NextAfter(a)
  BY MessagesNumbered DEF Numbered
<1>2. Count(w, "content_block_stop") \in Nat /\ NextIndex(w) \in Nat
  BY EventTypes, CountAppend DEF NextIndex
<1>3. TextOpen(w) <=> NextIndex(w) > Count(w, "content_block_stop")
  BY DEF TextOpen, NextIndex
<1> HIDE DEF a
<1>4. TextOpen(w) <=> InBlock(a)
  BY <1>1, <1>2, <1>3
<1> QED BY <1>1, <1>2, <1>4 DEF a

\* What a message that rests may rest on.
LEMMA RestingCases ==
  ASSUME NEW a \in Event, Resting(a)
  PROVE  \/ Between(a) /\ ~InBlock(a) /\ NextAfter(a) \in Nat
         \/ a.type = "text_delta" /\ InBlock(a) /\ a.index \in Nat /\ NextAfter(a) = a.index + 1
<1>1. CASE a = Start
  BY <1>1, Types DEF Between, InBlock, NextAfter, Deltas
<1>2. CASE a.type = "content_block_stop"
  <2>1. a.index \in Nat
    BY <1>2, EventShapes
  <2> QED BY <1>2, <2>1 DEF Between, InBlock, NextAfter, Deltas
<1>3. CASE a.type = "text_delta"
  <2>1. a.index \in Nat
    BY <1>3, EventShapes DEF Deltas
  <2> QED BY <1>3, <2>1 DEF InBlock, NextAfter, Deltas
<1> QED BY <1>1, <1>2, <1>3 DEF Resting, Between

LEMMA ContinueTextCarries ==
  ASSUME NEW w \in Seq(Event), Leads(Nothing, w), Resting(LastOf(Nothing, w)), NEW text \in Text
  PROVE  LET a == LastOf(Nothing, w)
             s == ContinueText(w, text)
         IN  Carries(a, s, text, <<>>) /\ Resting(LastOf(a, s))
<1> DEFINE a == LastOf(Nothing, w)
           i == NextIndex(w)
<1>1. CASE text = <<>>
  BY <1>1, CarriesNothing, LeadsNowhere DEF ContinueText
<1>2. a \in Event
  BY LastType, Types DEF Resting, Between
<1>3. /\ TextOpen(w) <=> InBlock(a)
      /\ i \in Nat /\ (Between(a) \/ InBlock(a) => i = NextAfter(a))
  BY OpenByLast
<1>4. Resting(a) /\ text \o <<>> = text /\ <<>> \o text = text /\ <<>> \o <<>> = <<>>
  BY TextNeutral
<1> HIDE DEF a, i
<1>5. CASE text # <<>> /\ a.type = "text_delta" /\ InBlock(a)
  <2> DEFINE e == TextDelta(i - 1, text)
  <2>1. i - 1 = a.index /\ a.index \in Nat
    BY <1>2, <1>3, <1>4, <1>5, RestingCases DEF Between
  <2>2. ContinueText(w, text) = <<e>>
    BY <1>3, <1>5 DEF ContinueText, i
  <2>3. e \in Event /\ e.type = "text_delta" /\ e.index = a.index
    BY <2>1, EventTypes DEF TextDelta
  <2>4. Follows(a, e) /\ TextPiece(e) = text /\ CallPiece(e) = <<>> /\ Resting(e)
    BY <1>5, <2>3, EventPieces DEF Follows, Resting
  <2> HIDE DEF e
  <2> QED BY <2>2, <2>3, <2>4, One DEF Carries, a
<1>6. CASE text # <<>> /\ Between(a) /\ ~InBlock(a)
  <2> DEFINE d == BlockStart(i, "text")
             e == TextDelta(i, text)
  <2>1. ContinueText(w, text) = <<d, e>>
    BY <1>3, <1>6 DEF ContinueText, i
  <2>2. d \in Event /\ e \in Event
    BY <1>3, EventTypes
  <2>3. d.type = "content_block_start" /\ d.index = i /\ d.kind = "text" /\ e.type = "text_delta" /\ e.index = i
    BY DEF BlockStart, TextDelta
  <2>4. TextPiece(d) = <<>> /\ CallPiece(d) = <<>> /\ TextPiece(e) = text /\ CallPiece(e) = <<>>
    BY EventPieces
  <2> HIDE DEF d, e
  <2>5. Follows(a, d) /\ Follows(d, e) /\ Resting(e)
    BY <1>3, <1>6, <2>3 DEF Follows, Resting, DeltaOf
  <2>6. /\ <<d, e>> \in Seq(Event) /\ LastOf(a, <<d, e>>) = e /\ Leads(a, <<d, e>>)
        /\ TextOf(<<d, e>>) = text /\ CallsOf(<<d, e>>) = <<>>
    BY <1>4, <2>2, <2>4, <2>5, Two
  <2> QED BY <2>1, <2>5, <2>6 DEF Carries, a
<1>7. (Between(a) /\ ~InBlock(a)) \/ (a.type = "text_delta" /\ InBlock(a))
  BY <1>2, <1>4, RestingCases
<1>8. Carries(a, ContinueText(w, text), text, <<>>) /\ Resting(LastOf(a, ContinueText(w, text)))
  BY <1>1, <1>4, <1>5, <1>6, <1>7 DEF a
<1> QED BY <1>8 DEF a

LEMMA CloseTextCarries ==
  ASSUME NEW w \in Seq(Event), Leads(Nothing, w), Resting(LastOf(Nothing, w))
  PROVE  LET a == LastOf(Nothing, w)
             s == CloseText(w)
         IN  Carries(a, s, <<>>, <<>>) /\ Between(LastOf(a, s))
<1> DEFINE a == LastOf(Nothing, w)
           i == NextIndex(w)
<1>1. a \in Event
  BY LastType, Types DEF Resting, Between
<1>2. /\ TextOpen(w) <=> InBlock(a)
      /\ i \in Nat /\ (Between(a) \/ InBlock(a) => i = NextAfter(a))
  BY OpenByLast
<1>3. Resting(a)
  OBVIOUS
<1> HIDE DEF a, i
<1>4. CASE a.type = "text_delta" /\ InBlock(a)
  <2> DEFINE e == BlockStop(a.index)
  <2>1. i - 1 = a.index /\ a.index \in Nat
    BY <1>1, <1>2, <1>3, <1>4, RestingCases DEF Between
  <2>2. CloseText(w) = <<e>>
    BY <1>2, <1>4, <2>1 DEF CloseText, i
  <2>3. e \in Event /\ Follows(a, e) /\ Between(e) /\ TextPiece(e) = <<>> /\ CallPiece(e) = <<>>
    BY <1>4, <2>1, EventTypes, EventPieces, Types DEF Follows, Deltas, Between
  <2> HIDE DEF e
  <2> QED BY <2>2, <2>3, One DEF Carries, a
<1>5. CASE Between(a) /\ ~InBlock(a)
  BY <1>2, <1>5, CarriesNothing, LeadsNowhere DEF CloseText, a
<1> QED BY <1>1, <1>3, <1>4, <1>5, RestingCases DEF a

\* A block of its own.
LEMMA BlockCarries ==
  ASSUME NEW a, NEW i \in Nat, Between(a), NextAfter(a) = i
  PROVE  /\ Carries(a, Thinking(i), <<>>, <<>>)
         /\ \A text \in Text : Carries(a, TextBlock(i, text), text, <<>>)
         /\ \A call \in Call : Carries(a, ToolUse(i, call), <<>>, <<call>>)
         /\ \A s \in {Thinking(i)} \cup {TextBlock(i, text) : text \in Text}
                       \cup {ToolUse(i, call) : call \in Call} :
              Between(LastOf(a, s)) /\ NextAfter(LastOf(a, s)) = i + 1
<1> DEFINE e == BlockStop(i)
<1>1. e \in Event /\ Between(e) /\ NextAfter(e) = i + 1 /\ TextPiece(e) = <<>> /\ CallPiece(e) = <<>>
  BY EventTypes, EventPieces, Types DEF Between, NextAfter
<1>2. ASSUME NEW kind \in {"thinking", "text", "tool_use"}, NEW d \in Event,
             d.type = DeltaOf(kind), d.index = i
      PROVE  /\ Carries(a, <<BlockStart(i, kind), d, e>>, TextPiece(d), CallPiece(d))
             /\ LastOf(a, <<BlockStart(i, kind), d, e>>) = e
  <2> DEFINE c == BlockStart(i, kind)
             s == <<c, d>>
  <2>1. /\ c \in Event /\ c.type = "content_block_start" /\ c.index = i /\ c.kind = kind
        /\ TextPiece(c) = <<>> /\ CallPiece(c) = <<>>
    BY EventTypes, EventPieces DEF BlockStart
  <2>2. d.type \in Deltas
    BY <1>2 DEF DeltaOf, Deltas
  <2>3. /\ <<>> \o TextPiece(d) = TextPiece(d) /\ TextPiece(d) \o <<>> = TextPiece(d)
        /\ <<>> \o CallPiece(d) = CallPiece(d) /\ CallPiece(d) \o <<>> = CallPiece(d)
    BY Pieces, TextNeutral, CallsNeutral DEF Item
  <2> HIDE DEF c
  <2>4. Follows(a, c) /\ Follows(c, d) /\ Follows(d, e)
    BY <1>2, <2>1, <2>2 DEF Follows
  <2> HIDE DEF e
  <2>5. /\ s \in Seq(Event) /\ LastOf(a, s) = d /\ Leads(a, s)
        /\ TextOf(s) = TextPiece(d) /\ CallsOf(s) = CallPiece(d)
    BY <2>1, <2>3, <2>4, Two
  <2>6. Append(s, e) = <<c, d, e>>
    BY <1>1, <2>1, Lists
  <2> HIDE DEF s
  <2>7. Append(s, e) \in Seq(Event) /\ s \in Seq(Item) /\ e \in Item
    BY <1>1, <2>5, AppendProperties DEF Item
  <2>8. LastOf(a, Append(s, e)) = e /\ Leads(a, Append(s, e))
    BY <1>1, <2>4, <2>5, LastAppend, LeadsAppend
  <2>9. TextOf(Append(s, e)) = TextPiece(d) /\ CallsOf(Append(s, e)) = CallPiece(d)
    BY <1>1, <2>3, <2>5, <2>7, TextAppend, CallsAppend
  <2> QED BY <2>6, <2>7, <2>8, <2>9 DEF c, Carries
<1>3. Carries(a, Thinking(i), <<>>, <<>>) /\ LastOf(a, Thinking(i)) = e
  <2> DEFINE d == ThinkingDelta(i)
  <2>1. d \in Event /\ d.type = DeltaOf("thinking") /\ d.index = i
    BY EventTypes DEF ThinkingDelta, DeltaOf
  <2>2. TextPiece(d) = <<>> /\ CallPiece(d) = <<>>
    BY EventPieces
  <2> HIDE DEF d, e
  <2> QED BY <1>2, <2>1, <2>2 DEF Thinking, d, e
<1>4. ASSUME NEW text \in Text
      PROVE  Carries(a, TextBlock(i, text), text, <<>>) /\ LastOf(a, TextBlock(i, text)) = e
  <2> DEFINE d == TextDelta(i, text)
  <2>1. d \in Event /\ d.type = DeltaOf("text") /\ d.index = i
    BY EventTypes DEF TextDelta, DeltaOf
  <2>2. TextPiece(d) = text /\ CallPiece(d) = <<>>
    BY EventPieces
  <2> HIDE DEF d, e
  <2> QED BY <1>2, <2>1, <2>2 DEF TextBlock, d, e
<1>5. ASSUME NEW call \in Call
      PROVE  Carries(a, ToolUse(i, call), <<>>, <<call>>) /\ LastOf(a, ToolUse(i, call)) = e
  <2> DEFINE d == CallDelta(i, call)
  <2>1. d \in Event /\ d.type = DeltaOf("tool_use") /\ d.index = i
    BY EventTypes DEF CallDelta, DeltaOf
  <2>2. TextPiece(d) = <<>> /\ CallPiece(d) = <<call>>
    BY EventPieces
  <2> HIDE DEF d, e
  <2> QED BY <1>2, <2>1, <2>2 DEF ToolUse, d, e
<1> HIDE DEF e
<1> QED BY <1>1, <1>3, <1>4, <1>5

LEMMA ToolUsesCarry ==
  ASSUME NEW a, NEW i \in Nat, Between(a), NextAfter(a) = i, NEW calls \in Seq(Call)
  PROVE  Carries(a, ToolUses(i, calls), <<>>, calls) /\ Between(LastOf(a, ToolUses(i, calls)))
<1> DEFINE Uses(c) == [k \in DOMAIN c |-> ToolUse(i + k - 1, c[k])]
           P == {c \in Seq(Call) :
                   /\ Uses(c) \in Seq(Seq(Event))
                   /\ Carries(a, ToolUses(i, c), <<>>, c)
                   /\ Between(LastOf(a, ToolUses(i, c)))
                   /\ NextAfter(LastOf(a, ToolUses(i, c))) = i + Len(c)}
<1>1. <<>> \in P
  <2>1. Uses(<<>>) = <<>>
    OBVIOUS
  <2>2. ToolUses(i, <<>>) = <<>>
    BY <2>1, FlattenEmpty DEF ToolUses
  <2>3. <<>> \in Seq(Call) /\ <<>> \in Seq(Seq(Event)) /\ i + Len(<<>>) = i
    OBVIOUS
  <2> QED BY <2>1, <2>2, <2>3, CarriesNothing, LeadsNowhere
<1>2. ASSUME NEW c \in P, NEW e \in Call PROVE Append(c, e) \in P
  <2> DEFINE d == Append(c, e)
             b == LastOf(a, ToolUses(i, c))
             n == i + Len(c)
  <2>1. /\ d \in Seq(Call) /\ Len(d) = Len(c) + 1 /\ d[Len(c) + 1] = e /\ Len(c) \in Nat
        /\ \A k \in 1 .. Len(c) : d[k] = c[k]
    BY AppendProperties
  <2>2. /\ Carries(b, ToolUse(n, e), <<>>, <<e>>)
        /\ Between(LastOf(b, ToolUse(n, e))) /\ NextAfter(LastOf(b, ToolUse(n, e))) = n + 1
    <3>1. n \in Nat /\ Between(b) /\ NextAfter(b) = n
      BY <2>1
    <3> HIDE DEF b, n
    <3> QED BY <3>1, BlockCarries
  <2>3. ToolUse(n, e) \in Seq(Event)
    BY <2>2 DEF Carries
  <2> HIDE DEF d
  <2>4. Uses(d) = Append(Uses(c), ToolUse(n, e)) /\ Uses(d) \in Seq(Seq(Event))
    <3>1. /\ Uses(c) \in Seq(Seq(Event)) /\ DOMAIN Uses(c) = 1 .. Len(c) /\ Len(Uses(c)) = Len(c)
          /\ \A k \in 1 .. Len(c) : Uses(c)[k] = ToolUse(i + k - 1, c[k])
      OBVIOUS
    <3>2. DOMAIN Uses(d) = 1 .. Len(d) /\ \A k \in 1 .. Len(d) : Uses(d)[k] = ToolUse(i + k - 1, d[k])
      BY <2>1
    <3>3. i + (Len(c) + 1) - 1 = n
      BY <2>1
    <3> DEFINE f == Uses(c)
               g == Uses(d)
    <3>4. f \in Seq(Seq(Event)) /\ Len(f) = Len(c) /\ (\A k \in 1 .. Len(c) : f[k] \in Seq(Event))
      <4>1. f \in Seq(Seq(Event)) /\ Len(f) = Len(c)
        BY <3>1
      <4> HIDE DEF f
      <4> QED BY <2>1, <4>1
    <3>5. \A k \in 1 .. Len(c) : g[k] = f[k]
      BY <2>1, <3>1, <3>2
    <3>6. g[Len(c) + 1] = ToolUse(n, e)
      BY <2>1, <3>2, <3>3
    <3>7. \A k \in 1 .. Len(d) : g[k] \in Seq(Event)
      <4>1. \A k \in 1 .. Len(d) : k \in 1 .. Len(c) \/ k = Len(c) + 1
        BY <2>1
      <4> HIDE DEF f, g
      <4> QED BY <2>3, <3>4, <3>5, <3>6, <4>1
    <3>8. g = [k \in 1 .. Len(d) |-> g[k]]
      BY <3>2
    <3> HIDE DEF f, g
    <3>9. g \in Seq(Seq(Event)) /\ Len(g) = Len(d)
      BY <2>1, <3>7, <3>8
    <3>10. g = Append(f, ToolUse(n, e))
      <4> DEFINE u == ToolUse(n, e)
      <4>1. u \in Seq(Event) /\ Len(g) = Len(f) + 1
        BY <2>1, <2>3, <3>4, <3>9
      <4>2. g[Len(f) + 1] = u /\ \A k \in 1 .. Len(f) : g[k] = f[k]
        BY <3>4, <3>5, <3>6
      <4> HIDE DEF u
      <4>3. g = Append(f, u)
        BY <3>4, <3>9, <4>1, <4>2, IsAppend
      <4> QED BY <4>3 DEF u
    <3> QED BY <3>9, <3>10 DEF f, g
  <2>5. ToolUses(i, d) = ToolUses(i, c) \o ToolUse(n, e)
    <3>1. FlattenSeq(Append(Uses(c), ToolUse(n, e))) = FlattenSeq(Uses(c)) \o ToolUse(n, e)
      <4>1. Uses(c) \in Seq(Seq(Event))
        OBVIOUS
      <4> HIDE DEF Uses
      <4> QED BY <2>3, <4>1, FlattenAppend
    <3>2. ToolUses(i, d) = FlattenSeq(Uses(d)) /\ ToolUses(i, c) = FlattenSeq(Uses(c))
      BY DEF ToolUses
    <3> HIDE DEF Uses
    <3> QED BY <2>4, <3>1, <3>2
  <2>6. /\ Carries(a, ToolUses(i, c) \o ToolUse(n, e), <<>> \o <<>>, c \o <<e>>)
        /\ LastOf(a, ToolUses(i, c) \o ToolUse(n, e)) = LastOf(b, ToolUse(n, e))
    <3>1. Carries(a, ToolUses(i, c), <<>>, c)
      OBVIOUS
    <3>2. Carries(b, ToolUse(n, e), <<>>, <<e>>)
      BY <2>2
    <3> HIDE DEF n
    <3>3. Carries(a, ToolUses(i, c) \o ToolUse(n, e), <<>> \o <<>>, c \o <<e>>)
      BY <3>1, <3>2, CarriesBoth, Zenon
    <3> QED BY <3>1, <3>2, <3>3, LastBoth DEF Carries
  <2>7. <<>> \o <<>> = <<>> /\ c \o <<e>> = d /\ n + 1 = i + Len(d)
    BY <2>1, TextNeutral, AppendIsConcat DEF d
  <2> HIDE DEF b, n
  <2> QED BY <2>1, <2>2, <2>4, <2>5, <2>6, <2>7 DEF d
<1>3. P = Seq(Call)
  <2> HIDE DEF P
  <2>1. P \in SUBSET Seq(Call)
    BY DEF P
  <2> QED BY <1>1, <1>2, <2>1, InductSeq
<1> QED BY <1>3

LEMMA EndCarries ==
  ASSUME NEW a, Between(a)
  PROVE  /\ Carries(a, <<Total, Stop>>, <<>>, <<>>) /\ LastOf(a, <<Total, Stop>>) = Stop
         /\ Carries(a, <<Error>>, <<>>, <<>>) /\ LastOf(a, <<Error>>) = Error
<1>1. Follows(a, Total) /\ Follows(Total, Stop) /\ Follows(a, Error)
  BY DEF Follows
<1>2. <<>> \o <<>> = <<>>
  BY TextNeutral
<1>3. /\ <<Error>> \in Seq(Event) /\ LastOf(a, <<Error>>) = Error /\ Leads(a, <<Error>>)
      /\ TextOf(<<Error>>) = <<>> /\ CallsOf(<<Error>>) = <<>>
  BY <1>1, EventTypes, EventPieces, One
<1>4. /\ <<Total, Stop>> \in Seq(Event) /\ LastOf(a, <<Total, Stop>>) = Stop /\ Leads(a, <<Total, Stop>>)
      /\ TextOf(<<Total, Stop>>) = <<>> /\ CallsOf(<<Total, Stop>>) = <<>>
  BY <1>1, <1>2, EventTypes, EventPieces, Two
<1> QED BY <1>3, <1>4 DEF Carries

LEMMA FailCarries ==
  ASSUME NEW w \in Seq(Event), Leads(Nothing, w), Resting(LastOf(Nothing, w))
  PROVE  LET a == LastOf(Nothing, w)
         IN  Carries(a, Fail(w), <<>>, <<>>) /\ LastOf(a, Fail(w)) = Error
<1> DEFINE a == LastOf(Nothing, w)
           c == CloseText(w)
           z == <<Error>>
<1>1. Carries(a, c, <<>>, <<>>) /\ Between(LastOf(a, c))
  BY CloseTextCarries
<1> HIDE DEF a, c
<1>2. Carries(LastOf(a, c), z, <<>>, <<>>) /\ LastOf(LastOf(a, c), z) = Error
  BY <1>1, EndCarries
<1> HIDE DEF z
<1>3. Carries(a, c \o z, <<>> \o <<>>, <<>> \o <<>>)
  <2>1. Carries(a, c, <<>>, <<>>)
    BY <1>1
  <2>2. Carries(LastOf(a, c), z, <<>>, <<>>)
    BY <1>2
  <2> QED BY <2>1, <2>2, CarriesBoth, Zenon
<1>4. LastOf(a, c \o z) = LastOf(LastOf(a, c), z)
  BY <1>1, <1>2, LastBoth DEF Carries
<1>5. <<>> \o <<>> = <<>>
  BY TextNeutral
<1> QED BY <1>2, <1>3, <1>4, <1>5 DEF Fail, a, c, z

Rest(text, whole) == IF IsPrefix(text, whole) THEN SubSeq(whole, Len(text) + 1, Len(whole)) ELSE <<>>

LEMMA RestType ==
  ASSUME NEW text \in Text, NEW whole \in Text
  PROVE  Rest(text, whole) \in Text /\ (IsPrefix(text, whole) => text \o Rest(text, whole) = whole)
<1> DEFINE m == Len(text)
           n == Len(whole)
           r == SubSeq(whole, m + 1, n)
<1>1. m \in Nat /\ n \in Nat /\ text \in Seq(Tokens \cup {"w"}) /\ whole \in Seq(Tokens \cup {"w"})
  BY DEF Text
<1>2. r \in Seq(Tokens \cup {"w"}) /\ <<>> \in Text
  <2>1. \A i \in m + 1 .. n : whole[i] \in Tokens \cup {"w"}
    BY <1>1
  <2> QED BY <1>1, <2>1, SubSeqProperties DEF Text
<1>3. ASSUME IsPrefix(text, whole) PROVE text \o r = whole
  <2>1. m <= n /\ SubSeq(text, 1, m) = SubSeq(whole, 1, m)
    BY <1>3 DEF IsPrefix
  <2>2. Len(r) = n - m /\ \A i \in 1 .. n - m : r[i] = whole[m + i]
    BY <1>1, <2>1, SubSeqProperties
  <2>3. \A i \in 1 .. m : text[i] = whole[i]
    <3>1. \A i \in 1 .. m : SubSeq(text, 1, m)[i] = text[i] /\ SubSeq(whole, 1, m)[i] = whole[i]
      BY <1>1, <2>1
    <3> QED BY <2>1, <3>1
  <2> DEFINE c == text \o r
  <2>4. /\ c \in Seq(Tokens \cup {"w"}) /\ Len(c) = m + Len(r)
        /\ \A i \in 1 .. m + Len(r) : c[i] = IF i <= m THEN text[i] ELSE r[i - m]
    BY <1>1, <1>2, ConcatProperties
  <2> HIDE DEF c, r, m, n
  <2>5. Len(c) = n
    BY <1>1, <2>1, <2>2, <2>4
  <2>6. ASSUME NEW i \in 1 .. n PROVE c[i] = whole[i]
    <3>1. CASE i <= m
      BY <1>1, <2>2, <2>3, <2>4, <2>5, <3>1
    <3>2. CASE ~(i <= m)
      <4>1. i - m \in 1 .. n - m /\ m + (i - m) = i
        BY <1>1, <2>1, <3>2
      <4> QED BY <1>1, <2>2, <2>4, <2>5, <3>2, <4>1
    <3> QED BY <3>1, <3>2
  <2> QED BY <1>1, <2>4, <2>5, <2>6, SeqEqual DEF c, n
<1> QED BY <1>2, <1>3 DEF Rest, Text

LEMMA FinishCarries ==
  ASSUME NEW w \in Seq(Event), Leads(Nothing, w), Resting(LastOf(Nothing, w)),
         NEW reply \in [text : Text, calls : Seq(Call)]
  PROVE  LET a == LastOf(Nothing, w)
         IN  /\ Carries(a, Finish(w, reply), Rest(TextOf(w), reply.text), reply.calls)
             /\ LastOf(a, Finish(w, reply)) = Stop
<1> DEFINE a == LastOf(Nothing, w)
           text == Rest(TextOf(w), reply.text)
           rest == ContinueText(w, text)
           b == LastOf(a, rest)
           close == CloseText(w \o rest)
           c == LastOf(b, close)
           x == rest \o close
           v == w \o x
           uses == ToolUses(NextIndex(v), reply.calls)
           d == LastOf(c, uses)
           z == <<Total, Stop>>
           y == x \o uses
<1>1. text \in Text /\ reply.calls \in Seq(Call)
  <2>1. w \in Seq(Item)
    BY DEF Item
  <2> QED BY <2>1, TextAppend, RestType
<1>2. Finish(w, reply) = y \o z
  <2>1. rest = IF IsPrefix(TextOf(w), reply.text)
               THEN ContinueText(w, SubSeq(reply.text, Len(TextOf(w)) + 1, Len(reply.text)))
               ELSE <<>>
    BY DEF Rest, ContinueText
  <2> QED BY <2>1, Zenon DEF Finish, ClosedAfter
<1>3. Carries(a, rest, text, <<>>) /\ Resting(b)
  BY <1>1, ContinueTextCarries
<1>4. w \in Seq(Event) /\ rest \in Seq(Event) /\ Leads(a, rest)
  BY <1>3 DEF Carries
<1> HIDE DEF rest, text
<1>5. w \o rest \in Seq(Event) /\ Leads(Nothing, w \o rest) /\ LastOf(Nothing, w \o rest) = b
  BY <1>4, Both
<1>6. Carries(b, close, <<>>, <<>>) /\ Between(c)
  BY <1>3, <1>5, CloseTextCarries
<1>7. close \in Seq(Event) /\ Leads(b, close)
  BY <1>6 DEF Carries
<1> HIDE DEF close, a
<1>8. /\ x \in Seq(Event) /\ Leads(a, x) /\ LastOf(a, x) = c
  BY <1>4, <1>7, Both
<1> HIDE DEF x
<1>9. v \in Seq(Event) /\ Leads(Nothing, v) /\ LastOf(Nothing, v) = c
  BY <1>4, <1>8, Both DEF a
<1>10. NextIndex(v) \in Nat /\ NextAfter(c) = NextIndex(v)
  <2> HIDE DEF v, c
  <2> QED BY <1>6, <1>9, OpenByLast
<1> HIDE DEF v, c, b
<1>11. Carries(c, uses, <<>>, reply.calls) /\ Between(d)
  BY <1>1, <1>6, <1>10, ToolUsesCarry
<1> HIDE DEF uses, d
<1>12. Carries(d, z, <<>>, <<>>) /\ LastOf(d, z) = Stop
  BY <1>11, EndCarries
<1> HIDE DEF z
<1>13. Carries(a, x, text \o <<>>, <<>> \o <<>>)
  <2>1. Carries(a, rest, text, <<>>)
    BY <1>3
  <2>2. Carries(LastOf(a, rest), close, <<>>, <<>>)
    BY <1>6 DEF b
  <2> QED BY <2>1, <2>2, CarriesBoth, Zenon DEF x
<1>14. Carries(a, y, (text \o <<>>) \o <<>>, (<<>> \o <<>>) \o reply.calls)
  <2>1. Carries(LastOf(a, x), uses, <<>>, reply.calls)
    BY <1>8, <1>11
  <2> QED BY <1>13, <2>1, CarriesBoth, Zenon DEF y
<1>15. LastOf(a, y) = d
  <2>1. uses \in Seq(Event)
    BY <1>11 DEF Carries
  <2> QED BY <1>8, <2>1, LastBoth DEF d, y
<1> HIDE DEF y
<1>16. Carries(a, y \o z,
               ((text \o <<>>) \o <<>>) \o <<>>, ((<<>> \o <<>>) \o reply.calls) \o <<>>)
  <2>1. Carries(LastOf(a, y), z, <<>>, <<>>)
    BY <1>12, <1>15
  <2> QED BY <1>14, <2>1, CarriesBoth, Zenon
<1>17. LastOf(a, y \o z) = Stop
  <2>1. y \in Seq(Event) /\ z \in Seq(Event)
    BY <1>12, <1>14 DEF Carries
  <2> QED BY <1>12, <1>15, <2>1, LastBoth
<1>18. ((text \o <<>>) \o <<>>) \o <<>> = text /\ ((<<>> \o <<>>) \o reply.calls) \o <<>> = reply.calls
  BY <1>1, TextNeutral, CallsNeutral
<1> QED BY <1>2, <1>16, <1>17, <1>18 DEF a, text, rest, close, v, x, y, uses, z

Preface(thought) == IF thought THEN Thinking(0) ELSE <<>>

\* How a message begins, committed or replayed.
LEMMA PrefaceCarries ==
  ASSUME NEW thought \in BOOLEAN
  PROVE  LET s == <<Start>> \o Preface(thought)
         IN  /\ Preface(thought) \in Seq(Event)
             /\ Carries(Nothing, s, <<>>, <<>>) /\ Between(LastOf(Nothing, s))
<1> DEFINE p == Preface(thought)
           z == <<Start>>
<1>1. Follows(Nothing, Start) /\ Between(Start) /\ NextAfter(Start) = 0
  BY Types DEF Follows, Between, NextAfter
<1>2. Carries(Nothing, z, <<>>, <<>>) /\ LastOf(Nothing, z) = Start /\ z \in Seq(Event)
  BY <1>1, EventTypes, EventPieces, One DEF Carries
<1>3. Carries(Start, p, <<>>, <<>>) /\ Between(LastOf(Start, p))
  BY <1>1, CarriesNothing, LeadsNowhere, BlockCarries DEF Preface
<1> HIDE DEF z, p
<1>4. p \in Seq(Event)
  BY <1>3 DEF Carries
<1>5. Carries(Nothing, z \o p, <<>> \o <<>>, <<>> \o <<>>)
  <2>1. Carries(Nothing, z, <<>>, <<>>)
    BY <1>2
  <2>2. Carries(LastOf(Nothing, z), p, <<>>, <<>>)
    BY <1>2, <1>3
  <2> QED BY <2>1, <2>2, CarriesBoth, Zenon
<1>6. LastOf(Nothing, z \o p) = LastOf(Start, p)
  BY <1>2, <1>4, LastBoth
<1>7. <<>> \o <<>> = <<>>
  BY TextNeutral
<1> QED BY <1>3, <1>4, <1>5, <1>6, <1>7 DEF z, p

LEMMA CountConcat ==
  ASSUME NEW s \in Seq(Event), NEW t \in Seq(Event), NEW type
  PROVE  Count(s \o t, type) = Count(s, type) + Count(t, type)
<1> DEFINE P == {u \in Seq(Event) : Count(s \o u, type) = Count(s, type) + Count(u, type)}
<1>1. <<>> \in P
  <2>1. {k \in DOMAIN <<>> : <<>>[k].type = type} = {}
    OBVIOUS
  <2>2. Count(<<>>, type) = 0
    BY <2>1, FS_EmptySet DEF Count
  <2>3. s \o <<>> = s /\ <<>> \in Seq(Event) /\ Count(s, type) \in Nat
    BY ConcatEmptySeq, CountAppend, EventTypes
  <2> QED BY <2>2, <2>3
<1>2. ASSUME NEW u \in P, NEW e \in Event PROVE Append(u, e) \in P
  <2>1. s \o Append(u, e) = Append(s \o u, e) /\ s \o u \in Seq(Event) /\ Append(u, e) \in Seq(Event)
    BY ConcatAppend, ConcatProperties, AppendProperties
  <2>2. /\ Count(Append(s \o u, e), type) = Count(s \o u, type) + IF e.type = type THEN 1 ELSE 0
        /\ Count(Append(u, e), type) = Count(u, type) + IF e.type = type THEN 1 ELSE 0
        /\ Count(s, type) \in Nat /\ Count(u, type) \in Nat
    <3> DEFINE v == s \o u
    <3>1. v \in Seq(Event)
      BY <2>1
    <3> HIDE DEF v
    <3>2. Count(Append(v, e), type) = Count(v, type) + IF e.type = type THEN 1 ELSE 0
      BY <3>1, CountAppend
    <3>3. u \in Seq(Event)
      OBVIOUS
    <3> HIDE DEF P
    <3>4. Count(Append(u, e), type) = Count(u, type) + IF e.type = type THEN 1 ELSE 0
      BY <3>3, CountAppend
    <3>5. Count(s, type) \in Nat /\ Count(u, type) \in Nat
      BY <3>3, CountAppend
    <3> QED BY <3>2, <3>4, <3>5 DEF v
  <2>3. Count(s \o u, type) = Count(s, type) + Count(u, type)
    OBVIOUS
  <2> HIDE DEF P
  <2>4. Count(s \o Append(u, e), type) = Count(s, type) + Count(Append(u, e), type)
    BY <2>1, <2>2, <2>3
  <2> QED BY <2>1, <2>4 DEF P
<1>3. P = Seq(Event)
  <2> HIDE DEF P
  <2>1. P \in SUBSET Seq(Event)
    BY DEF P
  <2> QED BY <1>1, <1>2, <2>1, InductSeq
<1> QED BY <1>3

LEMMA ReplayCarries ==
  ASSUME NEW thought \in BOOLEAN, NEW reply \in [text : Text, calls : Seq(Call)]
  PROVE  /\ Carries(Nothing, Replay(thought, reply), reply.text, reply.calls)
         /\ LastOf(Nothing, Replay(thought, reply)) = Stop
<1> DEFINE p == Preface(thought)
           n == <<Start>>
           s == n \o p
           a == LastOf(Nothing, s)
           shown == reply.text # <<>> \/ (~thought /\ reply.calls = <<>>)
           text == IF shown THEN TextBlock(NextIndex(p), reply.text) ELSE <<>>
           b == LastOf(a, text)
           v == s \o text
           uses == ToolUses(NextIndex(p \o text), reply.calls)
           c == LastOf(b, uses)
           x == v \o uses
           z == <<Total, Stop>>
<1>1. Replay(thought, reply) = x \o z
  BY Zenon DEF Replay, Preface
<1>2. p \in Seq(Event) /\ Carries(Nothing, s, <<>>, <<>>) /\ Between(a)
  BY PrefaceCarries
<1>3. n \in Seq(Event) /\ NextIndex(n) = 0
  <2>1. n \in Seq(Event) /\ LastOf(Nothing, n) = Start
    BY EventTypes, One
  <2>2. Leads(Nothing, n)
    BY EventTypes, One DEF Follows
  <2>3. Between(Start) /\ NextAfter(Start) = 0
    BY Types DEF Between, NextAfter
  <2> QED BY <2>1, <2>2, <2>3, OpenByLast
<1>4. reply.text \in Text /\ reply.calls \in Seq(Call)
  OBVIOUS
<1> HIDE DEF n, p
<1>5. s \in Seq(Event) /\ Leads(Nothing, s)
  BY <1>2 DEF Carries
<1>6. NextIndex(s) = NextIndex(p) /\ NextIndex(p) \in Nat /\ NextAfter(a) = NextIndex(p)
  <2>1. NextIndex(s) = NextIndex(n) + NextIndex(p)
    BY <1>2, <1>3, CountConcat DEF NextIndex
  <2>2. NextIndex(s) = NextAfter(a)
    BY <1>2, <1>5, OpenByLast
  <2>3. NextIndex(p) \in Nat
    BY <1>2, CountAppend, EventTypes DEF NextIndex
  <2> HIDE DEF s, a
  <2> QED BY <1>3, <2>1, <2>2, <2>3
<1> HIDE DEF a
<1>7. Carries(a, text, reply.text, <<>>) /\ Between(b)
  <2>1. CASE shown
    BY <1>2, <1>4, <1>6, <2>1, BlockCarries
  <2>2. CASE ~shown
    BY <1>2, <2>2, CarriesNothing, LeadsNowhere
  <2> QED BY <2>1, <2>2
<1>8. text \in Seq(Event) /\ Leads(a, text)
  BY <1>7 DEF Carries
<1> HIDE DEF text, b
<1>9. v = n \o (p \o text) /\ p \o text \in Seq(Event)
  <2>1. n \in Seq(Event) /\ p \in Seq(Event) /\ text \in Seq(Event)
    BY <1>2, <1>3, <1>8
  <2>2. (n \o p) \o text = n \o (p \o text) /\ p \o text \in Seq(Event)
    <3>1. (n \o p) \o text = n \o (p \o text)
      BY <2>1, EventsAssociate
    <3>2. p \o text \in Seq(Event)
      BY <2>1, ConcatProperties
    <3> QED BY <3>1, <3>2
  <2> QED BY <1>2, <1>3, <2>2
<1>10. v \in Seq(Event) /\ Leads(Nothing, v) /\ LastOf(Nothing, v) = b
  <2> HIDE DEF s
  <2> QED BY <1>5, <1>8, Both DEF a, b
<1>11. NextIndex(p \o text) \in Nat /\ NextAfter(b) = NextIndex(p \o text)
  <2>1. NextIndex(v) = NextIndex(n) + NextIndex(p \o text)
    <3> DEFINE q == p \o text
    <3>1. v = n \o q /\ q \in Seq(Event)
      BY <1>9
    <3> HIDE DEF q, v
    <3>2. Count(n \o q, "content_block_start") =
            Count(n, "content_block_start") + Count(q, "content_block_start")
      BY <1>3, <3>1, CountConcat
    <3> QED BY <3>1, <3>2 DEF NextIndex, q
  <2>2. NextIndex(v) = NextAfter(b)
    <3> HIDE DEF v
    <3> QED BY <1>7, <1>10, OpenByLast
  <2>3. NextIndex(p \o text) \in Nat
    BY <1>9, CountAppend, EventTypes DEF NextIndex
  <2> HIDE DEF v
  <2> QED BY <1>3, <2>1, <2>2, <2>3
<1>12. Carries(b, uses, <<>>, reply.calls) /\ Between(c)
  BY <1>4, <1>7, <1>11, ToolUsesCarry
<1> HIDE DEF uses, c
<1>13. Carries(c, z, <<>>, <<>>) /\ LastOf(c, z) = Stop
  BY <1>12, EndCarries
<1> HIDE DEF z, s
<1>14. Carries(Nothing, v, <<>> \o reply.text, <<>> \o <<>>)
  <2>1. Carries(Nothing, s, <<>>, <<>>)
    BY <1>2
  <2>2. Carries(LastOf(Nothing, s), text, reply.text, <<>>)
    BY <1>7 DEF a
  <2> QED BY <2>1, <2>2, CarriesBoth, Zenon
<1> HIDE DEF v
<1>15. Carries(Nothing, x, (<<>> \o reply.text) \o <<>>, (<<>> \o <<>>) \o reply.calls)
  <2>1. Carries(LastOf(Nothing, v), uses, <<>>, reply.calls)
    BY <1>10, <1>12
  <2> QED BY <1>14, <2>1, CarriesBoth, Zenon
<1>16. LastOf(Nothing, x) = c
  <2>1. uses \in Seq(Event)
    BY <1>12 DEF Carries
  <2> QED BY <1>10, <2>1, LastBoth DEF c
<1> HIDE DEF x
<1>17. Carries(Nothing, x \o z, ((<<>> \o reply.text) \o <<>>) \o <<>>,
               ((<<>> \o <<>>) \o reply.calls) \o <<>>)
  <2>1. Carries(LastOf(Nothing, x), z, <<>>, <<>>)
    BY <1>13, <1>16
  <2> QED BY <1>15, <2>1, CarriesBoth, Zenon
<1>18. LastOf(Nothing, x \o z) = Stop
  <2>1. x \in Seq(Event) /\ z \in Seq(Event)
    BY <1>13, <1>15 DEF Carries
  <2> QED BY <1>13, <1>16, <2>1, LastBoth
<1>19. /\ ((<<>> \o reply.text) \o <<>>) \o <<>> = reply.text
       /\ ((<<>> \o <<>>) \o reply.calls) \o <<>> = reply.calls
  BY <1>4, TextNeutral, CallsNeutral
<1>20. Replay(thought, reply) = x \o z
  BY <1>1 DEF n, p, s, text, v, uses, x, z
<1> QED BY <1>17, <1>18, <1>19, <1>20

-----------------------------------------------------------------------------
(* The sink's texts are put together from the reply's. *)

\* The text a commit or an addition streams.
Flushed(text, sent) ==
  IF FlushEnd(text) > sent THEN SubSeq(text, sent + 1, FlushEnd(text)) ELSE <<>>

LEMMA StreamedCarries ==
  ASSUME wire \in Seq(Event), NEW c, c.committed \in BOOLEAN, c.thought \in BOOLEAN,
         NEW text, Flushed(text, Len(TextOf(wire))) \in Text,
         Leads(Nothing, wire), ~c.committed => wire = <<>>,
         c.committed => Resting(LastOf(Nothing, wire))
  PROVE  LET a == LastOf(Nothing, wire)
         IN  /\ Carries(a, Streamed(c, text), Flushed(text, Len(TextOf(wire))), <<>>)
             /\ Resting(LastOf(a, Streamed(c, text)))
<1> DEFINE a == LastOf(Nothing, wire)
           s == IF c.committed THEN <<>> ELSE <<Start>> \o Preface(c.thought)
           b == LastOf(a, s)
           w == wire \o s
           f == Flushed(text, Len(TextOf(wire)))
           t == ContinueText(w, f)
<1>1. Streamed(c, text) = s \o t
  BY Zenon DEF Streamed, Flushed, Preface
<1>2. Carries(a, s, <<>>, <<>>) /\ Resting(b)
  <2>1. CASE c.committed
    BY <2>1, CarriesNothing, LeadsNowhere
  <2>2. CASE ~c.committed
    <3>1. a = Nothing
      BY <2>2, LeadsNowhere
    <3> QED BY <2>2, <3>1, PrefaceCarries DEF Resting
  <2> QED BY <2>1, <2>2
<1>3. s \in Seq(Event) /\ Leads(a, s)
  BY <1>2 DEF Carries
<1> HIDE DEF s
<1>4. w \in Seq(Event) /\ Leads(Nothing, w) /\ LastOf(Nothing, w) = b
  BY <1>3, Both
<1> HIDE DEF w, f, a
<1>5. Carries(b, t, f, <<>>) /\ Resting(LastOf(b, t))
  BY <1>2, <1>4, ContinueTextCarries DEF f
<1> HIDE DEF t
<1>6. Carries(a, s \o t, <<>> \o f, <<>> \o <<>>)
  <2>1. Carries(a, s, <<>>, <<>>)
    BY <1>2
  <2>2. Carries(LastOf(a, s), t, f, <<>>)
    BY <1>5
  <2> QED BY <2>1, <2>2, CarriesBoth, Zenon
<1>7. LastOf(a, s \o t) = LastOf(b, t)
  BY <1>3, <1>5, LastBoth DEF Carries
<1>8. <<>> \o f = f /\ <<>> \o <<>> = <<>>
  BY TextNeutral DEF f
<1> QED BY <1>1, <1>5, <1>6, <1>7, <1>8 DEF a, s, w, f, t

-----------------------------------------------------------------------------
(* Whatever the client has been written, the sink writes events. *)

LEMMA NextIndexType ==
  ASSUME NEW w \in Seq(Event)
  PROVE  NextIndex(w) \in Nat /\ (TextOpen(w) => NextIndex(w) - 1 \in Nat)
<1>1. NextIndex(w) \in Nat /\ Count(w, "content_block_stop") \in Nat
  BY CountAppend, EventTypes DEF NextIndex
<1> QED BY <1>1 DEF TextOpen, NextIndex

LEMMA Singles ==
  ASSUME NEW S, NEW d \in S, NEW e \in S
  PROVE  <<>> \in Seq(S) /\ <<d>> \in Seq(S) /\ <<d, e>> \in Seq(S)
OBVIOUS

LEMMA TextEventsType ==
  ASSUME NEW w \in Seq(Event), NEW text \in Text
  PROVE  ContinueText(w, text) \in Seq(Event) /\ CloseText(w) \in Seq(Event)
<1> DEFINE i == NextIndex(w)
<1>1. i \in Nat /\ (TextOpen(w) => i - 1 \in Nat)
  BY NextIndexType
<1>2. <<>> \in Seq(Event)
  OBVIOUS
<1>3. CASE TextOpen(w)
  <2>1. TextDelta(i - 1, text) \in Event /\ BlockStop(i - 1) \in Event
    BY <1>1, <1>3, EventTypes
  <2> QED BY <1>2, <1>3, <2>1, Singles DEF ContinueText, CloseText
<1>4. CASE ~TextOpen(w)
  <2>1. BlockStart(i, "text") \in Event /\ TextDelta(i, text) \in Event
    BY <1>1, EventTypes
  <2>2. <<BlockStart(i, "text"), TextDelta(i, text)>> \in Seq(Event)
    BY <2>1, Singles
  <2> QED BY <1>2, <1>4, <2>2 DEF ContinueText, CloseText
<1> QED BY <1>3, <1>4

LEMMA ToolUsesType ==
  ASSUME NEW i \in Nat, NEW calls \in Seq(Call)
  PROVE  ToolUses(i, calls) \in Seq(Event)
<1>1. Between(BlockStop(i - 1)) /\ NextAfter(BlockStop(i - 1)) = i
  BY Types DEF Between, NextAfter
<1> QED BY <1>1, ToolUsesCarry DEF Carries

LEMMA FinishType ==
  ASSUME NEW w \in Seq(Event), NEW reply \in [text : Text, calls : Seq(Call)]
  PROVE  Finish(w, reply) \in Seq(Event) /\ Fail(w) \in Seq(Event)
<1> DEFINE text == Rest(TextOf(w), reply.text)
           rest == ContinueText(w, text)
           close == CloseText(w \o rest)
           v == w \o (rest \o close)
           uses == ToolUses(NextIndex(v), reply.calls)
           z == <<Total, Stop>>
<1>1. text \in Text
  <2>1. w \in Seq(Item)
    BY DEF Item
  <2> QED BY <2>1, TextAppend, RestType
<1>2. Finish(w, reply) = ((rest \o close) \o uses) \o z
  <2>1. rest = IF IsPrefix(TextOf(w), reply.text)
               THEN ContinueText(w, SubSeq(reply.text, Len(TextOf(w)) + 1, Len(reply.text)))
               ELSE <<>>
    BY DEF Rest, ContinueText
  <2> QED BY <2>1, Zenon DEF Finish, ClosedAfter
<1> HIDE DEF text
<1>3. rest \in Seq(Event)
  BY <1>1, TextEventsType
<1> HIDE DEF rest
<1>4. close \in Seq(Event)
  BY <1>1, <1>3, ConcatProperties, TextEventsType
<1> HIDE DEF close
<1>5. v \in Seq(Event)
  BY <1>3, <1>4, ConcatProperties
<1> HIDE DEF v
<1>6. uses \in Seq(Event)
  BY <1>5, NextIndexType, ToolUsesType
<1> HIDE DEF uses
<1>7. z \in Seq(Event) /\ <<Error>> \in Seq(Event)
  BY EventTypes, Singles
<1>8. Fail(w) \in Seq(Event)
  BY <1>1, <1>7, ConcatProperties, TextEventsType DEF Fail
<1> HIDE DEF z
<1>9. ((rest \o close) \o uses) \o z \in Seq(Event)
  BY <1>3, <1>4, <1>6, <1>7, ConcatProperties
<1> QED BY <1>2, <1>8, <1>9 DEF rest, close, v, uses, z

LEMMA StreamedType ==
  ASSUME wire \in Seq(Event), NEW c, c.committed \in BOOLEAN, c.thought \in BOOLEAN,
         NEW text, Flushed(text, Len(TextOf(wire))) \in Text
  PROVE  Streamed(c, text) \in Seq(Event)
<1> DEFINE s == IF c.committed THEN <<>> ELSE <<Start>> \o Preface(c.thought)
           t == ContinueText(wire \o s, Flushed(text, Len(TextOf(wire))))
<1>1. Streamed(c, text) = s \o t
  BY Zenon DEF Streamed, Flushed, Preface
<1>2. s \in Seq(Event)
  BY PrefaceCarries, Singles, EventTypes DEF Carries
<1> HIDE DEF s
<1>3. t \in Seq(Event)
  BY <1>2, ConcatProperties, TextEventsType
<1> QED BY <1>1, <1>2, <1>3, ConcatProperties

-----------------------------------------------------------------------------
(* The gate. *)

LEMMA Least ==
  ASSUME NEW n \in Nat, NEW T \in SUBSET Int, T # {}, \A x \in T : x + n \in Nat
  PROVE  Min(T) \in T /\ \A x \in T : Min(T) <= x
<1> DEFINE R == OpToRel(<, Nat)
           U == {x + n : x \in T}
<1>1. IsWellFoundedOn(R, Nat)
  BY NatLessThanWellFounded
<1>2. ASSUME NEW x \in Nat, NEW y \in Nat, x < y PROVE <<x, y>> \in R
  BY <1>2 DEF OpToRel
<1> HIDE DEF R
<1>3. U \in SUBSET Nat /\ U # {}
  OBVIOUS
<1>4. PICK x \in U : \A y \in U : <<y, x>> \notin R
  <2> HIDE DEF U
  <2> QED BY <1>1, <1>3, WFMin
<1>5. PICK z \in T : x = z + n
  OBVIOUS
<1>6. ASSUME NEW y \in T PROVE z <= y
  <2>1. y + n \in U /\ y + n \in Nat /\ z + n \in Nat
    OBVIOUS
  <2>2. ~(y + n < z + n)
    BY <1>2, <1>4, <1>5, <2>1
  <2> QED BY <2>1, <2>2
<1> QED BY <1>5, <1>6 DEF Min

LEMMA WordlessTailBound ==
  ASSUME NEW text \in Text
  PROVE  WordlessTail(text) \in 0 .. Len(text)
<1> DEFINE words == {k \in DOMAIN text : text[k] # "n"}
<1>1. Len(text) \in Nat /\ words \in SUBSET (1 .. Len(text))
  BY DEF Text
<1>2. WordlessTail(text) = IF words = {} THEN 0 ELSE Max(words)
  BY DEF WordlessTail
<1> HIDE DEF words
<1>3. words # {} => Max(words) \in 1 .. Len(text)
  <2>1. words # {} => Max(words) \in words
    BY <1>1, Greatest
  <2> QED BY <1>1, <2>1
<1>4. 0 \in 0 .. Len(text) /\ 1 .. Len(text) \subseteq 0 .. Len(text)
  BY <1>1
<1> QED BY <1>2, <1>3, <1>4

\* What is flushed ends before the last word, the hold-back and the first marker.
LEMMA FlushBound ==
  ASSUME NEW text \in Text
  PROVE  /\ FlushEnd(text) \in Int /\ FlushEnd(text) <= WordlessTail(text)
         /\ FlushEnd(text) <= Len(text) - HoldBack /\ FlushEnd(text) <= Len(text)
         /\ \A k \in MarkersIn(text) : FlushEnd(text) < k
<1> DEFINE T == {Len(text) - HoldBack, WordlessTail(text)} \cup {k - 1 : k \in MarkersIn(text)}
<1>1. Len(text) \in Nat /\ HoldBack \in Nat /\ WordlessTail(text) \in 0 .. Len(text)
  BY WordlessTailBound, StreamsAssumption DEF Text
<1>2. \A k \in MarkersIn(text) : k \in Nat /\ k >= 1
  BY <1>1 DEF MarkersIn
<1>3. T \in SUBSET Int /\ \A x \in T : x + HoldBack \in Nat
  BY <1>1, <1>2
<1>4. /\ T # {} /\ Len(text) - HoldBack \in T /\ WordlessTail(text) \in T
      /\ \A k \in MarkersIn(text) : k - 1 \in T
  OBVIOUS
<1>5. FlushEnd(text) = Min(T)
  BY DEF FlushEnd
<1> HIDE DEF T
<1>6. Min(T) \in T /\ \A x \in T : Min(T) <= x
  BY <1>1, <1>3, <1>4, Least
<1>7. FlushEnd(text) \in Int /\ \A x \in T : FlushEnd(text) <= x
  BY <1>3, <1>5, <1>6
<1> QED BY <1>1, <1>2, <1>4, <1>7

LEMMA FlushedType ==
  ASSUME NEW text \in Text, NEW sent \in Nat
  PROVE  Flushed(text, sent) \in Text
<1>1. FlushEnd(text) \in Int /\ FlushEnd(text) <= Len(text) /\ text \in Seq(Tokens \cup {"w"})
  BY FlushBound DEF Text
<1>2. <<>> \in Text
  BY DEF Text
<1>3. \A i \in sent + 1 .. FlushEnd(text) : i \in 1 .. Len(text)
  BY <1>1
<1>4. \A i \in sent + 1 .. FlushEnd(text) : text[i] \in Tokens \cup {"w"}
  BY <1>1, <1>3
<1>5. SubSeq(text, sent + 1, FlushEnd(text)) \in Text
  BY <1>1, <1>4, SubSeqProperties DEF Text
<1> QED BY <1>2, <1>5 DEF Flushed

-----------------------------------------------------------------------------
(* Types. *)

LEMMA Elements ==
  ASSUME NEW S, NEW s \in Seq(S)
  PROVE  /\ Len(s) \in Nat /\ DOMAIN s = 1 .. Len(s) /\ <<>> \in Seq(S)
         /\ \A k \in DOMAIN s : k \in 1 .. Len(s) /\ s[k] \in S
OBVIOUS

\* What is made of a sequence, element by element.
LEMMA Mapped ==
  ASSUME NEW S, NEW T, NEW s \in Seq(S), NEW f, f = [k \in DOMAIN s |-> f[k]],
         \A k \in DOMAIN s : f[k] \in T
  PROVE  f \in Seq(T) /\ Len(f) = Len(s)
<1>1. DOMAIN s = 1 .. Len(s) /\ Len(s) \in Nat
  BY Elements
<1> QED BY <1>1

LEMMA ChunkTypes ==
  /\ ThinkingEvent \in Chunk
  /\ \A text \in Text : TextEvent(text) \in Chunk
  /\ \A call \in Call : CallEvent(call) \in Chunk
BY DEF Chunk, TextEvent, CallEvent

LEMMA TextTypes ==
  /\ Replies \subseteq Text /\ PreviousTurns \subseteq Text
  /\ \A t \in Tokens \cup {"w"} : <<t>> \in Text
  /\ <<>> \in Text
<1>1. Seq(Tokens) \subseteq Text
  BY DEF Text
<1>2. \A t \in Tokens \cup {"w"} : <<t>> \in Text
  BY Singles DEF Text
<1>3. <<>> \in Text
  BY DEF Text
<1> QED BY <1>1, <1>2, <1>3, StreamsAssumption

LEMMA WholeReplyTypes ==
  ASSUME NEW reply \in WholeReplies
  PROVE  /\ reply.text \in Replies /\ reply.text \in Text /\ reply.thought \in BOOLEAN
         /\ reply.calls \in Seq(Call)
         /\ \E n \in 0 .. 1 : reply.calls = [i \in 1 .. n |-> <<i>>]
<1>1. PICK text \in Replies, thinks \in BOOLEAN, n \in 0 .. 1 : reply = WholeReply(text, thinks, n)
  BY DEF WholeReplies
<1>2. reply.text = text /\ reply.thought = thinks /\ reply.calls = [i \in 1 .. n |-> <<i>>]
  BY <1>1 DEF WholeReply
<1>3. \A i \in 1 .. n : <<i>> \in Call
  BY DEF Call
<1>4. [i \in 1 .. n |-> <<i>>] \in Seq(Call)
  BY <1>3
<1> QED BY <1>2, <1>4, TextTypes

LEMMA AssembledType ==
  ASSUME NEW calls \in Seq([index : Indices, parts : Call])
  PROVE  Assembled(calls) \in Seq(Chunk)
<1> DEFINE C == [index : Indices, parts : Call]
<1>1. \A k \in DOMAIN calls : calls[k].parts \in Call
  <2>1. \A c \in C : c.parts \in Call
    OBVIOUS
  <2>2. calls \in Seq(C)
    OBVIOUS
  <2> HIDE DEF C
  <2> QED BY <2>1, <2>2, Elements
<1>2. \A k \in DOMAIN calls : CallEvent(calls[k].parts) \in Chunk
  BY <1>1, ChunkTypes
<1> QED BY <1>2, Mapped DEF Assembled

LEMMA WithFragmentType ==
  ASSUME NEW calls \in Seq([index : Indices, parts : Call]), NEW i \in Indices, NEW part \in Nat
  PROVE  WithFragment(calls, i, part) \in Seq([index : Indices, parts : Call])
<1> DEFINE C == [index : Indices, parts : Call]
<1>1. \A c \in Call : Append(c, part) \in Call
  BY AppendProperties DEF Call
<1>2. \A c \in C : [c EXCEPT !.parts = Append(@, part)] \in C
  BY <1>1
<1>3. [index |-> i, parts |-> <<part>>] \in C
  BY DEF Call
<1> HIDE DEF C
<1>4. CASE \E k \in DOMAIN calls : calls[k].index = i
  <2> DEFINE d == [k \in DOMAIN calls |->
         IF calls[k].index = i THEN [calls[k] EXCEPT !.parts = Append(@, part)] ELSE calls[k]]
  <2>1. WithFragment(calls, i, part) = d
    BY <1>4 DEF WithFragment
  <2>2. calls \in Seq(C)
    BY DEF C
  <2>3. \A k \in DOMAIN calls :
          (IF calls[k].index = i THEN [calls[k] EXCEPT !.parts = Append(@, part)] ELSE calls[k]) \in C
    BY <1>2, <2>2, Elements
  <2>4. d \in Seq(C)
    BY <2>2, <2>3, Mapped
  <2> QED BY <2>1, <2>4 DEF C
<1>5. CASE ~\E k \in DOMAIN calls : calls[k].index = i
  <2>1. WithFragment(calls, i, part) = Append(calls, [index |-> i, parts |-> <<part>>])
    BY <1>5 DEF WithFragment
  <2> QED BY <1>3, <2>1, AppendProperties DEF C
<1> QED BY <1>4, <1>5

LEMMA InitTypes == Init => TypeOK
<1> SUFFICES ASSUME Init PROVE TypeOK
  OBVIOUS
<1>1. reader \in Reader
  BY StreamsAssumption DEF Init, Reader, Text
<1>2. cons \in Consumer
  BY DEF Init, Consumer, Text
<1>3. \A S : <<>> \in Seq(S)
  OBVIOUS
<1> QED BY <1>1, <1>2, <1>3 DEF Init, TypeOK

LEMMA ReaderTypes ==
  ASSUME TypeOK, ReaderStep
  PROVE  TypeOK'
<1> USE DEF TypeOK
<1>1. reader \in Reader /\ queue \in Seq(Chunk)
  OBVIOUS
<1>2. reader.text \in Text /\ reader.frags \in Seq(Indices \cup Nat) /\ reader.pending \in Seq(Chunk)
  BY DEF Reader
<1>3. <<>> \in Seq(Chunk)
  OBVIOUS
<1>4. CASE Refuse
  BY <1>4 DEF Refuse, Ends, Reader
<1>5. CASE Open
  BY <1>5 DEF Open, Reader
<1>6. ASSUME NEW reply \in WholeReplies PROVE Read(reply) \in Reader
  <2>1. \A i \in DOMAIN reply.calls : i \in Indices \cup Nat
    <3>1. reply.calls \in Seq(Call)
      BY WholeReplyTypes
    <3>2. DOMAIN reply.calls = 1 .. Len(reply.calls)
      BY <3>1, Elements
    <3> QED BY <3>2
  <2>2. [i \in DOMAIN reply.calls |-> i] \in Seq(Indices \cup Nat)
    <3>1. reply.calls \in Seq(Call)
      BY WholeReplyTypes
    <3> QED BY <2>1, <3>1, Mapped
  <2> QED BY <2>2, WholeReplyTypes DEF Read, Ends, Reader
<1>7. CASE OpenWhole
  <2>1. PICK reply \in WholeReplies :
          /\ queue' = (IF reply.thought THEN <<ThinkingEvent>> ELSE <<>>)
                      \o (IF reply.text # <<>> THEN <<TextEvent(reply.text)>> ELSE <<>>)
                      \o [i \in DOMAIN reply.calls |-> CallEvent(reply.calls[i])]
          /\ reader' = Read(reply)
    BY <1>7 DEF OpenWhole
  <2>2. \A i \in DOMAIN reply.calls : CallEvent(reply.calls[i]) \in Chunk
    BY WholeReplyTypes, ChunkTypes, Elements
  <2>3. [i \in DOMAIN reply.calls |-> CallEvent(reply.calls[i])] \in Seq(Chunk)
    BY <2>2, WholeReplyTypes, Mapped
  <2>4. /\ (IF reply.thought THEN <<ThinkingEvent>> ELSE <<>>) \in Seq(Chunk)
        /\ (IF reply.text # <<>> THEN <<TextEvent(reply.text)>> ELSE <<>>) \in Seq(Chunk)
    BY WholeReplyTypes, ChunkTypes, Singles
  <2>5. queue' \in Seq(Chunk)
    BY <2>1, <2>3, <2>4, ConcatProperties
  <2> QED BY <1>6, <1>7, <2>1, <2>5 DEF OpenWhole
<1>15. ASSUME reader.heard < MaxChunks
       PROVE  /\ Heard(reader) \in Reader /\ Heard(reader).text = reader.text
              /\ Heard(reader).calls = reader.calls /\ Heard(reader).frags = reader.frags
  <2>1. reader.heard + 1 \in 0 .. MaxChunks
    BY <1>1, <1>15, StreamsAssumption DEF Reader
  <2> QED BY <1>1, <2>1 DEF Heard, Reader
<1>8. CASE ReadDelta
  <2>1. Heard(reader) \in Reader
    BY <1>8, <1>15 DEF ReadDelta
  <2>2. ASSUME NEW t \in Tokens PROVE Append(reader.text, t) \in Text /\ <<TextEvent(<<t>>)>> \in Seq(Chunk)
    <3>1. <<t>> \in Text
      BY TextTypes
    <3> QED BY <1>2, <3>1, ChunkTypes, Singles, AppendProperties DEF Text
  <2>3. <<ThinkingEvent>> \in Seq(Chunk)
    BY ChunkTypes, Singles
  <2>4. Heard(reader).text = reader.text
    BY <1>8, <1>15 DEF ReadDelta
  <2>5. ASSUME NEW t \in Tokens
        PROVE  [Heard(reader) EXCEPT !.pending = <<TextEvent(<<t>>)>>, !.text = Append(@, t)] \in Reader
    BY <2>1, <2>2, <2>4 DEF Reader
  <2>6. [Heard(reader) EXCEPT !.pending = <<ThinkingEvent>>] \in Reader
    BY <2>1, <2>3 DEF Reader
  <2> QED BY <1>8, <2>5, <2>6 DEF ReadDelta
<1>9. CASE ReadFragment
  <2>1. Heard(reader) \in Reader /\ Heard(reader).calls = reader.calls /\ Heard(reader).frags = reader.frags
    BY <1>9, <1>15 DEF ReadFragment
  <2>2. PICK i \in Indices : reader' = [Heard(reader) EXCEPT
            !.calls = WithFragment(@, i, Len(reader.frags) + 1), !.frags = Append(@, i)]
    BY <1>9 DEF ReadFragment
  <2>3. Append(reader.frags, i) \in Seq(Indices \cup Nat) /\ Len(reader.frags) + 1 \in Nat
    BY <1>2, AppendProperties
  <2>4. WithFragment(reader.calls, i, Len(reader.frags) + 1) \in Seq([index : Indices, parts : Call])
    BY <1>1, <2>3, WithFragmentType DEF Reader
  <2>5. reader' \in Reader
    BY <2>1, <2>2, <2>3, <2>4 DEF Reader
  <2> QED BY <1>9, <2>5 DEF ReadFragment
<1>10. Assembled(reader.calls) \in Seq(Chunk)
  BY <1>1, AssembledType DEF Reader
<1>11. CASE ReadBlockStop
  <2>1. reader' = [reader EXCEPT !.calls = <<>>, !.pending = Assembled(reader.calls)]
    BY <1>11 DEF ReadBlockStop
  <2>2. <<>> \in Seq([index : Indices, parts : Call])
    OBVIOUS
  <2>3. reader' \in Reader
    BY <1>1, <1>10, <2>1, <2>2 DEF Reader
  <2> QED BY <1>11, <2>3 DEF ReadBlockStop
<1>12. CASE ReadEnd
  <2>1. reader' \in Reader
    <3>1. PICK stopped \in BOOLEAN :
            LET events == IF protocol = "openai" THEN Assembled(reader.calls) ELSE <<>>
            IN  reader' = [reader EXCEPT
                  !.pending = events, !.last = TRUE, !.whole = stopped \/ protocol = "openai",
                  !.pc = IF events = <<>> THEN "ended" ELSE @]
      BY <1>12 DEF ReadEnd
    <3> DEFINE events == IF protocol = "openai" THEN Assembled(reader.calls) ELSE <<>>
               whole == stopped \/ protocol = "openai"
               pc == IF events = <<>> THEN "ended" ELSE reader.pc
    <3>2. events \in Seq(Chunk) /\ whole \in BOOLEAN
      BY <1>10
    <3>3. pc \in {"opening", "reading", "ended"}
      BY <1>1 DEF Reader
    <3>4. reader' = [reader EXCEPT !.pending = events, !.last = TRUE, !.whole = whole, !.pc = pc]
      BY <3>1
    <3> HIDE DEF events, whole, pc
    <3> QED BY <1>1, <3>2, <3>3, <3>4 DEF Reader
  <2> QED BY <1>12, <2>1 DEF ReadEnd
<1>13. CASE ReadError
  BY <1>13 DEF ReadError, Ends, Reader
<1>14. CASE Send
  <2>1. reader.pending # <<>>
    BY <1>14 DEF Send
  <2>2. Head(reader.pending) \in Chunk /\ Tail(reader.pending) \in Seq(Chunk)
    BY <1>2, <2>1, HeadTailProperties
  <2>3. reader' \in Reader
    BY <1>1, <1>3, <1>14, <2>2 DEF Send, Ends, Reader
  <2>4. queue' \in Seq(Chunk)
    <3>1. Append(queue, Head(reader.pending)) \in Seq(Chunk)
      BY <1>1, <2>2, AppendProperties
    <3> QED BY <1>1, <1>14, <3>1 DEF Send
  <2> QED BY <1>14, <2>3, <2>4 DEF Send
<1> QED BY <1>4, <1>5, <1>7, <1>8, <1>9, <1>11, <1>12, <1>13, <1>14 DEF ReaderStep

LEMMA TranslationTypes ==
  ASSUME NEW text \in Text, NEW calls \in Seq(Call)
  PROVE  Translations(text, calls) \subseteq [text : Text, calls : Seq(Call)]
<1> DEFINE T == Tokens \cup {"w"}
<1>1. ASSUME NEW x \in Text PROVE Prose(x) \in Text /\ Shown(x) \in Text
  <2> DEFINE f == [k \in DOMAIN x |->
               IF k \in MarkersIn(x) \/ k - 1 \in MarkersIn(x) THEN <<>> ELSE <<x[k]>>]
             g == [k \in DOMAIN x |-> IF x[k] = "u" THEN <<>> ELSE <<x[k]>>]
  <2>1. x \in Seq(T)
    BY DEF Text
  <2>2. \A t \in T : <<t>> \in Seq(T) /\ <<>> \in Seq(T)
    OBVIOUS
  <2> HIDE DEF T
  <2>3. \A k \in DOMAIN x : f[k] \in Seq(T) /\ g[k] \in Seq(T)
    BY <2>1, <2>2, Elements
  <2>4. f = [k \in DOMAIN x |-> f[k]] /\ g = [k \in DOMAIN x |-> g[k]]
    OBVIOUS
  <2>5. Prose(x) = FlattenSeq(f) /\ Shown(x) = FlattenSeq(g)
    BY DEF Prose, Shown
  <2> HIDE DEF f, g
  <2>6. f \in Seq(Seq(T)) /\ g \in Seq(Seq(T))
    BY <2>1, <2>3, <2>4, Mapped
  <2> QED BY <2>5, <2>6, FlattenAppend DEF Text, T
<1>2. Shown(text) \in Text /\ Prose(Shown(text)) \in Text
  BY <1>1
<1>3. <<<<0>>>> \in Seq(Call)
  BY DEF Call
<1> DEFINE shown == Shown(text)
           R == [text : Text, calls : Seq(Call)]
<1>4. /\ [text |-> shown, calls |-> calls] \in R /\ [text |-> Prose(shown), calls |-> calls] \in R
      /\ [text |-> Prose(shown), calls |-> <<<<0>>>>] \in R
  BY <1>2, <1>3
<1> HIDE DEF R
<1>5. Translations(text, calls) \subseteq R
  BY <1>4 DEF Translations
<1> QED BY <1>5 DEF R

LEMMA AddsType ==
  ASSUME TypeOK, NEW delta \in Text
  PROVE  Adds(cons, delta) \in Consumer
<1> DEFINE text == cons.text \o delta
<1>1. cons \in Consumer /\ wire \in Seq(Event)
  BY DEF TypeOK
<1>2. /\ cons.text \in Text /\ cons.committed \in BOOLEAN /\ cons.thought \in BOOLEAN
      /\ <<>> \in Seq(Event)
  BY <1>1 DEF Consumer
<1>3. text \in Text
  BY <1>2, ConcatProperties DEF Text
<1>4. Len(TextOf(wire)) \in Nat
  <2>1. wire \in Seq(Item)
    BY <1>1 DEF Item
  <2> QED BY <2>1, TextAppend DEF Text
<1> HIDE DEF text
<1>5. Streamed(cons, text) \in Seq(Event)
  BY <1>1, <1>2, <1>3, <1>4, FlushedType, StreamedType
<1>6. Commits(cons, text) \in BOOLEAN
  BY <1>2 DEF Commits, shouldCommit
<1>7. Adds(cons, delta) =
        [cons EXCEPT !.text = text, !.committed = Commits(cons, text),
                     !.out = IF Commits(cons, text) THEN Streamed(cons, text) ELSE <<>>]
  BY DEF Adds, text
<1> QED BY <1>1, <1>2, <1>3, <1>5, <1>6, <1>7 DEF Consumer

LEMMA ChunkFields ==
  ASSUME NEW e \in Chunk
  PROVE  /\ e.type \in {"thinking_delta", "tool_call", "text_delta"}
         /\ e.type = "text_delta" => e.text \in Text
         /\ e.type = "tool_call" => e.call \in Call
         /\ e.type # "text_delta" => TextPiece(e) = <<>>
         /\ e.type = "text_delta" => TextPiece(e) = e.text
         /\ e.type # "tool_call" => CallPiece(e) = <<>>
         /\ e.type = "tool_call" => CallPiece(e) = <<e.call>>
BY DEF Chunk, ThinkingEvent, TextPiece, CallPiece

LEMMA ConsumerTypes ==
  ASSUME TypeOK, ConsumerStep
  PROVE  TypeOK'
<1> USE DEF TypeOK
<1>1. /\ cons \in Consumer /\ reader \in Reader /\ queue \in Seq(Chunk) /\ wire \in Seq(Event)
      /\ errq \in BOOLEAN
  OBVIOUS
<1>2. /\ cons.text \in Text /\ cons.calls \in Seq(Call) /\ cons.out \in Seq(Event)
      /\ cons.thought \in BOOLEAN /\ cons.committed \in BOOLEAN
      /\ cons.final \in [text : Text, calls : Seq(Call)] /\ <<>> \in Seq(Event)
  BY DEF Consumer
<1>3. \A result \in {"ok", "noise", "error"} : Returns(result) \in Consumer
  BY DEF Returns, Consumer
<1>4. /\ queue # <<>> => Head(queue) \in Chunk /\ Tail(queue) \in Seq(Chunk)
      /\ cons.out # <<>> => Head(cons.out) \in Event /\ Tail(cons.out) \in Seq(Event)
  BY <1>1, <1>2, HeadTailProperties
<1>5. CASE SendChat
  <2>1. PICK reply \in WholeReplies :
          /\ reader' = Read(reply)
          /\ cons' = [Returns("ok") EXCEPT !.text = reply.text, !.thought = reply.thought,
                                           !.calls = reply.calls]
    BY <1>5 DEF SendChat
  <2>2. cons' \in Consumer
    BY <1>3, <2>1, WholeReplyTypes DEF Consumer
  <2>3. [i \in DOMAIN reply.calls |-> i] \in Seq(Indices \cup Nat)
    <3>1. reply.calls \in Seq(Call)
      BY WholeReplyTypes
    <3>2. \A i \in DOMAIN reply.calls : i \in Indices \cup Nat
      BY <3>1, Elements
    <3> QED BY <3>1, <3>2, Mapped
  <2>4. reader' \in Reader
    BY <1>1, <2>1, <2>3, WholeReplyTypes DEF Read, Ends, Reader
  <2> QED BY <1>5, <2>2, <2>4 DEF SendChat
<1>6. CASE Opened
  <2>1. cons' \in Consumer
    BY <1>1, <1>3, <1>6 DEF Opened, Consumer
  <2> QED BY <1>6, <2>1 DEF Opened
<1>7. ASSUME NEW text \in Text
      PROVE  /\ cons.text \o text \in Text
             /\ [Returns("noise") EXCEPT !.text = SubSeq(cons.text \o text, 1, WordlessTail(cons.text \o text))]
                  \in Consumer
             /\ [Returns("error") EXCEPT !.text = @ \o text] \in Consumer
  <2> DEFINE t == cons.text \o text
             n == WordlessTail(t)
  <2>1. t \in Text
    BY <1>2, ConcatProperties DEF Text
  <2> HIDE DEF t
  <2>2. n \in 0 .. Len(t) /\ Len(t) \in Nat /\ t \in Seq(Tokens \cup {"w"})
    BY <2>1, WordlessTailBound DEF Text
  <2> HIDE DEF n
  <2>3. SubSeq(t, 1, n) \in Text
    BY <2>2, SubSeqProperties DEF Text
  <2>4. Returns("error").text = cons.text
    BY <1>1 DEF Returns, Consumer
  <2> QED BY <1>3, <2>1, <2>3, <2>4 DEF t, n, Consumer
<1>8. CASE TakeEvent
  <2> DEFINE e == Head(queue)
  <2>1. e \in Chunk /\ Tail(queue) \in Seq(Chunk)
    BY <1>4, <1>8 DEF TakeEvent
  <2>2. cons' = CASE e.type = "thinking_delta" -> [cons EXCEPT !.thought = @ \/ ~cons.committed]
                  [] e.type = "tool_call" -> [cons EXCEPT !.calls = Append(@, e.call)]
                  [] e.type = "text_delta" ->
                       IF Degenerate(cons.text \o e.text)
                       THEN [Returns("noise") EXCEPT
                              !.text = SubSeq(cons.text \o e.text, 1, WordlessTail(cons.text \o e.text))]
                       ELSE Adds(cons, e.text)
    BY <1>8 DEF TakeEvent
  <2> HIDE DEF e
  <2>3. CASE e.type = "thinking_delta"
    BY <1>1, <1>2, <1>8, <2>1, <2>2, <2>3 DEF TakeEvent, Consumer
  <2>4. CASE e.type = "tool_call"
    <3>1. Append(cons.calls, e.call) \in Seq(Call)
      BY <1>2, <2>1, <2>4, ChunkFields, AppendProperties
    <3>2. cons' = [cons EXCEPT !.calls = Append(@, e.call)]
      BY <2>2, <2>4
    <3>3. cons' \in Consumer
      BY <1>1, <3>1, <3>2 DEF Consumer
    <3> QED BY <1>8, <2>1, <3>3 DEF TakeEvent
  <2>5. CASE e.type = "text_delta"
    <3>1. e.text \in Text
      BY <2>1, <2>5, ChunkFields
    <3>2. Adds(cons, e.text) \in Consumer
      BY <3>1, AddsType
    <3>3. cons' \in Consumer
      BY <1>7, <2>2, <2>5, <3>1, <3>2
    <3> QED BY <1>8, <2>1, <3>3 DEF TakeEvent
  <2> QED BY <2>1, <2>3, <2>4, <2>5, ChunkFields
<1>9. ASSUME NEW events \in BOOLEAN, NEW errs \in BOOLEAN, SeesClosed(events, errs)
      PROVE  cons' \in Consumer
  <2>1. \A c \in Consumer : [c EXCEPT !.events = events, !.errs = errs] \in Consumer
    BY DEF Consumer
  <2> QED BY <1>1, <1>3, <1>9, <2>1 DEF SeesClosed
<1>21. cons.events \in BOOLEAN /\ cons.errs \in BOOLEAN
  BY <1>1 DEF Consumer
<1>10. CASE EventsClosed
  BY <1>9, <1>10, <1>21 DEF EventsClosed
<1>11. CASE ErrsClosed
  BY <1>9, <1>11, <1>21 DEF ErrsClosed
<1>12. CASE TakeError
  <2>1. cons' \in Consumer
    BY <1>1, <1>3, <1>12 DEF TakeError, Consumer
  <2> QED BY <1>12, <2>1 DEF TakeError
<1>13. CASE Drain
  <2>1. CASE queue # <<>>
    <3> DEFINE e == Head(queue)
    <3>1. e \in Chunk /\ Tail(queue) \in Seq(Chunk)
      BY <1>4, <2>1
    <3>2. cons' = IF e.type # "text_delta" THEN cons
                  ELSE IF Degenerate(cons.text \o e.text)
                  THEN [Returns("error") EXCEPT !.text = @ \o e.text]
                  ELSE Adds(cons, e.text)
      BY <1>13, <2>1 DEF Drain
    <3> HIDE DEF e
    <3>3. CASE e.type = "text_delta"
      <4>1. e.text \in Text
        BY <3>1, <3>3, ChunkFields
      <4> QED BY <1>7, <1>13, <2>1, <3>1, <3>2, <3>3, <4>1, AddsType DEF Drain
    <3>4. CASE e.type # "text_delta"
      BY <1>13, <2>1, <3>1, <3>2, <3>4 DEF Drain
    <3> QED BY <3>3, <3>4
  <2>2. CASE queue = <<>>
    BY <1>3, <1>13, <2>2 DEF Drain
  <2> QED BY <2>1, <2>2
<1>14. CASE IdleTimeout
  BY <1>3, <1>14 DEF IdleTimeout
<1>15. CASE ContextDone
  BY <1>3, <1>15 DEF ContextDone
<1>16. CASE Write
  <2>1. cons' \in Consumer
    BY <1>1, <1>4, <1>16 DEF Write, Consumer
  <2>2. wire' \in Seq(Event)
    BY <1>1, <1>4, <1>16, AppendProperties DEF Write
  <2> QED BY <1>16, <2>1, <2>2 DEF Write
<1>17. CASE WriteFails
  <2>1. cons' = [(IF cons.pc = "done" THEN cons ELSE Returns("error")) EXCEPT !.out = <<>>]
    BY <1>17 DEF WriteFails
  <2>2. cons' \in Consumer
    BY <1>1, <1>2, <1>3, <2>1 DEF Consumer
  <2> QED BY <1>17, <2>2 DEF WriteFails
<1>18. \A out \in Seq(Event), reply \in [text : Text, calls : Seq(Call)] :
         Concludes(out, reply) => cons' \in Consumer
  <2> SUFFICES ASSUME NEW out \in Seq(Event), NEW reply \in [text : Text, calls : Seq(Call)],
                      Concludes(out, reply)
               PROVE  cons' \in Consumer
    OBVIOUS
  <2>1. \A c \in Consumer : [c EXCEPT !.pc = "done", !.out = out, !.final = reply] \in Consumer
    BY DEF Consumer
  <2> QED BY <1>1, <2>1 DEF Concludes
<1>19. CASE Deliver
  <2>1. PICK tail \in {<<>>, <<"w">>} : \E reply \in Translations(cons.text \o tail, cons.calls) :
          Concludes(IF cons.committed THEN Finish(wire, reply) ELSE Replay(cons.thought, reply), reply)
    BY <1>19 DEF Deliver
  <2>2. PICK reply \in Translations(cons.text \o tail, cons.calls) :
          Concludes(IF cons.committed THEN Finish(wire, reply) ELSE Replay(cons.thought, reply), reply)
    BY <2>1
  <2>3. cons.text \o tail \in Text
    <3>1. tail \in Text
      BY TextTypes
    <3> QED BY <1>2, <3>1, ConcatProperties DEF Text
  <2>4. reply \in [text : Text, calls : Seq(Call)]
    BY <1>2, <2>3, TranslationTypes
  <2>5. Finish(wire, reply) \in Seq(Event) /\ Replay(cons.thought, reply) \in Seq(Event)
    BY <1>1, <1>2, <2>4, FinishType, ReplayCarries DEF Carries
  <2>6. cons' \in Consumer
    BY <1>18, <2>2, <2>4, <2>5
  <2> QED BY <1>19, <2>6 DEF Deliver
<1>20. CASE GiveUp
  <2>1. Fail(wire) \in Seq(Event)
    BY <1>1, <1>2, FinishType
  <2>2. cons' \in Consumer
    BY <1>2, <1>18, <1>20, <2>1 DEF GiveUp
  <2> QED BY <1>20, <2>2 DEF GiveUp
<1> QED
  BY <1>5, <1>6, <1>8, <1>10, <1>11, <1>12, <1>13, <1>14, <1>15, <1>16, <1>17, <1>19, <1>20
  DEF ConsumerStep

LEMMA StepTypes == TypeOK /\ [Next]_vars => TypeOK'
<1> SUFFICES ASSUME TypeOK, [Next]_vars PROVE TypeOK'
  OBVIOUS
<1>1. CASE Leave
  BY <1>1 DEF Leave, TypeOK
<1>2. CASE UNCHANGED vars
  BY <1>2 DEF vars, TypeOK
<1> QED BY <1>1, <1>2, ReaderTypes, ConsumerTypes DEF Next

\* Every variable keeps its type.
THEOREM TypeCorrect == Spec => []TypeOK
BY InitTypes, StepTypes, PTL DEF Spec

-----------------------------------------------------------------------------
(* The message, whatever the upstream sends and however the attempt ends. *)

LEMMA StopIsLast ==
  ASSUME NEW w \in Seq(Event), NEW s \in Seq(Event), LastOf(Nothing, w) = Stop, Leads(Nothing, w \o s)
  PROVE  s = <<>>
<1>1. Leads(Stop, s)
  BY LeadsConcat
<1>2. ASSUME s # <<>> PROVE FALSE
  <2>1. 1 \in DOMAIN s /\ s[1] \in Event
    BY <1>2, EmptySeq
  <2>2. Follows(Stop, s[1])
    BY <1>1, <2>1 DEF Leads
  <2>3. Stop # Nothing /\ Stop # Total /\ ~Between(Stop) /\ Stop.type \notin Deltas
    BY Types DEF Between, Deltas
  <2> QED BY <2>2, <2>3, Types DEF Follows, Deltas
<1> QED BY <1>2

LEMMA SentType ==
  ASSUME TypeOK
  PROVE  /\ wire \in Seq(Event) /\ cons.out \in Seq(Event) /\ Sent \in Seq(Event)
         /\ cons.out = <<>> => Sent = wire
         /\ cons.committed \in BOOLEAN /\ cons.thought \in BOOLEAN
         /\ cons.text \in Text /\ cons.calls \in Seq(Call)
<1>1. wire \in Seq(Event) /\ cons.out \in Seq(Event)
  BY DEF TypeOK, Consumer
<1>2. Sent \in Seq(Event) /\ (cons.out = <<>> => Sent = wire)
  BY <1>1, ConcatProperties, ConcatEmptySeq DEF Sent
<1> QED BY <1>1, <1>2 DEF TypeOK, Consumer

\* A step that writes and plans nothing, of an attempt that goes on.
LEMMA MessageRests ==
  ASSUME MessageOK, cons.pc # "done",
         cons'.out = cons.out, cons'.committed = cons.committed, UNCHANGED <<wire, gone>>
  PROVE  MessageOK'
BY DEF MessageOK, Sent

\* What the gate adds to the message.
LEMMA MessageGrows ==
  ASSUME TypeOK, MessageOK, cons.out = <<>>, cons.pc # "done", NEW delta \in Text,
         cons' = Adds(cons, delta), UNCHANGED <<wire, gone>>
  PROVE  MessageOK'
<1> DEFINE text == cons.text \o delta
           a == LastOf(Nothing, wire)
           s == Streamed(cons, text)
           n == Len(TextOf(wire))
<1>1. /\ wire \in Seq(Event) /\ Sent = wire /\ cons \in Consumer
      /\ cons.committed \in BOOLEAN /\ cons.thought \in BOOLEAN /\ cons.text \in Text
  BY SentType DEF TypeOK
<1>2. text \in Text /\ n \in Nat
  <2>1. wire \in Seq(Item)
    BY <1>1 DEF Item
  <2> QED BY <1>1, <2>1, ConcatProperties, TextAppend DEF Text
<1>3. /\ cons'.pc = cons.pc /\ cons'.committed = Commits(cons, text)
      /\ cons'.out = IF Commits(cons, text) THEN s ELSE <<>>
  BY <1>1 DEF Adds, Consumer
<1>4. Flushed(text, n) \in Text
  BY <1>2, FlushedType
<1> HIDE DEF text, n
<1>5. CASE Commits(cons, text)
  <2>1. CASE gone
    BY <1>3, <1>5, <2>1 DEF MessageOK
  <2>2. CASE ~gone
    <3>1. /\ Leads(Nothing, wire) /\ (~cons.committed => wire = <<>>)
          /\ (cons.committed => Resting(a))
      BY <1>1, <2>2 DEF MessageOK
    <3>2. Carries(a, s, Flushed(text, n), <<>>) /\ Resting(LastOf(a, s))
      BY <1>1, <1>4, <3>1, StreamedCarries DEF n
    <3>3. s \in Seq(Event) /\ Leads(a, s)
      BY <3>2 DEF Carries
    <3> HIDE DEF s
    <3>4. Leads(Nothing, wire \o s) /\ LastOf(Nothing, wire \o s) = LastOf(a, s)
      BY <1>1, <3>1, <3>3, Both
    <3>5. Sent' = wire \o s
      BY <1>3, <1>5 DEF Sent
    <3> QED BY <1>3, <1>5, <2>2, <3>2, <3>4, <3>5 DEF MessageOK
  <2> QED BY <2>1, <2>2
<1>6. CASE ~Commits(cons, text)
  <2>1. ~cons.committed /\ cons'.out = <<>>
    BY <1>3, <1>6 DEF Commits
  <2>2. Commits(cons, text) = FALSE
    BY <1>1, <1>6 DEF Commits, shouldCommit
  <2>3. cons'.committed = cons.committed /\ cons'.out = cons.out
    BY <1>1, <1>3, <2>1, <2>2
  <2> QED BY <2>3, MessageRests
<1> QED BY <1>5, <1>6

\* How the message ends.
LEMMA MessageEnds ==
  ASSUME TypeOK, MessageOK, cons.out = <<>>, cons.pc # "done", NEW out \in Seq(Event),
         NEW reply, Concludes(out, reply), UNCHANGED <<wire, gone>>,
         ~gone => Leads(LastOf(Nothing, wire), out)
  PROVE  MessageOK'
<1>1. cons' = [cons EXCEPT !.pc = "done", !.out = out, !.final = reply]
  BY DEF Concludes
<1>2. cons'.pc = "done" /\ cons'.out = out
  BY <1>1 DEF TypeOK, Consumer
<1>3. wire \in Seq(Event) /\ Sent = wire
  BY SentType
<1>4. ~gone => Leads(Nothing, wire)
  BY <1>3 DEF MessageOK
<1>5. ~gone => Leads(Nothing, wire \o out)
  BY <1>3, <1>4, Both
<1>6. Sent' = wire \o out
  BY <1>2 DEF Sent
<1> QED BY <1>2, <1>5, <1>6 DEF MessageOK

LEMMA InitMessage == Init => MessageOK
<1> SUFFICES ASSUME Init PROVE MessageOK
  OBVIOUS
<1>1. wire = <<>> /\ cons.out = <<>> /\ ~cons.committed /\ ~gone /\ Sent = <<>>
  BY DEF Init, Sent
<1>2. Leads(Nothing, <<>>)
  BY LeadsNowhere
<1> QED BY <1>1, <1>2 DEF MessageOK

\* A call of the sink sends what it was asked to.
LEMMA WriteSends ==
  ASSUME TypeOK, Write
  PROVE  Sent' = Sent
<1>1. wire \in Seq(Event) /\ cons.out \in Seq(Event)
  BY SentType
<1>2. /\ cons.out # <<>> /\ wire' = Append(wire, Head(cons.out)) /\ cons'.out = Tail(cons.out)
  BY DEF TypeOK, Consumer, Write
<1> DEFINE h == Head(cons.out)
           t == Tail(cons.out)
<1>3. h \in Event /\ t \in Seq(Event) /\ cons.out = <<h>> \o t
  BY <1>1, <1>2, HeadTailProperties, ConcatProperties
<1> HIDE DEF h, t
<1>4. Append(wire, h) \o t = wire \o (<<h>> \o t)
  <2>1. Append(wire, h) = wire \o <<h>> /\ <<h>> \in Seq(Event)
    BY <1>1, <1>3, AppendIsConcat, Singles
  <2> QED BY <1>1, <1>3, <2>1, ConcatAssociative
<1> QED BY <1>2, <1>3, <1>4 DEF Sent, h, t

LEMMA MessageConsumer ==
  ASSUME TypeOK, MessageOK, ConsumerStep
  PROVE  MessageOK'
<1>1. /\ cons \in Consumer /\ wire \in Seq(Event) /\ cons.out \in Seq(Event) /\ queue \in Seq(Chunk)
      /\ cons.text \in Text /\ cons.calls \in Seq(Call) /\ cons.thought \in BOOLEAN
  BY SentType DEF TypeOK
<1>2. \A result : /\ Returns(result).pc = "returned" /\ Returns(result).out = cons.out
                  /\ Returns(result).committed = cons.committed
  BY <1>1 DEF Returns, Consumer
<1>3. queue # <<>> => Head(queue) \in Chunk
  BY <1>1, HeadTailProperties
<1>4. CASE SendChat
  <2>1. cons'.out = cons.out /\ cons'.committed = cons.committed
    BY <1>1, <1>4 DEF SendChat, Returns, Consumer
  <2> QED BY <1>4, <2>1, MessageRests DEF SendChat, At
<1>5. CASE Opened
  <2>1. cons'.out = cons.out /\ cons'.committed = cons.committed
    BY <1>1, <1>5 DEF Opened, Returns, Consumer
  <2> QED BY <1>5, <2>1, MessageRests DEF Opened, At
<1>6. CASE TakeEvent
  <2> DEFINE e == Head(queue)
  <2>1. /\ e \in Chunk /\ cons.out = <<>> /\ cons.pc = "select" /\ UNCHANGED <<wire, gone>>
        /\ cons' = CASE e.type = "thinking_delta" -> [cons EXCEPT !.thought = @ \/ ~cons.committed]
                     [] e.type = "tool_call" -> [cons EXCEPT !.calls = Append(@, e.call)]
                     [] e.type = "text_delta" ->
                          IF Degenerate(cons.text \o e.text)
                          THEN [Returns("noise") EXCEPT
                                 !.text = SubSeq(cons.text \o e.text, 1, WordlessTail(cons.text \o e.text))]
                          ELSE Adds(cons, e.text)
    BY <1>3, <1>6 DEF TakeEvent, At
  <2> HIDE DEF e
  <2>2. CASE e.type = "text_delta" /\ ~Degenerate(cons.text \o e.text)
    BY <2>1, <2>2, ChunkFields, MessageGrows
  <2>3. CASE e.type = "text_delta" /\ Degenerate(cons.text \o e.text)
    <3>1. cons'.out = cons.out /\ cons'.committed = cons.committed
      BY <1>1, <2>1, <2>3 DEF Returns, Consumer
    <3> QED BY <2>1, <3>1, MessageRests
  <2>4. CASE e.type # "text_delta"
    <3>1. cons'.out = cons.out /\ cons'.committed = cons.committed
      BY <1>1, <2>1, <2>4, ChunkFields DEF Consumer
    <3> QED BY <2>1, <3>1, MessageRests
  <2> QED BY <2>2, <2>3, <2>4
<1>7. \A events, errs : SeesClosed(events, errs) =>
        cons'.out = cons.out /\ cons'.committed = cons.committed
  BY <1>1 DEF SeesClosed, Returns, Consumer
<1>8. CASE EventsClosed
  BY <1>7, <1>8, MessageRests DEF EventsClosed, At
<1>9. CASE ErrsClosed
  BY <1>7, <1>9, MessageRests DEF ErrsClosed, At
<1>10. CASE TakeError
  <2>1. cons'.out = cons.out /\ cons'.committed = cons.committed
    BY <1>1, <1>10 DEF TakeError, Returns, Consumer
  <2> QED BY <1>10, <2>1, MessageRests DEF TakeError, At
<1>11. CASE Drain
  <2> DEFINE e == Head(queue)
  <2>1. cons.out = <<>> /\ cons.pc = "drain" /\ UNCHANGED <<wire, gone>>
    BY <1>11 DEF Drain, At
  <2>2. CASE queue # <<>> /\ e.type = "text_delta" /\ ~Degenerate(cons.text \o e.text)
    <3>1. cons' = Adds(cons, e.text) /\ e \in Chunk
      BY <1>3, <1>11, <2>2 DEF Drain
    <3> QED BY <2>1, <2>2, <3>1, ChunkFields, MessageGrows
  <2>3. CASE ~(queue # <<>> /\ e.type = "text_delta" /\ ~Degenerate(cons.text \o e.text))
    <3>1. cons'.out = cons.out /\ cons'.committed = cons.committed
      BY <1>1, <1>11, <2>3 DEF Drain, Returns, Consumer
    <3> QED BY <2>1, <3>1, MessageRests
  <2> QED BY <2>2, <2>3
<1>12. CASE IdleTimeout
  BY <1>2, <1>12, MessageRests DEF IdleTimeout, At
<1>13. CASE ContextDone
  BY <1>2, <1>13, MessageRests DEF ContextDone, At
<1>14. CASE Write
  <2>1. /\ cons.out # <<>> /\ ~gone /\ UNCHANGED gone /\ wire' = Append(wire, Head(cons.out))
        /\ cons' = [cons EXCEPT !.out = Tail(@)]
    BY <1>14 DEF Write
  <2>2. /\ cons'.pc = cons.pc /\ cons'.committed = cons.committed /\ cons'.out = Tail(cons.out)
    BY <1>1, <2>1 DEF Consumer
  <2>3. Sent' = Sent
    BY <1>14, WriteSends
  <2> QED BY <2>1, <2>2, <2>3 DEF MessageOK
<1>15. CASE WriteFails
  <2>1. gone /\ cons.out # <<>> /\ UNCHANGED <<wire, gone>>
    BY <1>15 DEF WriteFails
  <2>2. (cons.pc = "done" => cons'.pc = "done") /\ cons'.committed = cons.committed
    BY <1>1, <1>15 DEF WriteFails, Returns, Consumer
  <2>3. Sent # <<>>
    BY <1>1, <2>1, ConcatProperties, EmptySeq DEF Sent
  <2> QED BY <2>1, <2>2, <2>3 DEF MessageOK
<1>16. ~gone /\ cons.committed /\ cons.pc # "done" /\ cons.out = <<>> =>
         Leads(Nothing, wire) /\ Resting(LastOf(Nothing, wire))
  BY SentType DEF MessageOK
<1>17. ~cons.committed /\ cons.pc # "done" /\ cons.out = <<>> => wire = <<>>
  BY SentType DEF MessageOK
<1>18. CASE Deliver
  <2>1. cons.pc = "returned" /\ cons.out = <<>> /\ UNCHANGED <<wire, gone>>
    BY <1>18 DEF Deliver, At
  <2>2. PICK tail \in {<<>>, <<"w">>} : \E reply \in Translations(cons.text \o tail, cons.calls) :
          Concludes(IF cons.committed THEN Finish(wire, reply) ELSE Replay(cons.thought, reply), reply)
    BY <1>18 DEF Deliver
  <2>3. PICK reply \in Translations(cons.text \o tail, cons.calls) :
          Concludes(IF cons.committed THEN Finish(wire, reply) ELSE Replay(cons.thought, reply), reply)
    BY <2>2
  <2>4. reply \in [text : Text, calls : Seq(Call)]
    <3>1. tail \in Text
      BY TextTypes
    <3>2. cons.text \o tail \in Text
      BY <1>1, <3>1, ConcatProperties DEF Text
    <3> QED BY <1>1, <3>2, TranslationTypes
  <2>5. CASE cons.committed
    <3>1. Finish(wire, reply) \in Seq(Event) /\ Concludes(Finish(wire, reply), reply)
      BY <1>1, <2>3, <2>4, <2>5, FinishType
    <3>2. ~gone => Leads(LastOf(Nothing, wire), Finish(wire, reply))
      BY <1>1, <1>16, <2>1, <2>4, <2>5, FinishCarries DEF Carries
    <3> QED BY <2>1, <3>1, <3>2, MessageEnds
  <2>6. CASE ~cons.committed
    <3>1. Replay(cons.thought, reply) \in Seq(Event) /\ Concludes(Replay(cons.thought, reply), reply)
      BY <1>1, <2>3, <2>4, <2>6, ReplayCarries DEF Carries
    <3>2. LastOf(Nothing, wire) = Nothing
      BY <1>17, <2>1, <2>6, LeadsNowhere
    <3>3. Leads(Nothing, Replay(cons.thought, reply))
      BY <1>1, <2>4, ReplayCarries DEF Carries
    <3> QED BY <2>1, <3>1, <3>2, <3>3, MessageEnds
  <2> QED BY <2>5, <2>6
<1>19. CASE GiveUp
  <2>1. /\ cons.pc = "returned" /\ cons.out = <<>> /\ UNCHANGED <<wire, gone>>
        /\ Concludes(IF cons.committed THEN Fail(wire) ELSE <<>>, cons.final)
    BY <1>19 DEF GiveUp, At
  <2>2. CASE cons.committed
    <3>1. Fail(wire) \in Seq(Event) /\ Concludes(Fail(wire), cons.final)
      BY <1>1, <2>1, <2>2, FinishType DEF Consumer
    <3>2. ~gone => Leads(LastOf(Nothing, wire), Fail(wire))
      BY <1>1, <1>16, <2>1, <2>2, FailCarries DEF Carries
    <3> QED BY <2>1, <3>1, <3>2, MessageEnds
  <2>3. CASE ~cons.committed
    <3>1. <<>> \in Seq(Event) /\ Concludes(<<>>, cons.final)
      BY <2>1, <2>3
    <3> QED BY <2>1, <3>1, LeadsNowhere, MessageEnds
  <2> QED BY <2>2, <2>3
<1> QED
  BY <1>4, <1>5, <1>6, <1>8, <1>9, <1>10, <1>11, <1>12, <1>13, <1>14, <1>15, <1>18, <1>19
  DEF ConsumerStep

LEMMA StepMessage == TypeOK /\ MessageOK /\ [Next]_vars => MessageOK'
<1> SUFFICES ASSUME TypeOK, MessageOK, [Next]_vars PROVE MessageOK'
  OBVIOUS
<1>1. CASE ReaderStep
  <2>1. UNCHANGED <<cons, wire, gone>>
    BY <1>1 DEF ReaderStep, Refuse, Open, OpenWhole, ReadDelta, ReadFragment, ReadBlockStop, ReadEnd,
                ReadError, Send
  <2> QED BY <2>1 DEF MessageOK, Sent
<1>2. CASE Leave
  <2>1. ~gone /\ gone' /\ cons.pc # "done" /\ UNCHANGED <<cons, wire>>
    BY <1>2 DEF Leave
  <2>2. LastOf(Nothing, wire) # Stop
    <3>1. SUFFICES ASSUME LastOf(Nothing, wire) = Stop PROVE FALSE
      OBVIOUS
    <3>2. Leads(Nothing, Sent) /\ wire \in Seq(Event) /\ cons.out \in Seq(Event)
      BY <2>1, SentType DEF MessageOK
    <3>3. cons.out = <<>> /\ Sent = wire
      BY <3>1, <3>2, StopIsLast, SentType DEF Sent
    <3>4. Stop # Nothing /\ ~Resting(Stop)
      BY Types DEF Resting, Between
    <3> QED BY <2>1, <3>1, <3>3, <3>4, LeadsNowhere, SentType DEF MessageOK
  <2> QED BY <2>1, <2>2 DEF MessageOK, Sent
<1>3. CASE UNCHANGED vars
  BY <1>3 DEF vars, MessageOK, Sent
<1> QED BY <1>1, <1>2, <1>3, MessageConsumer DEF Next

\* Whatever the upstream sends, whenever the gate commits and however the attempt ends,
\* what the client is written is a step of the messages protocol: blocks one at a time
\* under consecutive indices, deltas of the block that is open, one end, between blocks.
THEOREM ClientReadsMessages == Spec => WellFormed
<1>1. Init => Message!Init
  <2>1. OpenBlocks(<<>>) = {}
    BY DEF OpenBlocks
  <2>2. \A type : {k \in DOMAIN <<>> : <<>>[k].type = type} = {}
    OBVIOUS
  <2>3. NextIndex(<<>>) = 0
    BY <2>2, FS_EmptySet DEF NextIndex, Count
  <2>4. LastDelta(<<>>) = 0
    BY DEF LastDelta
  <2> QED BY <2>1, <2>3, <2>4 DEF Init, Message!Init, Phase, OpenBlock
<1>2. TypeOK /\ TypeOK' /\ MessageOK /\ MessageOK' /\ [Next]_vars => [Message!Next]_(Message!streamVars)
  <2> SUFFICES ASSUME TypeOK, TypeOK', MessageOK, MessageOK', [Next]_vars
               PROVE  [Message!Next]_(Message!streamVars)
    OBVIOUS
  <2>1. CASE Write
    <3>1. ~gone' /\ wire' = Append(wire, Head(cons.out)) /\ cons.out # <<>>
      BY <2>1 DEF Write
    <3>2. wire \in Seq(Event) /\ cons.out \in Seq(Event) /\ wire' \in Seq(Event) /\ cons'.out \in Seq(Event)
      BY DEF TypeOK, Consumer
    <3>3. Head(cons.out) \in Event
      BY <3>1, <3>2, HeadTailProperties
    <3>4. Leads(Nothing, wire' \o cons'.out)
      BY <3>1 DEF MessageOK, Sent
    <3>5. Leads(Nothing, wire')
      BY <3>2, <3>4, LeadsConcat
    <3> QED BY <3>1, <3>2, <3>3, <3>5, MessageStep
  <2>2. CASE ~Write
    <3>1. wire' = wire
      BY <2>2 DEF Next, vars, ReaderStep, Refuse, Open, OpenWhole, ReadDelta, ReadFragment, ReadBlockStop,
           ReadEnd, ReadError, Send, ConsumerStep, SendChat, Opened, TakeEvent, EventsClosed, ErrsClosed,
           TakeError, Drain, IdleTimeout, ContextDone, WriteFails, Deliver, GiveUp, Leave
    <3> QED BY <3>1 DEF Message!streamVars
  <2> QED BY <2>1, <2>2
<1> QED BY <1>1, <1>2, InitTypes, StepTypes, InitMessage, StepMessage, PTL DEF Spec, WellFormed, Message!Spec

-----------------------------------------------------------------------------
(* The calls of a sequence of fragments. *)

\* Fragments of one call have one index, and those of two have two.
LEMMA CallsApart ==
  ASSUME NEW calls, NEW frags, AreCallsOf(calls, frags)
  PROVE  \A a, b \in DOMAIN calls : \A x \in DOMAIN calls[a], y \in DOMAIN calls[b] :
           frags[calls[a][x]] = frags[calls[b][y]] <=> a = b
<1> SUFFICES ASSUME NEW a \in DOMAIN calls, NEW b \in DOMAIN calls,
                    NEW x \in DOMAIN calls[a], NEW y \in DOMAIN calls[b]
             PROVE  frags[calls[a][x]] = frags[calls[b][y]] <=> a = b
  OBVIOUS
<1> QED BY DEF AreCallsOf

LEMMA CallsInside ==
  ASSUME NEW S, NEW calls \in Seq(Call), NEW frags \in Seq(S), AreCallsOf(calls, frags)
  PROVE  \A n \in DOMAIN calls :
           /\ DOMAIN calls[n] = 1 .. Len(calls[n]) /\ Len(calls[n]) \in Nat /\ 1 \in DOMAIN calls[n]
           /\ \A j \in DOMAIN calls[n] :
                /\ calls[n][j] \in DOMAIN frags
                /\ frags[calls[n][j]] = frags[calls[n][1]]
<1> SUFFICES ASSUME NEW n \in DOMAIN calls
    PROVE  /\ DOMAIN calls[n] = 1 .. Len(calls[n]) /\ Len(calls[n]) \in Nat /\ 1 \in DOMAIN calls[n]
           /\ \A j \in DOMAIN calls[n] :
                /\ calls[n][j] \in DOMAIN frags
                /\ frags[calls[n][j]] = frags[calls[n][1]]
  OBVIOUS
<1>1. calls[n] \in Seq(Nat) /\ calls[n] # <<>>
  BY Elements DEF AreCallsOf, Call
<1>2. DOMAIN calls[n] = 1 .. Len(calls[n]) /\ Len(calls[n]) \in Nat /\ 1 \in DOMAIN calls[n]
  BY <1>1, EmptySeq, Elements
<1>3. ASSUME NEW j \in DOMAIN calls[n] PROVE calls[n][j] \in DOMAIN frags
  BY DEF AreCallsOf, ToSet
<1>4. ASSUME NEW j \in DOMAIN calls[n] PROVE frags[calls[n][j]] = frags[calls[n][1]]
  <2>1. \A a, b \in DOMAIN calls : \A x \in DOMAIN calls[a], y \in DOMAIN calls[b] :
          frags[calls[a][x]] = frags[calls[b][y]] <=> a = b
    BY CallsApart
  <2> QED BY <1>2, <2>1
<1> QED BY <1>2, <1>3, <1>4

\* A fragment for the call of its index.
LEMMA CallContinues ==
  ASSUME NEW S, NEW calls \in Seq(Call), NEW frags \in Seq(S), AreCallsOf(calls, frags),
         NEW m \in DOMAIN calls, NEW i \in S, i = frags[calls[m][1]]
  PROVE  AreCallsOf([calls EXCEPT ![m] = Append(@, Len(frags) + 1)], Append(frags, i))
<1> DEFINE p == Len(frags) + 1
           more == [calls EXCEPT ![m] = Append(@, p)]
           longer == Append(frags, i)
<1>1. /\ Len(frags) \in Nat /\ DOMAIN frags = 1 .. Len(frags) /\ DOMAIN longer = 1 .. p
      /\ longer[p] = i /\ \A k \in DOMAIN frags : longer[k] = frags[k]
  BY AppendProperties
<1>2. /\ DOMAIN more = DOMAIN calls /\ more[m] = Append(calls[m], p)
      /\ \A n \in DOMAIN calls : n # m => more[n] = calls[n]
  OBVIOUS
<1>3. \A n \in DOMAIN calls :
        /\ calls[n] \in Seq(Nat) /\ calls[n] # <<>>
        /\ DOMAIN calls[n] = 1 .. Len(calls[n]) /\ Len(calls[n]) \in Nat /\ 1 \in DOMAIN calls[n]
        /\ \A j \in DOMAIN calls[n] :
             calls[n][j] \in DOMAIN frags /\ frags[calls[n][j]] = frags[calls[n][1]]
  <2>1. \A n \in DOMAIN calls : calls[n] \in Seq(Nat) /\ calls[n] # <<>>
    BY Elements DEF AreCallsOf, Call
  <2> QED BY <2>1, CallsInside
<1> DEFINE l == Len(calls[m]) + 1
<1>4. /\ DOMAIN more[m] = 1 .. l /\ more[m][l] = p /\ more[m] # <<>>
      /\ \A j \in DOMAIN calls[m] : more[m][j] = calls[m][j]
      /\ \A j \in DOMAIN more[m] : j \in DOMAIN calls[m] \/ j = l
      /\ l \in Nat /\ \A j \in DOMAIN calls[m] : j < l
  <2>1. p \in Nat /\ calls[m] \in Seq(Nat) /\ Len(calls[m]) \in Nat /\ DOMAIN calls[m] = 1 .. Len(calls[m])
    BY <1>1, <1>3
  <2>2. /\ Append(calls[m], p) \in Seq(Nat) /\ Len(Append(calls[m], p)) = l
        /\ Append(calls[m], p)[l] = p
        /\ \A j \in 1 .. Len(calls[m]) : Append(calls[m], p)[j] = calls[m][j]
    BY <2>1, AppendProperties
  <2> HIDE DEF more, p
  <2> QED BY <1>2, <2>1, <2>2, EmptySeq
<1> HIDE DEF p, more, longer, l
<1>5. \A n \in DOMAIN calls : \A j \in DOMAIN more[n] :
        /\ more[n][j] \in DOMAIN longer
        /\ longer[more[n][j]] = frags[calls[n][1]]
  <2> SUFFICES ASSUME NEW n \in DOMAIN calls, NEW j \in DOMAIN more[n]
      PROVE  more[n][j] \in DOMAIN longer /\ longer[more[n][j]] = frags[calls[n][1]]
    OBVIOUS
  <2>1. \A k \in DOMAIN frags : k \in DOMAIN longer /\ longer[k] = frags[k]
    BY <1>1 DEF p
  <2>2. p \in DOMAIN longer
    BY <1>1 DEF p
  <2>3. CASE n # m
    BY <1>2, <1>3, <2>1, <2>3
  <2>4. CASE n = m /\ j \in DOMAIN calls[m]
    BY <1>3, <1>4, <2>1, <2>4
  <2>5. CASE n = m /\ j = l
    BY <1>1, <1>4, <2>2, <2>5
  <2> QED BY <1>4, <2>3, <2>4, <2>5
<1>6. \A n \in DOMAIN calls :
        1 \in DOMAIN more[n] /\ more[n] # <<>> /\ more[n][1] = calls[n][1]
  <2> SUFFICES ASSUME NEW n \in DOMAIN calls
      PROVE  1 \in DOMAIN more[n] /\ more[n] # <<>> /\ more[n][1] = calls[n][1]
    OBVIOUS
  <2>1. 1 \in DOMAIN calls[n]
    BY <1>3
  <2>2. CASE n = m
    <3>1. 1 \in 1 .. l
      BY <1>4, <2>1, <2>2
    <3> QED BY <1>4, <2>1, <2>2, <3>1
  <2>3. CASE n # m
    BY <1>2, <1>3, <2>1, <2>3
  <2> QED BY <2>2, <2>3
<1>7. UNION {ToSet(more[n]) : n \in DOMAIN more} = DOMAIN longer
  <2>1. ASSUME NEW n \in DOMAIN more, NEW x \in ToSet(more[n]) PROVE x \in DOMAIN longer
    BY <1>2, <1>5 DEF ToSet
  <2>2. ASSUME NEW x \in DOMAIN longer PROVE \E n \in DOMAIN more : x \in ToSet(more[n])
    <3>1. CASE x = p
      BY <1>2, <1>3, <1>4, <3>1 DEF ToSet, l
    <3>2. CASE x # p
      <4>1. x \in DOMAIN frags
        BY <1>1, <3>2 DEF p
      <4>2. PICK n \in DOMAIN calls : x \in ToSet(calls[n])
        BY <4>1 DEF AreCallsOf
      <4>3. PICK j \in DOMAIN calls[n] : x = calls[n][j]
        BY <4>2 DEF ToSet
      <4>4. j \in DOMAIN more[n] /\ more[n][j] = x
        <5>1. CASE n = m
          <6>1. j \in 1 .. Len(calls[m]) /\ Len(calls[m]) \in Nat
            BY <1>3, <4>3, <5>1
          <6>2. j \in 1 .. l
            BY <6>1 DEF l
          <6> QED BY <1>4, <4>3, <5>1, <6>2
        <5>2. CASE n # m
          BY <1>2, <4>3, <5>2
        <5> QED BY <5>1, <5>2
      <4> QED BY <1>2, <4>4 DEF ToSet
    <3> QED BY <3>1, <3>2
  <2> QED BY <2>1, <2>2
<1>8. ASSUME NEW n \in DOMAIN more, NEW j \in DOMAIN more[n], NEW k \in DOMAIN more[n], j < k
      PROVE  more[n][j] < more[n][k]
  <2>1. \A x, y \in DOMAIN calls[n] : x < y => calls[n][x] < calls[n][y]
    BY <1>2 DEF AreCallsOf
  <2>2. CASE n # m
    BY <1>2, <1>8, <2>1, <2>2
  <2>3. CASE n = m /\ k \in DOMAIN calls[m] /\ j \in DOMAIN calls[m]
    BY <1>4, <1>8, <2>1, <2>3
  <2>4. CASE n = m /\ k = l /\ j \in DOMAIN calls[m]
    <3>1. calls[m][j] \in DOMAIN frags
      BY <1>3, <2>4
    <3>2. calls[m][j] < p
      BY <1>1, <3>1 DEF p
    <3> QED BY <1>4, <2>4, <3>2
  <2>5. j = l => ~(k = l) /\ ~(k \in DOMAIN calls[m])
    BY <1>3, <1>4, <1>8 DEF l
  <2> QED BY <1>4, <2>2, <2>3, <2>4, <2>5
<1>9. ASSUME NEW a \in DOMAIN more, NEW b \in DOMAIN more
      PROVE  /\ a < b => more[a][1] < more[b][1]
             /\ \A j \in DOMAIN more[a], k \in DOMAIN more[b] :
                  longer[more[a][j]] = longer[more[b][k]] <=> a = b
  <2>1. a \in DOMAIN calls /\ b \in DOMAIN calls
    BY <1>2
  <2>2. a < b => calls[a][1] < calls[b][1]
    BY <2>1 DEF AreCallsOf
  <2>3. frags[calls[a][1]] = frags[calls[b][1]] <=> a = b
    <3>1. \A c, d \in DOMAIN calls : \A x \in DOMAIN calls[c], y \in DOMAIN calls[d] :
            frags[calls[c][x]] = frags[calls[d][y]] <=> c = d
      BY CallsApart
    <3>2. 1 \in DOMAIN calls[a] /\ 1 \in DOMAIN calls[b]
      BY <1>3, <2>1
    <3> QED BY <2>1, <3>1, <3>2
  <2> QED BY <1>5, <1>6, <2>1, <2>2, <2>3
<1> QED BY <1>2, <1>6, <1>7, <1>8, <1>9 DEF AreCallsOf, more, longer, p

\* A fragment that begins a call.
LEMMA CallBegins ==
  ASSUME NEW S, NEW calls \in Seq(Call), NEW frags \in Seq(S), AreCallsOf(calls, frags),
         NEW i \in S, \A n \in DOMAIN calls : frags[calls[n][1]] # i
  PROVE  AreCallsOf(Append(calls, <<Len(frags) + 1>>), Append(frags, i))
<1> DEFINE p == Len(frags) + 1
           c == <<p>>
           l == Len(calls) + 1
           more == Append(calls, c)
           longer == Append(frags, i)
<1>1. /\ Len(frags) \in Nat /\ DOMAIN frags = 1 .. Len(frags) /\ DOMAIN longer = 1 .. p /\ p \in Nat
      /\ longer[p] = i /\ \A k \in DOMAIN frags : longer[k] = frags[k]
  BY AppendProperties
<1>2. DOMAIN c = {1} /\ c[1] = p /\ c # <<>> /\ c \in Call
  BY DEF Call
<1>3. \A n \in DOMAIN calls :
        /\ calls[n] \in Seq(Nat) /\ calls[n] # <<>>
        /\ DOMAIN calls[n] = 1 .. Len(calls[n]) /\ Len(calls[n]) \in Nat /\ 1 \in DOMAIN calls[n]
        /\ \A j \in DOMAIN calls[n] :
             calls[n][j] \in DOMAIN frags /\ frags[calls[n][j]] = frags[calls[n][1]]
  <2>1. \A n \in DOMAIN calls : calls[n] \in Seq(Nat) /\ calls[n] # <<>>
    BY Elements DEF AreCallsOf, Call
  <2> QED BY <2>1, CallsInside
<1>4. /\ Len(calls) \in Nat /\ DOMAIN calls = 1 .. Len(calls) /\ DOMAIN more = 1 .. l
      /\ more[l] = c /\ \A n \in DOMAIN calls : more[n] = calls[n]
  BY <1>2, AppendProperties
<1>5. (\A n \in DOMAIN more : n \in DOMAIN calls \/ n = l) /\ l \in DOMAIN more /\ l \notin DOMAIN calls
      /\ \A n \in DOMAIN calls : n \in DOMAIN more /\ n < l
  BY <1>4
<1>6. (\A k \in DOMAIN longer : k \in DOMAIN frags \/ k = p) /\ p \in DOMAIN longer
      /\ \A k \in DOMAIN frags : k \in DOMAIN longer /\ k < p
  BY <1>1
<1>7. \A a, b \in DOMAIN calls : \A x \in DOMAIN calls[a], y \in DOMAIN calls[b] :
        frags[calls[a][x]] = frags[calls[b][y]] <=> a = b
  BY CallsApart
<1> HIDE DEF p, more, longer, l, c
<1>8. \A n \in DOMAIN calls : \A j \in DOMAIN more[n] :
        /\ more[n][j] \in DOMAIN frags /\ longer[more[n][j]] = frags[calls[n][1]]
  BY <1>1, <1>3, <1>4
<1>9. \A j \in DOMAIN more[l] : more[l][j] = p /\ longer[more[l][j]] = i /\ j = 1
  BY <1>1, <1>2, <1>4
<1>10. UNION {ToSet(more[n]) : n \in DOMAIN more} = DOMAIN longer
  <2>1. ASSUME NEW n \in DOMAIN more, NEW x \in ToSet(more[n]) PROVE x \in DOMAIN longer
    BY <1>5, <1>6, <1>8, <1>9 DEF ToSet
  <2>2. ASSUME NEW x \in DOMAIN longer PROVE \E n \in DOMAIN more : x \in ToSet(more[n])
    <3>1. CASE x = p
      BY <1>2, <1>4, <1>5, <3>1 DEF ToSet
    <3>2. CASE x # p
      <4>1. x \in DOMAIN frags
        BY <1>6, <3>2
      <4>2. PICK n \in DOMAIN calls : x \in ToSet(calls[n])
        BY <4>1 DEF AreCallsOf
      <4> QED BY <1>4, <1>5, <4>2
    <3> QED BY <3>1, <3>2
  <2> QED BY <2>1, <2>2
<1>11. ASSUME NEW n \in DOMAIN more
       PROVE  more[n] # <<>> /\ \A j, k \in DOMAIN more[n] : j < k => more[n][j] < more[n][k]
  <2>1. CASE n = l
    BY <1>2, <1>4, <2>1
  <2>2. CASE n \in DOMAIN calls
    BY <1>4, <2>2 DEF AreCallsOf
  <2> QED BY <1>5, <2>1, <2>2
<1>12. ASSUME NEW a \in DOMAIN more, NEW b \in DOMAIN more
       PROVE  /\ a < b => more[a][1] < more[b][1]
              /\ \A j \in DOMAIN more[a], k \in DOMAIN more[b] :
                   longer[more[a][j]] = longer[more[b][k]] <=> a = b
  <2>1. CASE a \in DOMAIN calls /\ b \in DOMAIN calls
    <3>1. a < b => calls[a][1] < calls[b][1]
      BY <2>1 DEF AreCallsOf
    <3>2. frags[calls[a][1]] = frags[calls[b][1]] <=> a = b
      BY <1>3, <1>7, <2>1
    <3> QED BY <1>4, <1>8, <2>1, <3>1, <3>2
  <2>2. CASE a \in DOMAIN calls /\ b = l
    <3>1. more[a][1] < more[b][1]
      BY <1>2, <1>3, <1>4, <1>6, <2>2
    <3>2. a # b /\ frags[calls[a][1]] # i
      BY <1>5, <2>2
    <3> QED BY <1>8, <1>9, <2>2, <3>1, <3>2
  <2>3. CASE a = l /\ b \in DOMAIN calls
    <3>1. ~(a < b) /\ a # b /\ frags[calls[b][1]] # i
      BY <1>4, <1>5, <2>3
    <3> QED BY <1>8, <1>9, <2>3, <3>1
  <2>4. CASE a = l /\ b = l
    <3>1. ~(a < b)
      BY <1>4, <2>4 DEF l
    <3> QED BY <1>9, <2>4, <3>1
  <2> QED BY <1>5, <2>1, <2>2, <2>3, <2>4
<1> QED BY <1>10, <1>11, <1>12 DEF AreCallsOf, more, longer, p, c

\* The calls of a whole reply.
LEMMA WholeCalls ==
  ASSUME NEW reply \in WholeReplies
  PROVE  AreCallsOf(reply.calls, [i \in DOMAIN reply.calls |-> i])
<1>1. PICK n \in 0 .. 1 : reply.calls = [i \in 1 .. n |-> <<i>>]
  BY WholeReplyTypes
<1> DEFINE c == [i \in 1 .. n |-> <<i>>]
           f == [i \in DOMAIN c |-> i]
<1>2. DOMAIN c = 1 .. n /\ DOMAIN f = 1 .. n /\ \A i \in 1 .. n : f[i] = i
  OBVIOUS
<1>3. \A i \in 1 .. n : c[i] # <<>> /\ DOMAIN c[i] = {1} /\ c[i][1] = i
  OBVIOUS
<1> HIDE DEF c, f
<1>4. UNION {ToSet(c[k]) : k \in DOMAIN c} = DOMAIN f
  BY <1>2, <1>3 DEF ToSet
<1>5. AreCallsOf(c, f)
  BY <1>2, <1>3, <1>4 DEF AreCallsOf
<1> QED BY <1>1, <1>5 DEF c, f

LEMMA NoCalls == AreCallsOf(<<>>, <<>>)
BY DEF AreCallsOf

\* What is sent of the calls that have been begun.
LEMMA AssembledPieces ==
  ASSUME NEW calls \in Seq([index : Indices, parts : Call])
  PROVE  /\ TextOf(Assembled(calls)) = <<>>
         /\ CallsOf(Assembled(calls)) = [k \in DOMAIN calls |-> calls[k].parts]
         /\ [k \in DOMAIN calls |-> calls[k].parts] \in Seq(Call)
<1> DEFINE C == [index : Indices, parts : Call]
           Parts(c) == [k \in DOMAIN c |-> c[k].parts]
           P == {c \in Seq(C) : /\ TextOf(Assembled(c)) = <<>> /\ CallsOf(Assembled(c)) = Parts(c)
                                /\ Parts(c) \in Seq(Call)}
<1>1. \A c \in C : c.parts \in Call
  OBVIOUS
<1>2. <<>> \in P
  <2>1. Assembled(<<>>) = <<>> /\ Parts(<<>>) = <<>>
    BY DEF Assembled
  <2>2. <<>> \in Seq(C) /\ <<>> \in Seq(Call)
    OBVIOUS
  <2> QED BY <2>1, <2>2, NoEvents
<1> HIDE DEF C
<1>3. ASSUME NEW c \in P, NEW e \in C PROVE Append(c, e) \in P
  <2> DEFINE d == Append(c, e)
             h == CallEvent(e.parts)
  <2>1. /\ c \in Seq(C) /\ d \in Seq(C) /\ Len(d) = Len(c) + 1 /\ d[Len(c) + 1] = e /\ Len(c) \in Nat
        /\ \A k \in 1 .. Len(c) : d[k] = c[k]
    BY AppendProperties
  <2>2. h \in Chunk /\ h \in Item /\ TextPiece(h) = <<>> /\ CallPiece(h) = <<e.parts>> /\ e.parts \in Call
    BY <1>1, ChunkTypes DEF CallEvent, TextPiece, CallPiece, Item
  <2>3. Assembled(c) \in Seq(Chunk) /\ Assembled(d) \in Seq(Chunk) /\ Assembled(c) \in Seq(Item)
    <3>1. Assembled(c) \in Seq(Chunk) /\ Assembled(d) \in Seq(Chunk)
      <4> HIDE DEF d
      <4> QED BY <2>1, AssembledType DEF C
    <3> QED BY <3>1 DEF Item
  <2> HIDE DEF d, h
  <2>4. Assembled(d) = Append(Assembled(c), h)
    <3>1. /\ Len(Assembled(c)) = Len(c) /\ Len(Assembled(d)) = Len(d)
          /\ \A k \in 1 .. Len(c) : Assembled(c)[k] = CallEvent(c[k].parts)
          /\ \A k \in 1 .. Len(d) : Assembled(d)[k] = CallEvent(d[k].parts)
      BY <2>1 DEF Assembled
    <3>2. \A k \in 1 .. Len(c) : k \in 1 .. Len(d)
      BY <2>1
    <3>3. Len(c) + 1 \in 1 .. Len(d)
      BY <2>1
    <3> DEFINE f == Assembled(c)
               g == Assembled(d)
    <3>4. f \in Seq(Chunk) /\ g \in Seq(Chunk)
      BY <2>3
    <3>5. \A k \in 1 .. Len(f) : g[k] = f[k]
      BY <2>1, <3>1, <3>2
    <3>6. Len(g) = Len(f) + 1 /\ g[Len(f) + 1] = h
      BY <2>1, <3>1, <3>3 DEF h
    <3> HIDE DEF f, g
    <3>7. g = Append(f, h)
      BY <2>2, <3>4, <3>5, <3>6, IsAppend
    <3> QED BY <3>7 DEF f, g
  <2>5. Parts(d) = Append(Parts(c), e.parts) /\ Parts(d) \in Seq(Call)
    <3> DEFINE f == Parts(c)
               g == Parts(d)
    <3>1. f \in Seq(Call) /\ f = [k \in DOMAIN c |-> f[k]] /\ g = [k \in DOMAIN d |-> g[k]]
      OBVIOUS
    <3>2. /\ Len(f) = Len(c) /\ \A k \in 1 .. Len(c) : f[k] = c[k].parts
          /\ \A k \in 1 .. Len(d) : g[k] = d[k].parts
      BY <2>1
    <3>3. \A k \in DOMAIN d : g[k] \in Call
      BY <1>1, <2>1, Elements
    <3> HIDE DEF f, g
    <3>4. g \in Seq(Call) /\ Len(g) = Len(d)
      BY <2>1, <3>1, <3>3, Mapped
    <3>5. (\A k \in 1 .. Len(c) : k \in 1 .. Len(d)) /\ Len(c) + 1 \in 1 .. Len(d)
      BY <2>1
    <3>6. g = Append(f, e.parts)
      <4>1. \A k \in 1 .. Len(f) : g[k] = f[k]
        BY <2>1, <3>2, <3>5
      <4> DEFINE last == e.parts
      <4>2. Len(g) = Len(f) + 1 /\ g[Len(f) + 1] = last /\ last \in Call
        BY <2>1, <2>2, <3>2, <3>4, <3>5
      <4> HIDE DEF last
      <4>3. f \in Seq(Call) /\ g \in Seq(Call)
        BY <3>1, <3>4
      <4>4. g = Append(f, last)
        BY <4>1, <4>2, <4>3, IsAppend
      <4> QED BY <4>4 DEF last
    <3> QED BY <3>4, <3>6 DEF f, g
  <2>6. TextOf(Assembled(d)) = <<>> /\ CallsOf(Assembled(d)) = Parts(c) \o <<e.parts>>
    <3>1. TextOf(Assembled(c)) = <<>> /\ CallsOf(Assembled(c)) = Parts(c)
      OBVIOUS
    <3>2. <<>> \o <<>> = <<>>
      BY TextNeutral
    <3> HIDE DEF P
    <3> QED BY <2>2, <2>3, <2>4, <3>1, <3>2, TextAppend, CallsAppend
  <2>7. Append(Parts(c), e.parts) = Parts(c) \o <<e.parts>>
    <3>1. Parts(c) \in Seq(Call)
      OBVIOUS
    <3> HIDE DEF P
    <3> QED BY <2>2, <3>1, AppendIsConcat
  <2> QED BY <2>1, <2>5, <2>6, <2>7 DEF d
<1>4. P = Seq(C)
  <2> HIDE DEF P
  <2>1. P \in SUBSET Seq(C)
    BY DEF P
  <2> QED BY <1>2, <1>3, <2>1, InductSeq
<1> QED BY <1>4 DEF C

-----------------------------------------------------------------------------
(* What an attempt has taken, what is under way and what has been begun is what was read. *)

LEMMA ReadTypes ==
  ASSUME TypeOK
  PROVE  /\ queue \in Seq(Chunk) /\ reader.pending \in Seq(Chunk)
         /\ queue \in Seq(Item) /\ reader.pending \in Seq(Item)
         /\ cons.text \in Text /\ reader.text \in Text
         /\ TextOf(queue) \in Text /\ TextOf(reader.pending) \in Text
         /\ CallsOf(queue) \in Seq(Call) /\ CallsOf(reader.pending) \in Seq(Call)
         /\ cons.calls \in Seq(Call) /\ Taken \in Seq(Call) /\ Unsent \in Seq(Call)
         /\ reader.calls \in Seq([index : Indices, parts : Call])
         /\ reader.frags \in Seq(Indices \cup Nat)
         /\ cons.calls \o Taken \in Seq(Call)
<1>1. /\ queue \in Seq(Chunk) /\ reader.pending \in Seq(Chunk) /\ cons.text \in Text
      /\ reader.text \in Text /\ cons.calls \in Seq(Call) /\ reader.frags \in Seq(Indices \cup Nat)
      /\ reader.calls \in Seq([index : Indices, parts : Call])
  BY DEF TypeOK, Reader, Consumer
<1>2. queue \in Seq(Item) /\ reader.pending \in Seq(Item)
  BY <1>1 DEF Item
<1>3. /\ TextOf(queue) \in Text /\ TextOf(reader.pending) \in Text
      /\ CallsOf(queue) \in Seq(Call) /\ CallsOf(reader.pending) \in Seq(Call)
  BY <1>2, TextAppend, CallsAppend
<1>4. Taken \in Seq(Call) /\ cons.calls \o Taken \in Seq(Call)
  BY <1>1, <1>3, ConcatProperties DEF Taken
<1>5. Unsent \in Seq(Call)
  BY <1>1, AssembledPieces, CallsNeutral DEF Unsent
<1> QED BY <1>1, <1>2, <1>3, <1>4, <1>5

LEMMA HeadPieces ==
  ASSUME NEW q \in Seq(Chunk), q # <<>>
  PROVE  /\ Head(q) \in Chunk /\ Tail(q) \in Seq(Chunk)
         /\ TextOf(q) = TextPiece(Head(q)) \o TextOf(Tail(q))
         /\ CallsOf(q) = CallPiece(Head(q)) \o CallsOf(Tail(q))
<1> DEFINE h == Head(q)
           t == Tail(q)
           s == <<h>>
<1>1. h \in Chunk /\ t \in Seq(Chunk) /\ q = <<h>> \o t
  BY HeadTailProperties, ConcatProperties
<1>2. h \in Item /\ t \in Seq(Item) /\ s \in Seq(Item)
  BY <1>1, Singles DEF Item
<1>3. TextOf(s) = TextPiece(h) /\ CallsOf(s) = CallPiece(h)
  <2>1. <<>> \in Seq(Item) /\ Append(<<>>, h) = s
    BY <1>2
  <2>2. <<>> \o TextPiece(h) = TextPiece(h) /\ <<>> \o CallPiece(h) = CallPiece(h)
    BY <1>2, Pieces, TextNeutral, CallsNeutral
  <2> HIDE DEF h, s
  <2> QED BY <1>2, <2>1, <2>2, NoEvents, TextAppend, CallsAppend
<1>4. q = s \o t
  BY <1>1
<1> HIDE DEF h, t, s
<1>5. TextOf(s \o t) = TextOf(s) \o TextOf(t) /\ CallsOf(s \o t) = CallsOf(s) \o CallsOf(t)
  BY <1>2, PiecesConcat
<1> QED BY <1>1, <1>3, <1>4, <1>5 DEF h, t

LEMMA LastPieces ==
  ASSUME NEW q \in Seq(Chunk), NEW e \in Chunk
  PROVE  /\ Append(q, e) \in Seq(Chunk)
         /\ TextOf(Append(q, e)) = TextOf(q) \o TextPiece(e)
         /\ CallsOf(Append(q, e)) = CallsOf(q) \o CallPiece(e)
<1>1. q \in Seq(Item) /\ e \in Item
  BY DEF Item
<1> QED BY <1>1, TextAppend, CallsAppend, AppendProperties

\* What an attempt's reader and its consumer know of each other.
Complete == ReaderOK /\ ConsumerOK /\ ReadSoFar /\ ReplyComplete

LEMMA InitComplete == Init => Complete
<1> SUFFICES ASSUME Init PROVE Complete
  OBVIOUS
<1>1. /\ reader.pc = "opening" /\ reader.pending = <<>> /\ reader.calls = <<>> /\ ~reader.last
      /\ reader.text = <<>> /\ reader.frags = <<>> /\ ~reader.whole /\ ~reader.failed
      /\ queue = <<>>
  BY DEF Init
<1>2. /\ cons.pc = "opening" /\ cons.events /\ cons.errs /\ cons.text = <<>> /\ cons.calls = <<>>
      /\ ~cons.committed /\ cons.result = "none"
  BY DEF Init
<1>3. ReaderOK
  BY <1>1 DEF ReaderOK
<1>4. ConsumerOK
  BY <1>2 DEF ConsumerOK
<1>5. ReplyComplete
  BY <1>2 DEF ReplyComplete
<1>6. ReadSoFar
  <2>1. Taken = <<>> /\ Unsent = <<>>
    BY <1>1, NoEvents, CallsNeutral DEF Taken, Unsent
  <2>2. /\ cons.text \o TextOf(queue) \o TextOf(reader.pending) = <<>>
        /\ cons.calls \o Taken \o Unsent = <<>>
    BY <1>1, <1>2, <2>1, NoEvents, CallsNeutral
  <2> QED BY <1>1, <1>2, <2>1, <2>2, NoCalls DEF ReadSoFar
<1> QED BY <1>3, <1>4, <1>5, <1>6 DEF Complete

LEMMA OnePiece ==
  ASSUME NEW e \in Chunk
  PROVE  /\ <<e>> \in Seq(Chunk) /\ <<e>> \in Seq(Item) /\ <<>> \in Seq(Item)
         /\ TextOf(<<e>>) = TextPiece(e) /\ CallsOf(<<e>>) = CallPiece(e)
<1> DEFINE s == <<e>>
<1>1. e \in Item /\ s \in Seq(Chunk) /\ s \in Seq(Item) /\ <<>> \in Seq(Item) /\ Append(<<>>, e) = s
  BY Singles DEF Item
<1>2. <<>> \o TextPiece(e) = TextPiece(e) /\ <<>> \o CallPiece(e) = CallPiece(e)
  BY <1>1, Pieces, TextNeutral, CallsNeutral
<1> HIDE DEF s
<1>3. TextOf(s) = TextPiece(e) /\ CallsOf(s) = CallPiece(e)
  BY <1>1, <1>2, NoEvents, TextAppend, CallsAppend
<1> QED BY <1>1, <1>3 DEF s

\* A step of the reader concerns what is read, not the consumer.
LEMMA ReaderAlone ==
  ASSUME TypeOK, Complete, ReaderStep, ReaderOK', ReadSoFar'
  PROVE  Complete'
<1>1. UNCHANGED cons /\ (reader.pc = "opening" \/ reader.pc = "reading")
  BY DEF ReaderStep, Refuse, Open, OpenWhole, ReadDelta, ReadFragment, ReadBlockStop, ReadEnd, ReadError,
         Send, Reading, InBody
<1>2. cons.events /\ cons.errs /\ cons.result # "ok"
  BY <1>1 DEF Complete, ConsumerOK, Closed
<1>3. reader.pc # "opening" => reader'.pc # "opening"
  BY <1>1 DEF TypeOK, Reader, ReaderStep, Refuse, Open, OpenWhole, ReadDelta, ReadFragment, ReadBlockStop, ReadEnd,
         ReadError, Send, Reading, InBody, Ends, Read, Heard
<1>4. ReplyComplete'
  BY <1>1, <1>2 DEF ReplyComplete
<1>5. ConsumerOK'
  BY <1>1, <1>2, <1>3 DEF Complete, ConsumerOK, Attempting
<1> QED BY <1>4, <1>5 DEF Complete

LEMMA OpeningComplete ==
  ASSUME TypeOK, Complete, Refuse \/ Open
  PROVE  ReaderOK' /\ ReadSoFar'
<1>1. /\ reader.pc = "opening" /\ reader.pending = <<>>
      /\ ~reader.failed /\ ~reader.whole /\ ~reader.last /\ reader.calls = <<>>
  BY DEF Complete, ReaderOK, Refuse, Open
<1>2. /\ reader'.text = reader.text /\ reader'.frags = reader.frags
      /\ reader'.pending = <<>> /\ reader'.calls = <<>>
      /\ ~reader'.failed /\ ~reader'.whole /\ ~reader'.last
      /\ reader'.pc = "ended" \/ (reader'.pc = "reading" /\ protocol \in {"openai", "anthropic"})
  BY <1>1 DEF TypeOK, Reader, Refuse, Open, Ends
<1>3. UNCHANGED <<protocol, queue, errq, cons, gone>>
  BY DEF Refuse, Open
<1>4. ReaderOK'
  BY <1>2, <1>3 DEF ReaderOK
<1>5. Taken' = Taken /\ Unsent' = Unsent /\ Attempting' = Attempting
  BY <1>1, <1>2, <1>3 DEF Taken, Unsent, Attempting
<1>6. ReadSoFar'
  BY <1>1, <1>2, <1>3, <1>5 DEF Complete, ReadSoFar
<1> QED BY <1>4, <1>6

LEMMA OpenWholeComplete ==
  ASSUME TypeOK, TypeOK', Complete, OpenWhole
  PROVE  ReaderOK' /\ ReadSoFar'
<1>1. /\ reader.pc = "opening" /\ reader.pending = <<>> /\ protocol = "gemini"
      /\ ~reader.failed /\ ~reader.last /\ reader.calls = <<>>
  BY DEF Complete, ReaderOK, OpenWhole
<1>2. PICK reply \in WholeReplies :
        /\ queue' = (IF reply.thought THEN <<ThinkingEvent>> ELSE <<>>)
                    \o (IF reply.text # <<>> THEN <<TextEvent(reply.text)>> ELSE <<>>)
                    \o [i \in DOMAIN reply.calls |-> CallEvent(reply.calls[i])]
        /\ reader' = Read(reply)
  BY DEF OpenWhole
<1>3. UNCHANGED <<protocol, errq, cons, gone>>
  BY DEF OpenWhole
<1>4. /\ reader'.text = reply.text /\ reader'.frags = [i \in DOMAIN reply.calls |-> i]
      /\ reader'.pending = <<>> /\ reader'.calls = <<>> /\ ~reader'.failed /\ reader'.pc = "ended"
  BY <1>1, <1>2 DEF TypeOK, Reader, Read, Ends
<1>5. ReaderOK'
  BY <1>3, <1>4 DEF ReaderOK, Closed
<1>6. TextOf(queue') = reply.text /\ CallsOf(queue') = reply.calls
  <2> DEFINE a == IF reply.thought THEN <<ThinkingEvent>> ELSE <<>>
             b == IF reply.text # <<>> THEN <<TextEvent(reply.text)>> ELSE <<>>
             c == [i \in DOMAIN reply.calls |-> CallEvent(reply.calls[i])]
  <2>1. a \in Seq(Item) /\ TextOf(a) = <<>> /\ CallsOf(a) = <<>>
    BY ChunkTypes, OnePiece, NoEvents DEF ThinkingEvent, TextPiece, CallPiece
  <2>2. b \in Seq(Item) /\ TextOf(b) = reply.text /\ CallsOf(b) = <<>>
    BY ChunkTypes, OnePiece, NoEvents, WholeReplyTypes DEF TextEvent, TextPiece, CallPiece
  <2>3. c \in Seq(Item) /\ TextOf(c) = <<>> /\ CallsOf(c) = reply.calls
    <3>1. PICK n \in 0 .. 1 : reply.calls = [i \in 1 .. n |-> <<i>>]
      BY WholeReplyTypes
    <3>2. CASE n = 0
      <4>1. reply.calls = <<>> /\ c = <<>>
        BY <3>1, <3>2
      <4> QED BY <4>1, NoEvents
    <3>3. CASE n = 1
      <4>1. reply.calls = <<<<1>>>> /\ c = <<CallEvent(<<1>>)>> /\ <<1>> \in Call
        BY <3>1, <3>3 DEF Call
      <4> QED BY <4>1, ChunkTypes, OnePiece DEF CallEvent, TextPiece, CallPiece
    <3> QED BY <3>2, <3>3
  <2>4. queue' = (a \o b) \o c
    BY <1>2
  <2> HIDE DEF a, b, c
  <2>5. a \o b \in Seq(Item) /\ TextOf(a \o b) = TextOf(a) \o TextOf(b)
        /\ CallsOf(a \o b) = CallsOf(a) \o CallsOf(b)
    BY <2>1, <2>2, PiecesConcat, ConcatProperties
  <2>6. TextOf((a \o b) \o c) = TextOf(a \o b) \o TextOf(c)
        /\ CallsOf((a \o b) \o c) = CallsOf(a \o b) \o CallsOf(c)
    BY <2>3, <2>5, PiecesConcat
  <2> QED BY <2>1, <2>2, <2>3, <2>4, <2>5, <2>6, TextNeutral, CallsNeutral, WholeReplyTypes
<1>7. ReadSoFar'
  <2> SUFFICES ASSUME Attempting'
      PROVE  /\ (cons.text \o TextOf(queue) \o TextOf(reader.pending))' = reader'.text
             /\ AreCallsOf(cons.calls \o Taken \o Unsent, reader.frags)'
    BY <1>1, <1>3 DEF ReadSoFar
  <2>1. cons.pc = "opening" /\ cons.text = <<>> /\ cons.calls = <<>>
    BY <1>1, <1>3 DEF Complete, ConsumerOK, Attempting
  <2>5. reply.calls \o <<>> = reply.calls /\ <<>> \o <<>> = <<>> /\ <<>> \o reply.text = reply.text
        /\ reply.text \o <<>> = reply.text
    BY CallsNeutral, TextNeutral, WholeReplyTypes
  <2>2. Taken' = reply.calls /\ Unsent' = <<>>
    <3>1. Taken' = reply.calls \o <<>>
      BY <1>4, <1>6, NoEvents DEF Taken
    <3>2. Unsent' = <<>>
      BY <1>1, <1>3, <1>4 DEF Unsent
    <3> QED BY <2>5, <3>1, <3>2
  <2>3. (cons.text \o TextOf(queue) \o TextOf(reader.pending))' = reader'.text
    BY <1>3, <1>4, <1>6, <2>1, <2>5, NoEvents
  <2>4. (cons.calls \o Taken \o Unsent)' = reply.calls
    BY <1>3, <2>1, <2>2, CallsNeutral, WholeReplyTypes
  <2> QED BY <1>4, <2>3, <2>4, WholeCalls
<1> QED BY <1>5, <1>7

\* In the body, the reader has sent all it made of what it read.
LEMMA ReadingFacts ==
  ASSUME TypeOK, Complete, InBody
  PROVE  /\ reader.pc = "reading" /\ reader.pending = <<>> /\ protocol \in {"openai", "anthropic"}
         /\ ~reader.last /\ ~reader.failed /\ ~reader.whole
         /\ Taken = CallsOf(queue)
         /\ Unsent = [k \in DOMAIN reader.calls |-> reader.calls[k].parts]
         /\ reader.text = cons.text \o TextOf(queue) \/ gone \/ ~Attempting
         /\ cons.text \o TextOf(queue) \in Text
<1>1. reader.pc = "reading" /\ reader.pending = <<>>
  BY DEF InBody
<1>2. protocol \in {"openai", "anthropic"} /\ ~reader.last /\ ~reader.failed /\ ~reader.whole
  BY <1>1 DEF Complete, ReaderOK, Closed
<1>3. Taken = CallsOf(queue)
  BY <1>1, NoEvents, ReadTypes, CallsNeutral DEF Taken
<1>4. Unsent = [k \in DOMAIN reader.calls |-> reader.calls[k].parts]
  BY <1>2 DEF Unsent
<1>5. cons.text \o TextOf(queue) \in Text
  BY ReadTypes, ConcatProperties DEF Text
<1>6. (cons.text \o TextOf(queue)) \o <<>> = cons.text \o TextOf(queue)
  BY <1>5, TextNeutral
<1>7. reader.text = cons.text \o TextOf(queue) \/ gone \/ ~Attempting
  BY <1>1, <1>6, NoEvents DEF Complete, ReadSoFar
<1> QED BY <1>1, <1>2, <1>3, <1>4, <1>5, <1>7

LEMMA ReadDeltaComplete ==
  ASSUME TypeOK, Complete, ReadDelta
  PROVE  ReaderOK' /\ ReadSoFar'
<1>1. /\ reader.pc = "reading" /\ reader.pending = <<>> /\ protocol \in {"openai", "anthropic"}
      /\ ~reader.last /\ ~reader.failed /\ ~reader.whole
      /\ Taken = CallsOf(queue)
      /\ reader.text = cons.text \o TextOf(queue) \/ gone \/ ~Attempting
      /\ cons.text \o TextOf(queue) \in Text
  BY ReadingFacts DEF ReadDelta, Reading
<1>2. UNCHANGED <<protocol, queue, errq, cons, gone>>
  BY DEF ReadDelta
<1>3. PICK e \in Chunk :
        /\ reader'.pending = <<e>> /\ CallPiece(e) = <<>> /\ TextPiece(e) \in Text
        /\ reader'.text = reader.text \o TextPiece(e)
        /\ reader'.pc = "reading" /\ reader'.calls = reader.calls /\ reader'.frags = reader.frags
        /\ ~reader'.last /\ ~reader'.failed /\ ~reader'.whole
  <2>1. CASE \E t \in Tokens :
               reader' = [Heard(reader) EXCEPT !.pending = <<TextEvent(<<t>>)>>, !.text = Append(@, t)]
    <3>1. PICK t \in Tokens :
            reader' = [Heard(reader) EXCEPT !.pending = <<TextEvent(<<t>>)>>, !.text = Append(@, t)]
      BY <2>1
    <3> DEFINE e == TextEvent(<<t>>)
    <3>2. e \in Chunk /\ CallPiece(e) = <<>> /\ TextPiece(e) = <<t>> /\ <<t>> \in Text
      BY ChunkTypes, TextTypes DEF TextEvent, CallPiece, TextPiece
    <3>3. Append(reader.text, t) = reader.text \o <<t>>
      <4>1. reader.text \in Seq(Tokens \cup {"w"}) /\ t \in Tokens \cup {"w"}
        BY ReadTypes DEF Text
      <4> QED BY <4>1, AppendIsConcat
    <3>4. /\ reader'.pending = <<e>> /\ reader'.text = Append(reader.text, t)
          /\ reader'.pc = "reading" /\ reader'.calls = reader.calls /\ reader'.frags = reader.frags
          /\ ~reader'.last /\ ~reader'.failed /\ ~reader'.whole
      BY <1>1, <3>1 DEF TypeOK, Reader, Heard
    <3> HIDE DEF e
    <3> QED BY <3>2, <3>3, <3>4
  <2>2. CASE reader' = [Heard(reader) EXCEPT !.pending = <<ThinkingEvent>>]
    <3>1. ThinkingEvent \in Chunk /\ CallPiece(ThinkingEvent) = <<>> /\ TextPiece(ThinkingEvent) = <<>>
      BY ChunkTypes DEF ThinkingEvent, CallPiece, TextPiece
    <3>2. reader.text \o <<>> = reader.text /\ <<>> \in Text
      BY ReadTypes, TextNeutral
    <3>3. /\ reader'.pending = <<ThinkingEvent>> /\ reader'.text = reader.text
          /\ reader'.pc = "reading" /\ reader'.calls = reader.calls /\ reader'.frags = reader.frags
          /\ ~reader'.last /\ ~reader'.failed /\ ~reader'.whole
      BY <1>1, <2>2 DEF TypeOK, Reader, Heard
    <3> QED BY <3>1, <3>2, <3>3
  <2> QED BY <2>1, <2>2 DEF ReadDelta
<1>4. TextOf(reader'.pending) = TextPiece(e) /\ CallsOf(reader'.pending) = <<>>
  BY <1>3, OnePiece
<1>5. ReaderOK'
  BY <1>1, <1>2, <1>3 DEF Complete, ReaderOK
<1>6. Taken' = Taken /\ Unsent' = Unsent /\ Attempting' = Attempting
  <2>1. CallsOf(queue) \o <<>> = CallsOf(queue)
    BY ReadTypes, CallsNeutral
  <2> QED BY <1>1, <1>2, <1>3, <1>4, <2>1 DEF Taken, Unsent, Attempting
<1>7. ReadSoFar'
  BY <1>1, <1>2, <1>3, <1>4, <1>6 DEF Complete, ReadSoFar
<1> QED BY <1>5, <1>7

LEMMA ReadErrorComplete ==
  ASSUME TypeOK, Complete, ReadError
  PROVE  ReaderOK' /\ ReadSoFar'
<1>1. /\ reader.pc = "reading" /\ reader.pending = <<>> /\ ~reader.last /\ ~reader.whole
  BY ReadingFacts DEF ReadError
<1>2. UNCHANGED <<protocol, queue, cons, gone>> /\ errq'
  BY DEF ReadError
<1>3. /\ reader'.pending = <<>> /\ reader'.text = reader.text /\ reader'.frags = reader.frags
      /\ reader'.calls = reader.calls /\ ~reader'.last /\ ~reader'.whole /\ reader'.failed
      /\ reader'.pc = "ended"
  BY <1>1 DEF TypeOK, Reader, ReadError, Ends
<1>4. ReaderOK'
  BY <1>1, <1>2, <1>3 DEF Complete, ReaderOK, Closed
<1>5. Taken' = Taken /\ Unsent' = Unsent /\ Attempting' = Attempting
  BY <1>1, <1>2, <1>3 DEF Taken, Unsent, Attempting
<1>6. ReadSoFar'
  BY <1>1, <1>2, <1>3, <1>5 DEF Complete, ReadSoFar
<1> QED BY <1>4, <1>6

LEMMA ReadBlockStopComplete ==
  ASSUME TypeOK, Complete, ReadBlockStop
  PROVE  ReaderOK' /\ ReadSoFar'
<1>1. /\ reader.pc = "reading" /\ reader.pending = <<>> /\ protocol = "anthropic"
      /\ ~reader.last /\ ~reader.failed /\ ~reader.whole
      /\ Taken = CallsOf(queue)
      /\ Unsent = [k \in DOMAIN reader.calls |-> reader.calls[k].parts]
      /\ reader.text = cons.text \o TextOf(queue) \/ gone \/ ~Attempting
      /\ cons.text \o TextOf(queue) \in Text
  BY ReadingFacts DEF ReadBlockStop, Reading
<1>2. UNCHANGED <<protocol, queue, errq, cons, gone>>
  BY DEF ReadBlockStop
<1>3. /\ reader'.pending = Assembled(reader.calls) /\ reader'.calls = <<>>
      /\ reader'.pc = "reading" /\ reader'.text = reader.text /\ reader'.frags = reader.frags
      /\ ~reader'.last /\ ~reader'.failed /\ ~reader'.whole
  BY <1>1 DEF TypeOK, Reader, ReadBlockStop
<1>4. TextOf(reader'.pending) = <<>> /\ CallsOf(reader'.pending) = Unsent
  BY <1>1, <1>3, ReadTypes, AssembledPieces
<1>5. ReaderOK'
  BY <1>1, <1>2, <1>3 DEF ReaderOK
<1>6. Taken' = Taken \o Unsent /\ Unsent' = <<>> /\ Attempting' = Attempting
  <2>1. Taken' = Taken \o Unsent
    BY <1>1, <1>2, <1>4 DEF Taken
  <2>2. Unsent' = <<>>
    BY <1>1, <1>2, <1>3 DEF Unsent
  <2> QED BY <1>2, <2>1, <2>2 DEF Attempting
<1>7. (cons.calls \o Taken \o Unsent)' = cons.calls \o Taken \o Unsent
  <2>1. (cons.calls \o Taken) \o Unsent = cons.calls \o (Taken \o Unsent)
    <3> DEFINE x == cons.calls
               y == Taken
               z == Unsent
    <3>1. x \in Seq(Call) /\ y \in Seq(Call) /\ z \in Seq(Call)
      BY ReadTypes
    <3> HIDE DEF x, y, z
    <3>2. (x \o y) \o z = x \o (y \o z)
      BY <3>1, CallsAssociate
    <3> QED BY <3>2 DEF x, y, z
  <2>2. cons.calls \o Taken \o Unsent \in Seq(Call)
    BY ReadTypes, ConcatProperties
  <2>3. (cons.calls \o Taken \o Unsent) \o <<>> = cons.calls \o Taken \o Unsent
    BY <2>2, CallsNeutral
  <2> QED BY <1>2, <1>6, <2>1, <2>3
<1>8. (cons.text \o TextOf(queue)) \o <<>> = cons.text \o TextOf(queue)
  BY <1>1, TextNeutral
<1>9. ReadSoFar'
  BY <1>1, <1>2, <1>3, <1>4, <1>6, <1>7, <1>8 DEF Complete, ReadSoFar
<1> QED BY <1>5, <1>9

LEMMA ReadEndComplete ==
  ASSUME TypeOK, Complete, ReadEnd
  PROVE  ReaderOK' /\ ReadSoFar'
<1>1. /\ reader.pc = "reading" /\ reader.pending = <<>> /\ protocol \in {"openai", "anthropic"}
      /\ ~reader.last /\ ~reader.failed /\ ~reader.whole
      /\ Taken = CallsOf(queue)
      /\ Unsent = [k \in DOMAIN reader.calls |-> reader.calls[k].parts]
      /\ reader.text = cons.text \o TextOf(queue) \/ gone \/ ~Attempting
      /\ cons.text \o TextOf(queue) \in Text
  BY ReadingFacts DEF ReadEnd, Reading
<1>2. UNCHANGED <<protocol, queue, errq, cons, gone>>
  BY DEF ReadEnd
<1>3. PICK stopped \in BOOLEAN :
        /\ protocol = "anthropic" /\ stopped => reader.calls = <<>>
        /\ LET events == IF protocol = "openai" THEN Assembled(reader.calls) ELSE <<>>
           IN  reader' = [reader EXCEPT
                 !.pending = events, !.last = TRUE, !.whole = stopped \/ protocol = "openai",
                 !.pc = IF events = <<>> THEN "ended" ELSE @]
  BY DEF ReadEnd
<1> DEFINE events == IF protocol = "openai" THEN Assembled(reader.calls) ELSE <<>>
<1>4. /\ reader'.pending = events /\ reader'.calls = reader.calls
      /\ reader'.pc = IF events = <<>> THEN "ended" ELSE "reading"
      /\ reader'.text = reader.text /\ reader'.frags = reader.frags
      /\ reader'.last /\ ~reader'.failed /\ reader'.whole = (stopped \/ protocol = "openai")
  BY <1>1, <1>3 DEF TypeOK, Reader
<1>5. /\ TextOf(reader'.pending) = <<>>
      /\ protocol = "openai" => CallsOf(reader'.pending) = Unsent
      /\ protocol # "openai" => CallsOf(reader'.pending) = <<>>
  BY <1>1, <1>4, ReadTypes, AssembledPieces, NoEvents
<1> HIDE DEF events
<1>6. ReaderOK'
  BY <1>1, <1>2, <1>3, <1>4 DEF Complete, ReaderOK, Closed
<1>7. /\ protocol = "openai" => Taken' = Taken \o Unsent /\ Unsent' = <<>>
      /\ protocol # "openai" => Taken' = Taken /\ Unsent' = Unsent
      /\ Attempting' = Attempting
  <2>1. CallsOf(queue) \o <<>> = CallsOf(queue)
    BY ReadTypes, CallsNeutral
  <2> QED BY <1>1, <1>2, <1>4, <1>5, <2>1 DEF Taken, Unsent, Attempting
<1>8. (cons.calls \o Taken \o Unsent)' = cons.calls \o Taken \o Unsent
  <2>1. (cons.calls \o Taken) \o Unsent = cons.calls \o (Taken \o Unsent)
    <3> DEFINE x == cons.calls
               y == Taken
               z == Unsent
    <3>1. x \in Seq(Call) /\ y \in Seq(Call) /\ z \in Seq(Call)
      BY ReadTypes
    <3> HIDE DEF x, y, z
    <3>2. (x \o y) \o z = x \o (y \o z)
      BY <3>1, CallsAssociate
    <3> QED BY <3>2 DEF x, y, z
  <2>2. cons.calls \o Taken \o Unsent \in Seq(Call)
    BY ReadTypes, ConcatProperties
  <2>3. (cons.calls \o Taken \o Unsent) \o <<>> = cons.calls \o Taken \o Unsent
    BY <2>2, CallsNeutral
  <2> QED BY <1>2, <1>7, <2>1, <2>3
<1>9. (cons.text \o TextOf(queue)) \o <<>> = cons.text \o TextOf(queue)
  BY <1>1, TextNeutral
<1>10. ReadSoFar'
  BY <1>1, <1>2, <1>4, <1>5, <1>7, <1>8, <1>9 DEF Complete, ReadSoFar
<1> QED BY <1>6, <1>10

LEMMA TailEmpty ==
  ASSUME NEW S, NEW s \in Seq(S), s # <<>>
  PROVE  Len(s) = 1 <=> Tail(s) = <<>>
<1>1. Len(s) \in Nat /\ Len(s) # 0 /\ Tail(s) \in Seq(S) /\ Len(Tail(s)) = Len(s) - 1
  BY HeadTailProperties, EmptySeq, LenProperties
<1>2. Len(Tail(s)) = 0 <=> Tail(s) = <<>>
  BY <1>1, EmptySeq
<1> QED BY <1>1, <1>2

LEMMA SendComplete ==
  ASSUME TypeOK, Complete, Send
  PROVE  ReaderOK' /\ ReadSoFar'
<1>1. reader.pending # <<>> /\ reader.pc = "reading" /\ UNCHANGED <<protocol, errq, cons, gone>>
  BY DEF Send
<1>2. ~reader.failed /\ protocol \in {"openai", "anthropic"} /\ (reader.whole => reader.last)
  BY <1>1 DEF Complete, ReaderOK, Closed
<1>3. CASE HasRoom /\ queue' = Append(queue, Head(reader.pending))
           /\ reader' = [reader EXCEPT !.pending = Tail(@),
                !.pc = IF reader.last /\ Len(reader.pending) = 1 THEN "ended" ELSE @]
  <2> DEFINE h == Head(reader.pending)
             t == Tail(reader.pending)
  <2>1. /\ reader'.pending = t /\ reader'.calls = reader.calls
        /\ reader'.pc = IF reader.last /\ Len(reader.pending) = 1 THEN "ended" ELSE "reading"
        /\ reader'.text = reader.text /\ reader'.frags = reader.frags
        /\ reader'.last = reader.last /\ ~reader'.failed /\ reader'.whole = reader.whole
    BY <1>1, <1>2, <1>3 DEF TypeOK, Reader
  <2>2. /\ h \in Chunk /\ t \in Seq(Chunk)
        /\ TextOf(reader.pending) = TextPiece(h) \o TextOf(t)
        /\ CallsOf(reader.pending) = CallPiece(h) \o CallsOf(t)
    BY <1>1, ReadTypes, HeadPieces
  <2>3. TextOf(queue') = TextOf(queue) \o TextPiece(h) /\ CallsOf(queue') = CallsOf(queue) \o CallPiece(h)
    BY <1>3, <2>2, ReadTypes, LastPieces
  <2>4. Len(reader.pending) = 1 <=> t = <<>>
    BY <1>1, ReadTypes, TailEmpty
  <2> HIDE DEF h, t
  <2>5. ReaderOK'
    BY <1>1, <1>2, <2>1, <2>4 DEF Complete, ReaderOK, Closed
  <2>6. /\ TextPiece(h) \in Text /\ CallPiece(h) \in Seq(Call)
        /\ TextOf(t) \in Text /\ CallsOf(t) \in Seq(Call)
    <3>1. h \in Item /\ t \in Seq(Item)
      BY <2>2 DEF Item
    <3> QED BY <3>1, Pieces, TextAppend, CallsAppend
  <2>7. Taken' = Taken /\ Unsent' = Unsent /\ Attempting' = Attempting
    <3> DEFINE a == CallsOf(queue)
               b == CallPiece(h)
               c == CallsOf(t)
    <3>2. a \in Seq(Call) /\ b \in Seq(Call) /\ c \in Seq(Call)
      BY <2>6, ReadTypes
    <3>1. a \o b \o c = a \o (b \o c)
      <4> HIDE DEF a, b, c
      <4> QED BY <3>2, CallsAssociate
    <3> QED BY <1>1, <2>1, <2>2, <2>3, <3>1 DEF Taken, Unsent, Attempting
  <2>8. (cons.text \o TextOf(queue) \o TextOf(reader.pending))' =
          cons.text \o TextOf(queue) \o TextOf(reader.pending)
    <3> DEFINE a == cons.text
               b == TextOf(queue)
               c == TextPiece(h)
               d == TextOf(t)
    <3>1. a \in Text /\ b \in Text /\ c \in Text /\ d \in Text
      BY <2>6, ReadTypes
    <3>2. a \o (b \o c) \o d = a \o b \o (c \o d)
      <4> HIDE DEF a, b, c, d
      <4>1. a \o (b \o c) = (a \o b) \o c /\ a \o b \in Text
        <5>1. a \o (b \o c) = (a \o b) \o c
          BY <3>1, TextsAssociate, Zenon
        <5>2. a \o b \in Text
          BY <3>1, ConcatProperties DEF Text
        <5> QED BY <5>1, <5>2
      <4>2. ((a \o b) \o c) \o d = (a \o b) \o (c \o d)
        BY <3>1, <4>1, TextsAssociate
      <4> QED BY <4>1, <4>2
    <3> QED BY <1>1, <2>1, <2>2, <2>3, <3>2
  <2>9. ReadSoFar'
    BY <1>1, <2>1, <2>7, <2>8 DEF Complete, ReadSoFar
  <2> QED BY <2>5, <2>9
<1>4. CASE Canceled /\ reader' = Ends([reader EXCEPT !.pending = <<>>])
  <2>1. /\ reader'.pending = <<>> /\ reader'.calls = reader.calls /\ reader'.pc = "ended"
        /\ reader'.text = reader.text /\ reader'.frags = reader.frags
        /\ reader'.last = reader.last /\ ~reader'.failed /\ reader'.whole = reader.whole
    BY <1>1, <1>2, <1>4 DEF TypeOK, Reader, Ends
  <2>2. ReaderOK'
    BY <1>1, <1>2, <2>1 DEF Complete, ReaderOK, Closed
  <2>3. ReadSoFar'
    BY <1>1, <1>4 DEF Canceled, ReadSoFar, Attempting
  <2> QED BY <2>2, <2>3
<1> QED BY <1>3, <1>4 DEF Send

\* A fragment's call, and the others.
LEMMA FragmentCases ==
  ASSUME NEW calls \in Seq([index : Indices, parts : Call]), NEW i \in Indices, NEW part \in Nat,
         NEW k \in DOMAIN WithFragment(calls, i, part)
  PROVE  LET call == WithFragment(calls, i, part)[k]
         IN  \/ k \in DOMAIN calls /\ call = calls[k]
             \/ k \in DOMAIN calls /\ call.index = calls[k].index /\ calls[k].index = i
                /\ call.parts = Append(calls[k].parts, part)
             \/ call.index = i /\ call.parts = <<part>>
<1> DEFINE C == [index : Indices, parts : Call]
           more == WithFragment(calls, i, part)
<1>1. CASE \E n \in DOMAIN calls : calls[n].index = i
  <2>1. more = [n \in DOMAIN calls |->
           IF calls[n].index = i THEN [calls[n] EXCEPT !.parts = Append(@, part)] ELSE calls[n]]
    BY <1>1 DEF WithFragment
  <2>2. k \in DOMAIN calls
    BY <2>1
  <2>3. calls[k] \in C
    BY <2>2, Elements
  <2>4. CASE calls[k].index = i
    <3>1. more[k] = [calls[k] EXCEPT !.parts = Append(@, part)]
      BY <2>1, <2>2, <2>4
    <3> QED BY <2>2, <2>3, <2>4, <3>1
  <2>5. CASE calls[k].index # i
    BY <2>1, <2>2, <2>5
  <2> QED BY <2>4, <2>5
<1>2. CASE ~ \E n \in DOMAIN calls : calls[n].index = i
  <2> DEFINE c == [index |-> i, parts |-> <<part>>]
  <2>1. more = Append(calls, c)
    BY <1>2 DEF WithFragment
  <2>2. c \in C /\ c.index = i /\ c.parts = <<part>>
    <3>1. <<part>> \in Call
      BY Singles DEF Call
    <3> QED BY <3>1
  <2> HIDE DEF c, C, more
  <2>3. /\ DOMAIN calls = 1 .. Len(calls) /\ DOMAIN more = 1 .. Len(calls) + 1 /\ Len(calls) \in Nat
        /\ more[Len(calls) + 1] = c /\ \A n \in DOMAIN calls : more[n] = calls[n]
    BY <2>1, <2>2, AppendProperties DEF C
  <2>4. k \in DOMAIN calls \/ k = Len(calls) + 1
    BY <2>3 DEF more
  <2> QED BY <2>2, <2>3, <2>4 DEF more
<1> QED BY <1>1, <1>2

LEMMA ReadFragmentReader ==
  ASSUME TypeOK, Complete, ReadFragment
  PROVE  ReaderOK'
<1>1. /\ reader.pc = "reading" /\ reader.pending = <<>> /\ protocol \in {"openai", "anthropic"}
      /\ ~reader.last /\ ~reader.failed /\ ~reader.whole
  BY ReadingFacts DEF ReadFragment, Reading
<1>2. UNCHANGED <<protocol, queue, errq, cons, gone>>
  BY DEF ReadFragment
<1> DEFINE p == Len(reader.frags) + 1
           S == Indices \cup Nat
           C == [index : Indices, parts : Call]
<1>3. PICK i \in Indices :
        reader' = [Heard(reader) EXCEPT !.calls = WithFragment(@, i, p), !.frags = Append(@, i)]
  BY DEF ReadFragment
<1>4. /\ reader'.pending = <<>> /\ reader'.pc = "reading"
      /\ reader'.calls = WithFragment(reader.calls, i, p) /\ reader'.frags = Append(reader.frags, i)
      /\ ~reader'.last /\ ~reader'.failed /\ ~reader'.whole
  BY <1>1, <1>3 DEF TypeOK, Reader, Heard
<1>5. reader.calls \in Seq(C) /\ reader.frags \in Seq(S) /\ i \in S
  BY ReadTypes
<1> HIDE DEF S, C
<1>6. /\ Len(reader.frags) \in Nat /\ DOMAIN reader.frags = 1 .. Len(reader.frags)
      /\ DOMAIN reader'.frags = 1 .. p /\ p \in Nat /\ reader'.frags[p] = i
      /\ \A n \in DOMAIN reader.frags : reader'.frags[n] = reader.frags[n]
  BY <1>4, <1>5, AppendProperties
<1> HIDE DEF p
<1>7. p \in DOMAIN reader'.frags /\ \A n \in DOMAIN reader.frags : n \in DOMAIN reader'.frags
  BY <1>6 DEF p
<1>8. ASSUME NEW k \in DOMAIN reader'.calls
      PROVE  /\ reader'.calls[k].parts # <<>>
             /\ \A j \in DOMAIN reader'.calls[k].parts :
                  /\ reader'.calls[k].parts[j] \in DOMAIN reader'.frags
                  /\ reader'.frags[reader'.calls[k].parts[j]] = reader'.calls[k].index
  <2> DEFINE call == reader'.calls[k]
             old == reader.calls[k]
  <2>1. \/ k \in DOMAIN reader.calls /\ call = old
        \/ k \in DOMAIN reader.calls /\ call.index = old.index /\ old.index = i
           /\ call.parts = Append(old.parts, p)
        \/ call.index = i /\ call.parts = <<p>>
    <3>1. k \in DOMAIN WithFragment(reader.calls, i, p) /\ call = WithFragment(reader.calls, i, p)[k]
      BY <1>4, <1>8
    <3>2. reader.calls \in Seq([index : Indices, parts : Call]) /\ i \in Indices /\ p \in Nat
      BY <1>3, <1>6, ReadTypes
    <3> DEFINE more == WithFragment(reader.calls, i, p)
    <3>3. \/ k \in DOMAIN reader.calls /\ more[k] = reader.calls[k]
          \/ k \in DOMAIN reader.calls /\ more[k].index = reader.calls[k].index /\ reader.calls[k].index = i
             /\ more[k].parts = Append(reader.calls[k].parts, p)
          \/ more[k].index = i /\ more[k].parts = <<p>>
      BY <3>1, <3>2, FragmentCases, Zenon
    <3> HIDE DEF more
    <3>4. call = more[k]
      BY <3>1 DEF more
    <3> HIDE DEF call
    <3> QED BY <3>3, <3>4 DEF old
  <2>2. k \in DOMAIN reader.calls =>
          /\ old \in C /\ old.parts # <<>>
          /\ \A j \in DOMAIN old.parts :
               old.parts[j] \in DOMAIN reader.frags /\ reader.frags[old.parts[j]] = old.index
    BY <1>5, Elements DEF Complete, ReaderOK
  <2> HIDE DEF call, old
  <2>3. CASE k \in DOMAIN reader.calls /\ call = old
    BY <1>6, <1>7, <2>2, <2>3 DEF call
  <2>4. CASE k \in DOMAIN reader.calls /\ call.index = old.index /\ old.index = i
             /\ call.parts = Append(old.parts, p)
    <3> DEFINE parts == old.parts
               more == call.parts
    <3>1. parts \in Seq(Nat)
      BY <2>2, <2>4 DEF C, Call
    <3> HIDE DEF parts, more
    <3>2. more = Append(parts, p)
      BY <2>4 DEF parts, more
    <3>3. /\ DOMAIN parts = 1 .. Len(parts) /\ Len(parts) \in Nat
          /\ DOMAIN more = 1 .. Len(parts) + 1 /\ more # <<>>
          /\ more[Len(parts) + 1] = p /\ \A j \in DOMAIN parts : more[j] = parts[j]
      <4>1. /\ Len(parts) \in Nat /\ more \in Seq(Nat) /\ Len(more) = Len(parts) + 1
            /\ more[Len(parts) + 1] = p /\ \A j \in 1 .. Len(parts) : more[j] = parts[j]
        BY <1>6, <3>1, <3>2, AppendProperties
      <4>2. DOMAIN parts = 1 .. Len(parts) /\ DOMAIN more = 1 .. Len(more)
        BY <3>1, <4>1
      <4> QED BY <4>1, <4>2
    <3>4. \A j \in DOMAIN more : j \in DOMAIN parts \/ j = Len(parts) + 1
      BY <3>3
    <3>5. \A j \in DOMAIN more :
            more[j] \in DOMAIN reader'.frags /\ reader'.frags[more[j]] = call.index
      BY <1>6, <1>7, <2>2, <2>4, <3>3, <3>4 DEF parts
    <3> QED BY <3>3, <3>5 DEF more, call
  <2>5. CASE call.index = i /\ call.parts = <<p>>
    BY <1>6, <1>7, <2>5 DEF call
  <2> QED BY <2>1, <2>3, <2>4, <2>5
<1> QED BY <1>1, <1>2, <1>4, <1>8 DEF ReaderOK

LEMMA CallPlaced ==
  ASSUME NEW s \in Seq(Call), NEW t \in Seq(Call), NEW m \in DOMAIN t
  PROVE  Len(s) + m \in DOMAIN (s \o t) /\ (s \o t)[Len(s) + m] = t[m]
<1>1. Len(s) \in Nat /\ Len(t) \in Nat /\ m \in 1 .. Len(t)
  BY Elements
<1>2. (Len(s) + m) - Len(s) = m /\ ~(Len(s) + m <= Len(s)) /\ Len(s) + m \in 1 .. Len(s) + Len(t)
  BY <1>1
<1> DEFINE a == s \o t
<1>3. /\ a \in Seq(Call) /\ Len(a) = Len(s) + Len(t)
      /\ \A k \in 1 .. Len(s) + Len(t) : a[k] = IF k <= Len(s) THEN s[k] ELSE t[k - Len(s)]
  BY ConcatProperties
<1> HIDE DEF a
<1>4. Len(s) + m \in DOMAIN a
  BY <1>2, <1>3, Elements
<1> QED BY <1>2, <1>3, <1>4 DEF a

LEMMA CallReplaced ==
  ASSUME NEW s \in Seq(Call), NEW t \in Seq(Call), NEW m \in DOMAIN t, NEW e \in Call
  PROVE  s \o [t EXCEPT ![m] = e] = [s \o t EXCEPT ![Len(s) + m] = e]
<1> DEFINE u == [t EXCEPT ![m] = e]
           a == s \o t
           b == [a EXCEPT ![Len(s) + m] = e]
           c == s \o u
<1>1. /\ Len(s) \in Nat /\ Len(t) \in Nat /\ m \in 1 .. Len(t) /\ DOMAIN t = 1 .. Len(t)
      /\ \A k \in 1 .. Len(t) : t[k] \in Call
  BY Elements
<1>2. u = [k \in DOMAIN t |-> u[k]] /\ u[m] = e /\ \A k \in DOMAIN t : k # m => u[k] = t[k]
  BY <1>1
<1>3. \A k \in DOMAIN t : u[k] \in Call
  BY <1>1, <1>2
<1> HIDE DEF u
<1>4. u \in Seq(Call) /\ Len(u) = Len(t)
  BY <1>2, <1>3, Mapped
<1>5. /\ a \in Seq(Call) /\ Len(a) = Len(s) + Len(t)
      /\ \A k \in 1 .. Len(s) + Len(t) : a[k] = IF k <= Len(s) THEN s[k] ELSE t[k - Len(s)]
  BY ConcatProperties
<1>6. /\ c \in Seq(Call) /\ Len(c) = Len(s) + Len(t)
      /\ \A k \in 1 .. Len(s) + Len(t) : c[k] = IF k <= Len(s) THEN s[k] ELSE u[k - Len(s)]
  <2>1. /\ c \in Seq(Call) /\ Len(c) = Len(s) + Len(u)
        /\ \A k \in 1 .. Len(s) + Len(u) : c[k] = IF k <= Len(s) THEN s[k] ELSE u[k - Len(s)]
    BY <1>4, ConcatProperties
  <2> QED BY <1>4, <2>1
<1> HIDE DEF a, c
<1>7. Len(s) + m \in 1 .. Len(s) + Len(t) /\ DOMAIN a = 1 .. Len(s) + Len(t)
  BY <1>1, <1>5, Elements
<1>8. b = [k \in DOMAIN a |-> b[k]] /\ b[Len(s) + m] = e /\ \A k \in DOMAIN a : k # Len(s) + m => b[k] = a[k]
  BY <1>7
<1>9. \A k \in DOMAIN a : b[k] \in Call
  BY <1>5, <1>8, Elements
<1> HIDE DEF b
<1>10. b \in Seq(Call) /\ Len(b) = Len(a)
  BY <1>5, <1>8, <1>9, Mapped
<1>11. ASSUME NEW k \in 1 .. Len(c) PROVE c[k] = b[k]
  <2>1. CASE k <= Len(s)
    <3>1. k # Len(s) + m
      BY <1>1, <2>1
    <3> QED BY <1>5, <1>6, <1>7, <1>8, <2>1, <3>1
  <2>2. CASE k > Len(s) /\ k # Len(s) + m
    <3>1. k - Len(s) \in DOMAIN t /\ k - Len(s) # m /\ ~(k <= Len(s))
      BY <1>1, <1>6, <2>2
    <3> QED BY <1>2, <1>5, <1>6, <1>7, <1>8, <2>2, <3>1
  <2>3. CASE k = Len(s) + m
    <3>1. k - Len(s) = m /\ ~(k <= Len(s))
      BY <1>1, <2>3
    <3> QED BY <1>2, <1>6, <1>8, <2>3, <3>1
  <2> QED BY <1>1, <1>6, <2>1, <2>2, <2>3
<1>12. c = b
  BY <1>5, <1>6, <1>10, <1>11, SeqEqual
<1> QED BY <1>12 DEF a, b, c, u

LEMMA ReadFragmentCalls ==
  ASSUME TypeOK, Complete, ReadFragment, ~gone, Attempting
  PROVE  /\ AreCallsOf(cons.calls \o Taken \o Unsent, reader.frags)'
         /\ Taken' = Taken
<1>1. /\ reader.pc = "reading" /\ reader.pending = <<>> /\ protocol \in {"openai", "anthropic"}
      /\ ~reader.last /\ ~reader.failed /\ ~reader.whole
      /\ Unsent = [k \in DOMAIN reader.calls |-> reader.calls[k].parts]
  BY ReadingFacts DEF ReadFragment, Reading
<1>2. UNCHANGED <<protocol, queue, errq, cons, gone>>
  BY DEF ReadFragment
<1> DEFINE p == Len(reader.frags) + 1
           S == Indices \cup Nat
           C == [index : Indices, parts : Call]
           X == cons.calls \o Taken
           U == Unsent
           all == X \o U
           f == reader.frags
           calls == reader.calls
<1>3. PICK i \in Indices :
        /\ protocol = "anthropic" /\ calls = <<>> => i \notin ToSet(f)
        /\ protocol = "anthropic" /\ calls # <<>> => Known(i)
        /\ reader' = [Heard(reader) EXCEPT !.calls = WithFragment(@, i, p), !.frags = Append(@, i)]
  BY DEF ReadFragment
<1>4. /\ reader'.pending = <<>>
      /\ reader'.calls = WithFragment(calls, i, p) /\ reader'.frags = Append(f, i)
      /\ ~reader'.last
  BY <1>1, <1>3 DEF TypeOK, Reader, Heard
<1>5. /\ calls \in Seq(C) /\ f \in Seq(S) /\ i \in S /\ X \in Seq(Call) /\ U \in Seq(Call)
      /\ Len(f) \in Nat /\ p \in Nat /\ Len(X) \in Nat
  BY ReadTypes, LenProperties
<1>6. AreCallsOf(all, f)
  BY DEF Complete, ReadSoFar
<1>7. Taken' = Taken
  BY <1>1, <1>2, <1>4 DEF Taken
<1>8. Unsent' = [k \in DOMAIN reader'.calls |-> reader'.calls[k].parts]
  BY <1>4 DEF Unsent
<1>9. /\ DOMAIN U = DOMAIN calls
      /\ \A k \in DOMAIN calls : U[k] = calls[k].parts /\ f[U[k][1]] = calls[k].index
  <2>1. DOMAIN U = DOMAIN calls /\ \A k \in DOMAIN calls : U[k] = calls[k].parts
    BY <1>1
  <2>2. ASSUME NEW k \in DOMAIN calls PROVE f[calls[k].parts[1]] = calls[k].index
    <3>1. calls[k].parts \in Seq(Nat) /\ calls[k].parts # <<>>
      <4>1. calls[k] \in C
        BY <1>5, <2>2, Elements
      <4> QED BY <2>2, <4>1 DEF Complete, ReaderOK, Call
    <3>2. 1 \in DOMAIN calls[k].parts
      BY <3>1, EmptySeq, LenProperties, Elements
    <3> QED BY <2>2, <3>2 DEF Complete, ReaderOK
  <2> QED BY <2>1, <2>2
<1>10. all \in Seq(Call) /\ \A k \in DOMAIN U : Len(X) + k \in DOMAIN all /\ all[Len(X) + k] = U[k]
  BY <1>5, ConcatProperties, CallPlaced
<1> HIDE DEF p, S, C, X, U, all
<1>11. CASE \E k \in DOMAIN calls : calls[k].index = i
  <2>1. PICK m \in DOMAIN calls : calls[m].index = i
    BY <1>11
  <2> DEFINE c == Append(U[m], p)
             more == [U EXCEPT ![m] = c]
  <2>2. \A k \in DOMAIN calls : calls[k].index = i <=> k = m
    <3>1. ASSUME NEW k \in DOMAIN calls, calls[k].index = i PROVE k = m
      <4> DEFINE a == Len(X) + k
                 b == Len(X) + m
      <4>1. a \in DOMAIN all /\ b \in DOMAIN all /\ all[a] = U[k] /\ all[b] = U[m]
        BY <1>9, <1>10
      <4>2. 1 \in DOMAIN all[a] /\ 1 \in DOMAIN all[b]
        BY <1>5, <1>6, <1>10, <4>1, CallsInside
      <4>3. f[all[a][1]] = f[all[b][1]]
        BY <1>9, <2>1, <3>1, <4>1
      <4>4. a = b
        <5> HIDE DEF a, b
        <5> QED BY <1>6, <4>1, <4>2, <4>3, CallsApart
      <4> QED BY <1>5, <1>9, <4>4, Elements
    <3> QED BY <2>1, <3>1
  <2>3. U[m] \in Seq(Nat) /\ c \in Call
    <3>1. U[m] \in Seq(Nat)
      BY <1>5, <1>9, Elements DEF Call
    <3> QED BY <1>5, <3>1, AppendProperties DEF Call
  <2>4. Unsent' = more
    <3>1. reader'.calls = [k \in DOMAIN calls |->
            IF calls[k].index = i THEN [calls[k] EXCEPT !.parts = Append(@, p)] ELSE calls[k]]
      BY <1>4, <1>11 DEF WithFragment
    <3>2. \A k \in DOMAIN calls : calls[k] \in C
      BY <1>5, Elements
    <3>3. \A k \in DOMAIN calls : reader'.calls[k].parts = IF k = m THEN Append(calls[k].parts, p) ELSE calls[k].parts
      BY <2>2, <3>1, <3>2 DEF C
    <3>4. Unsent' = [k \in DOMAIN calls |-> IF k = m THEN Append(calls[k].parts, p) ELSE calls[k].parts]
      BY <1>8, <3>1, <3>3
    <3>5. U = [k \in DOMAIN calls |-> calls[k].parts]
      BY <1>1 DEF U
    <3> QED BY <3>4, <3>5
  <2> HIDE DEF c
  <2>5. X \o more = [all EXCEPT ![Len(X) + m] = c]
    <3>1. m \in DOMAIN U
      BY <1>9
    <3>2. X \o [U EXCEPT ![m] = c] = [X \o U EXCEPT ![Len(X) + m] = c]
      <4>1. X \in Seq(Call) /\ U \in Seq(Call) /\ c \in Call
        BY <1>5, <2>3
      <4> QED BY <3>1, <4>1, CallReplaced
    <3> QED BY <3>2 DEF all
  <2>6. /\ Len(X) + m \in DOMAIN all /\ all[Len(X) + m] = U[m] /\ i = f[U[m][1]]
    BY <1>9, <1>10, <2>1
  <2> DEFINE n == Len(X) + m
  <2>7. [all EXCEPT ![n] = c] = [all EXCEPT ![n] = Append(@, Len(f) + 1)]
    BY <2>6 DEF c, p
  <2>8. AreCallsOf([all EXCEPT ![n] = Append(@, Len(f) + 1)], Append(f, i))
    <3>1. n \in DOMAIN all /\ i = f[all[n][1]]
      BY <2>6
    <3> HIDE DEF n
    <3> QED BY <1>5, <1>6, <1>10, <3>1, CallContinues
  <2>9. (cons.calls \o Taken)' = X
    BY <1>2, <1>7 DEF X
  <2> QED BY <1>4, <1>7, <2>4, <2>5, <2>7, <2>8, <2>9
<1>12. CASE ~ \E k \in DOMAIN calls : calls[k].index = i
  <2> DEFINE c == <<p>>
  <2>1. c \in Call
    BY <1>5, Singles DEF Call
  <2>2. Unsent' = Append(U, c)
    <3> DEFINE d == [index |-> i, parts |-> c]
               more == Append(calls, d)
    <3>1. reader'.calls = more
      BY <1>4, <1>12 DEF WithFragment
    <3>2. d \in C /\ d.parts = c
      BY <2>1 DEF C
    <3> HIDE DEF d, c
    <3>3. /\ DOMAIN calls = 1 .. Len(calls) /\ Len(calls) \in Nat /\ DOMAIN more = 1 .. Len(calls) + 1
          /\ more[Len(calls) + 1] = d /\ \A k \in DOMAIN calls : more[k] = calls[k]
          /\ Len(more) = Len(calls) + 1 /\ more \in Seq(C)
      BY <1>5, <3>2, AppendProperties
    <3> HIDE DEF more
    <3>4. Len(U) = Len(calls) /\ DOMAIN U = 1 .. Len(U)
      BY <1>5, <1>9, <3>3, Elements
    <3> DEFINE v == Unsent'
    <3>5. v = [k \in DOMAIN more |-> more[k].parts]
      BY <1>8, <3>1
    <3> HIDE DEF v
    <3>6. \A k \in 1 .. Len(U) : v[k] = U[k]
      BY <1>9, <3>3, <3>4, <3>5
    <3>7. v[Len(U) + 1] = c
      BY <3>2, <3>3, <3>4, <3>5
    <3>8. v \in Seq(Call)
      <4>1. more \in Seq([index : Indices, parts : Call])
        BY <3>3 DEF C
      <4> QED BY <3>5, <4>1, AssembledPieces
    <3>9. Len(v) = Len(U) + 1
      <4>1. DOMAIN v = 1 .. Len(U) + 1
        BY <3>3, <3>4, <3>5
      <4>2. DOMAIN v = 1 .. Len(v) /\ Len(v) \in Nat /\ Len(U) \in Nat
        BY <1>5, <3>8, Elements
      <4> QED BY <4>1, <4>2
    <3>10. v = Append(U, c)
      BY <1>5, <2>1, <3>6, <3>7, <3>8, <3>9, IsAppend DEF c
    <3> QED BY <3>10 DEF v
  <2> HIDE DEF c
  <2>3. X \o Append(U, c) = Append(all, c)
    BY <1>5, <2>1, ConcatAppend DEF all
  <2>4. \A n \in DOMAIN all : f[all[n][1]] # i
    <3>1. CASE protocol = "anthropic"
      <4>1. calls = <<>>
        BY <1>3, <1>12, <3>1 DEF Known
      <4>2. i \notin ToSet(f)
        BY <1>3, <3>1, <4>1
      <4>3. \A n \in DOMAIN all : 1 \in DOMAIN all[n] /\ all[n][1] \in DOMAIN f
        BY <1>5, <1>6, <1>10, CallsInside
      <4> QED BY <4>2, <4>3 DEF ToSet
    <3>2. CASE protocol = "openai"
      <4>1. X = <<>>
        <5>1. cons.calls = <<>> /\ Taken = <<>>
          BY <1>1, <3>2 DEF Complete, ReadSoFar
        <5> QED BY <5>1, CallsNeutral DEF X
      <4>2. all = U
        BY <1>5, <4>1, CallsNeutral DEF all
      <4> QED BY <1>9, <1>12, <4>2
    <3> QED BY <1>1, <3>1, <3>2
  <2>5. AreCallsOf(Append(all, <<Len(f) + 1>>), Append(f, i))
    BY <1>5, <1>6, <1>10, <2>4, CallBegins
  <2>6. (cons.calls \o Taken)' = X
    BY <1>2, <1>7 DEF X
  <2> QED BY <1>4, <1>7, <2>2, <2>3, <2>5, <2>6 DEF c, p
<1> QED BY <1>11, <1>12

LEMMA ReadFragmentComplete ==
  ASSUME TypeOK, Complete, ReadFragment
  PROVE  ReaderOK' /\ ReadSoFar'
<1>1. UNCHANGED <<protocol, queue, errq, cons, gone>> /\ reader.pending = <<>>
  BY ReadingFacts DEF ReadFragment, Reading
<1>2. reader'.pending = <<>> /\ reader'.text = reader.text /\ reader'.last = reader.last
  BY <1>1 DEF TypeOK, Reader, ReadFragment, Heard
<1>3. ReadSoFar'
  <2> SUFFICES ASSUME ~gone, Attempting PROVE ReadSoFar'
    BY <1>1 DEF ReadSoFar, Attempting
  <2> QED BY <1>1, <1>2, ReadFragmentCalls DEF Complete, ReadSoFar
<1> QED BY <1>3, ReadFragmentReader

LEMMA ReaderComplete ==
  ASSUME TypeOK, TypeOK', Complete, ReaderStep
  PROVE  Complete'
<1>1. ReaderOK' /\ ReadSoFar'
  <2>1. CASE Refuse \/ Open
    BY <2>1, OpeningComplete
  <2>2. CASE OpenWhole
    BY <2>2, OpenWholeComplete
  <2>3. CASE ReadDelta
    BY <2>3, ReadDeltaComplete
  <2>4. CASE ReadFragment
    BY <2>4, ReadFragmentComplete
  <2>5. CASE ReadBlockStop
    BY <2>5, ReadBlockStopComplete
  <2>6. CASE ReadEnd
    BY <2>6, ReadEndComplete
  <2>7. CASE ReadError
    BY <2>7, ReadErrorComplete
  <2>8. CASE Send
    BY <2>8, SendComplete
  <2> QED BY <2>1, <2>2, <2>3, <2>4, <2>5, <2>6, <2>7, <2>8 DEF ReaderStep
<1> QED BY <1>1, ReaderAlone

\* The attempt takes nothing more, and has not succeeded.
LEMMA Abandoned ==
  ASSUME Complete, UNCHANGED <<protocol, reader, gone>>, queue' = queue \/ queue # <<>>,
         cons'.pc \in {"drain", "returned"}, cons'.result # "ok",
         cons'.pc = "drain" => cons'.result = "none",
         cons'.events = cons.events, cons'.errs = cons.errs
  PROVE  Complete'
<1>1. ~Attempting'
  BY DEF Attempting
<1>2. ReaderOK'
  BY <1>1 DEF Complete, ReaderOK, Closed
<1>3. ConsumerOK'
  BY <1>1 DEF Complete, ConsumerOK, Closed
<1>4. ReadSoFar' /\ ReplyComplete'
  BY <1>1 DEF ReadSoFar, ReplyComplete
<1> QED BY <1>2, <1>3, <1>4 DEF Complete

\* What was taken is not touched any more.
LEMMA Untouched ==
  ASSUME Complete, UNCHANGED <<protocol, reader, queue, errq>>, gone => gone',
         cons'.pc = cons.pc \/ (cons.pc = "returned" /\ cons'.pc = "done"),
         cons'.text = cons.text, cons'.calls = cons.calls, cons'.result = cons.result,
         cons'.events = cons.events, cons'.errs = cons.errs, cons'.committed = cons.committed
  PROVE  Complete'
<1>1. Attempting' = Attempting /\ Taken' = Taken /\ Unsent' = Unsent /\ Closed' = Closed
  BY DEF Attempting, Taken, Unsent, Closed
<1>2. ReaderOK'
  BY <1>1 DEF Complete, ReaderOK
<1>3. ConsumerOK'
  BY <1>1 DEF Complete, ConsumerOK, Attempting
<1>4. ReadSoFar'
  BY <1>1 DEF Complete, ReadSoFar
<1>5. ReplyComplete'
  BY DEF Complete, ReplyComplete
<1> QED BY <1>2, <1>3, <1>4, <1>5 DEF Complete

LEMMA SendChatComplete ==
  ASSUME TypeOK, Complete, SendChat
  PROVE  Complete'
<1>1. /\ cons.pc = "opening" /\ reader.pc = "opening" /\ reader.pending = <<>> /\ reader.calls = <<>>
      /\ ~reader.failed /\ cons.events /\ cons.errs
  BY DEF SendChat, At, Complete, ReaderOK, ConsumerOK
<1>2. PICK reply \in WholeReplies :
        /\ reader' = Read(reply)
        /\ cons' = [Returns("ok") EXCEPT !.text = reply.text, !.thought = reply.thought,
                                         !.calls = reply.calls]
  BY DEF SendChat
<1>3. /\ reader'.pc = "ended" /\ reader'.pending = <<>> /\ reader'.calls = <<>> /\ ~reader'.failed
      /\ reader'.text = reply.text /\ reader'.frags = [i \in DOMAIN reply.calls |-> i]
  BY <1>1, <1>2 DEF TypeOK, Reader, Read, Ends
<1>4. /\ cons'.pc = "returned" /\ cons'.text = reply.text /\ cons'.calls = reply.calls
      /\ cons'.events /\ cons'.errs
  BY <1>1, <1>2 DEF TypeOK, Consumer, Returns
<1>5. ReaderOK'
  BY <1>3 DEF ReaderOK, Closed
<1>6. ConsumerOK'
  BY <1>3, <1>4 DEF ConsumerOK, Closed
<1>7. ReadSoFar'
  BY <1>4 DEF ReadSoFar, Attempting
<1>8. ReplyComplete'
  BY <1>3, <1>4, WholeCalls DEF ReplyComplete
<1> QED BY <1>5, <1>6, <1>7, <1>8 DEF Complete

LEMMA OpenedComplete ==
  ASSUME TypeOK, Complete, Opened
  PROVE  Complete'
<1>1. cons.pc = "opening" /\ reader.pc # "opening" /\ UNCHANGED <<protocol, reader, queue, errq, gone>>
  BY DEF Opened, At
<1>2. CASE cons' = Returns("error")
  BY <1>1, <1>2, Abandoned DEF TypeOK, Consumer, Returns
<1>3. CASE cons' = [cons EXCEPT !.pc = "select"]
  <2>1. /\ cons'.pc = "select" /\ cons'.text = cons.text /\ cons'.calls = cons.calls
        /\ cons'.result = cons.result /\ cons'.events = cons.events /\ cons'.errs = cons.errs
        /\ cons'.committed = cons.committed
    BY <1>3 DEF TypeOK, Consumer
  <2>2. Attempting' /\ Attempting /\ Taken' = Taken /\ Unsent' = Unsent /\ Closed' = Closed
    BY <1>1, <2>1 DEF Attempting, Taken, Unsent, Closed
  <2>3. ReaderOK'
    BY <1>1, <2>2 DEF Complete, ReaderOK
  <2>4. ConsumerOK'
    BY <1>1, <2>1, <2>2 DEF Complete, ConsumerOK
  <2>5. ReadSoFar'
    BY <1>1, <2>1, <2>2 DEF Complete, ReadSoFar
  <2>6. ReplyComplete'
    BY <1>1, <2>1 DEF Complete, ReplyComplete
  <2> QED BY <2>3, <2>4, <2>5, <2>6 DEF Complete
<1> QED BY <1>2, <1>3 DEF Opened

LEMMA EmptyConcat ==
  ASSUME NEW S, NEW s \in Seq(S), NEW t \in Seq(S), s \o t = <<>>
  PROVE  s = <<>> /\ t = <<>>
<1>1. Len(s) \in Nat /\ Len(t) \in Nat /\ Len(s \o t) = Len(s) + Len(t) /\ Len(s \o t) = 0
  BY LenProperties, ConcatProperties
<1>2. Len(s) = 0 /\ Len(t) = 0
  BY <1>1
<1> QED BY <1>2, EmptySeq

LEMMA TakeEventComplete ==
  ASSUME TypeOK, Complete, TakeEvent
  PROVE  Complete'
<1> DEFINE h == Head(queue)
           t == Tail(queue)
<1>1. /\ cons.pc = "select" /\ cons.events /\ queue # <<>> /\ queue' = t
      /\ UNCHANGED <<protocol, reader, errq, gone>>
  BY DEF TakeEvent, At
<1>2. /\ h \in Chunk /\ t \in Seq(Chunk)
      /\ TextOf(queue) = TextPiece(h) \o TextOf(t) /\ CallsOf(queue) = CallPiece(h) \o CallsOf(t)
  BY <1>1, ReadTypes, HeadPieces
<1>3. cons.result = "none" /\ reader.pc # "opening"
  BY <1>1 DEF Complete, ConsumerOK, Attempting
<1>4. \/ /\ cons'.pc = "returned" /\ cons'.result = "noise"
         /\ cons'.events = cons.events /\ cons'.errs = cons.errs
      \/ /\ cons'.pc = "select" /\ cons'.result = "none"
         /\ cons'.events = cons.events /\ cons'.errs = cons.errs
         /\ cons'.text = cons.text \o TextPiece(h) /\ cons'.calls = cons.calls \o CallPiece(h)
  <2>1. cons.text \o <<>> = cons.text /\ cons.calls \o <<>> = cons.calls
    BY ReadTypes, TextNeutral, CallsNeutral
  <2>2. CASE h.type = "thinking_delta"
    <3>1. cons' = [cons EXCEPT !.thought = @ \/ ~cons.committed]
      BY <2>2 DEF TakeEvent
    <3>2. TextPiece(h) = <<>> /\ CallPiece(h) = <<>>
      BY <2>2 DEF TextPiece, CallPiece
    <3> HIDE DEF h
    <3> QED BY <1>1, <1>3, <2>1, <3>1, <3>2 DEF TypeOK, Consumer
  <2>3. CASE h.type = "tool_call"
    <3> DEFINE call == h.call
    <3>1. cons' = [cons EXCEPT !.calls = Append(@, call)]
      BY <2>3 DEF TakeEvent
    <3>2. TextPiece(h) = <<>> /\ CallPiece(h) = <<call>> /\ call \in Call
      BY <1>2, <2>3, ChunkFields
    <3> HIDE DEF h, call
    <3>3. Append(cons.calls, call) = cons.calls \o <<call>>
      BY <3>2, ReadTypes, AppendIsConcat
    <3> QED BY <1>1, <1>3, <2>1, <3>1, <3>2, <3>3 DEF TypeOK, Consumer
  <2>4. CASE h.type = "text_delta"
    <3> DEFINE text == h.text
    <3>1. cons' = IF Degenerate(cons.text \o text)
                  THEN [Returns("noise") EXCEPT
                         !.text = SubSeq(cons.text \o text, 1, WordlessTail(cons.text \o text))]
                  ELSE Adds(cons, text)
      BY <2>4 DEF TakeEvent
    <3>2. TextPiece(h) = text /\ CallPiece(h) = <<>>
      BY <1>2, <2>4, ChunkFields
    <3> HIDE DEF h, text
    <3>3. CASE cons' = Adds(cons, text)
      BY <1>1, <1>3, <2>1, <3>2, <3>3 DEF TypeOK, Consumer, Adds
    <3>4. CASE cons' = [Returns("noise") EXCEPT
                         !.text = SubSeq(cons.text \o text, 1, WordlessTail(cons.text \o text))]
      BY <1>1, <3>4 DEF TypeOK, Consumer, Returns
    <3> QED BY <3>1, <3>3, <3>4
  <2> QED BY <1>2, <2>2, <2>3, <2>4, ChunkFields
<1>5. CASE cons'.pc = "returned" /\ cons'.result = "noise"
  BY <1>1, <1>4, <1>5, Abandoned
<1>6. CASE cons'.pc = "select"
  <2>1. /\ cons'.result = "none" /\ cons'.events = cons.events /\ cons'.errs = cons.errs
        /\ cons'.text = cons.text \o TextPiece(h) /\ cons'.calls = cons.calls \o CallPiece(h)
    BY <1>4, <1>6
  <2> HIDE DEF h, t
  <2>2. Attempting' /\ Attempting /\ Unsent' = Unsent /\ Closed' = Closed
    BY <1>1, <1>6 DEF Attempting, Unsent, Closed
  <2>3. ReaderOK'
    BY <1>1, <2>2 DEF Complete, ReaderOK
  <2>4. ConsumerOK'
    BY <1>1, <1>3, <1>6, <2>1, <2>2 DEF Complete, ConsumerOK
  <2>5. ReplyComplete'
    BY <2>1 DEF ReplyComplete
  <2>6. /\ TextPiece(h) \in Text /\ CallPiece(h) \in Seq(Call)
        /\ TextOf(t) \in Text /\ CallsOf(t) \in Seq(Call)
    <3>1. h \in Item /\ t \in Seq(Item)
      BY <1>2 DEF Item
    <3> QED BY <3>1, Pieces, TextAppend, CallsAppend
  <2>7. (cons.text \o TextOf(queue))' = cons.text \o TextOf(queue)
    <3> DEFINE a == cons.text
               b == TextPiece(h)
               c == TextOf(t)
    <3>1. a \in Text /\ b \in Text /\ c \in Text
      BY <2>6, ReadTypes
    <3>2. (a \o b) \o c = a \o (b \o c)
      <4> HIDE DEF a, b, c
      <4> QED BY <3>1, TextsAssociate
    <3> QED BY <1>1, <1>2, <2>1, <3>2
  <2> DEFINE p == CallsOf(reader.pending)
             b == CallPiece(h)
             c == CallsOf(t)
             x == cons.calls
  <2>8. p \in Seq(Call) /\ b \in Seq(Call) /\ c \in Seq(Call) /\ x \in Seq(Call)
    BY <2>6, ReadTypes
  <2>9. Taken = (b \o c) \o p /\ Taken' = c \o p /\ cons'.calls = x \o b
    BY <1>1, <1>2, <2>1 DEF Taken
  <2> HIDE DEF p, b, c, x
  <2>10. c \o p \in Seq(Call)
    BY <2>8, ConcatProperties
  <2>11. (b \o c) \o p = b \o (c \o p) /\ (x \o b) \o (c \o p) = x \o (b \o (c \o p))
    <3> DEFINE d == c \o p
    <3>1. (b \o c) \o p = b \o (c \o p)
      BY <2>8, CallsAssociate
    <3> HIDE DEF d
    <3>2. d \in Seq(Call)
      BY <2>10 DEF d
    <3>3. (x \o b) \o d = x \o (b \o d)
      BY <2>8, <3>2, CallsAssociate, Zenon
    <3> QED BY <3>1, <3>3 DEF d
  <2>12. (cons.calls \o Taken)' = cons.calls \o Taken
    BY <2>9, <2>11 DEF x
  <2>13. Taken = <<>> => b = <<>> /\ Taken' = <<>>
    BY <2>8, <2>9, <2>10, <2>11, EmptyConcat
  <2>14. b = <<>> /\ x = <<>> => x \o b = <<>>
    BY <2>8, CallsNeutral
  <2>15. ReadSoFar'
    BY <1>1, <2>2, <2>7, <2>9, <2>12, <2>13, <2>14 DEF Complete, ReadSoFar, x
  <2> QED BY <2>3, <2>4, <2>5, <2>15 DEF Complete
<1> QED BY <1>4, <1>5, <1>6

\* The stream has ended, and what the reader sent has been taken.
LEMMA SuccessComplete ==
  ASSUME TypeOK, Complete, cons.pc = "select", cons.text' = cons.text, cons.calls' = cons.calls,
         UNCHANGED <<reader, gone>>, Closed, queue = <<>>, ~reader.failed
  PROVE  ReplyComplete'
<1> SUFFICES ASSUME reader.whole, ~gone
    PROVE  cons.text = reader.text /\ AreCallsOf(cons.calls, reader.frags)
  BY DEF ReplyComplete
<1>1. reader.pending = <<>> /\ (reader.calls = <<>> \/ (protocol = "openai" /\ reader.last))
  BY DEF Complete, ReaderOK, Closed
<1>2. Unsent = <<>>
  BY <1>1 DEF Unsent
<1>3. Taken = <<>>
  BY <1>1, NoEvents, CallsNeutral DEF Taken
<1>4. cons.text \o TextOf(queue) \o TextOf(reader.pending) = cons.text
  BY <1>1, NoEvents, ReadTypes, TextNeutral
<1>5. cons.calls \o Taken \o Unsent = cons.calls
  BY <1>2, <1>3, ReadTypes, CallsNeutral
<1> QED BY <1>4, <1>5 DEF Complete, ReadSoFar, Attempting

LEMMA SeesClosedComplete ==
  ASSUME TypeOK, Complete, EventsClosed \/ ErrsClosed
  PROVE  Complete'
<1>1. /\ cons.pc = "select" /\ Closed /\ UNCHANGED <<protocol, reader, queue, errq, gone>>
      /\ cons.result = "none" /\ reader.pc # "opening"
  BY DEF EventsClosed, ErrsClosed, At, Complete, ConsumerOK, Attempting
<1>2. PICK events \in BOOLEAN, errs \in BOOLEAN :
        /\ SeesClosed(events, errs)
        /\ ~events => queue = <<>>
        /\ ~errs => ~reader.failed
  <2>1. CASE EventsClosed
    <3>1. cons.errs \in BOOLEAN /\ queue = <<>> /\ SeesClosed(FALSE, cons.errs)
      BY <2>1 DEF TypeOK, Consumer, EventsClosed
    <3> QED BY <3>1 DEF Complete, ConsumerOK
  <2>2. CASE ErrsClosed
    <3>1. cons.events \in BOOLEAN /\ ~errq /\ SeesClosed(cons.events, FALSE)
      BY <2>2 DEF TypeOK, Consumer, ErrsClosed
    <3>2. ~reader.failed
      BY <1>1, <3>1 DEF Complete, ReaderOK, Attempting
    <3> QED BY <3>1, <3>2 DEF Complete, ConsumerOK
  <2> QED BY <2>1, <2>2
<1>3. /\ cons'.text = cons.text /\ cons'.calls = cons.calls
      /\ cons'.events = events /\ cons'.errs = errs
      /\ \/ ~events /\ ~errs /\ cons'.pc = "returned" /\ cons'.result = "ok"
         \/ cons'.pc = "select" /\ cons'.result = "none"
  BY <1>1, <1>2 DEF TypeOK, Consumer, SeesClosed, Over, Returns
<1>4. /\ Taken' = Taken /\ Unsent' = Unsent /\ Closed' = Closed /\ Attempting
  BY <1>1 DEF Attempting, Taken, Unsent, Closed
<1>5. ReaderOK'
  BY <1>1, <1>4 DEF Complete, ReaderOK
<1>6. ConsumerOK'
  BY <1>1, <1>2, <1>3, <1>4 DEF ConsumerOK
<1>7. ReadSoFar'
  BY <1>1, <1>3, <1>4 DEF Complete, ReadSoFar
<1>8. ReplyComplete'
  <2>1. CASE ~events /\ ~errs
    BY <1>1, <1>2, <1>3, <2>1, SuccessComplete
  <2>2. CASE cons'.result = "none"
    BY <2>2 DEF ReplyComplete
  <2> QED BY <1>3, <2>1, <2>2
<1> QED BY <1>5, <1>6, <1>7, <1>8 DEF Complete

LEMMA TakeErrorComplete ==
  ASSUME TypeOK, Complete, TakeError
  PROVE  Complete'
<1>1. /\ cons.pc = "select" /\ UNCHANGED <<protocol, reader, queue, gone>> /\ cons.result = "none"
  BY DEF TakeError, At, Complete, ConsumerOK
<1>2. /\ cons'.pc \in {"drain", "returned"} /\ cons'.result # "ok"
      /\ cons'.pc = "drain" => cons'.result = "none"
      /\ cons'.events = cons.events /\ cons'.errs = cons.errs
  BY <1>1 DEF TypeOK, Consumer, TakeError, Returns
<1> QED BY <1>1, <1>2, Abandoned

LEMMA DrainComplete ==
  ASSUME TypeOK, Complete, Drain
  PROVE  Complete'
<1>1. cons.pc = "drain" /\ UNCHANGED <<protocol, reader, gone>> /\ cons.result = "none"
  BY DEF Drain, At, Complete, ConsumerOK
<1>2. queue' = queue \/ queue # <<>>
  BY DEF Drain
<1> DEFINE event == Head(queue)
           text == event.text
<1>3. \/ cons' = cons \/ cons' = Returns("error")
      \/ cons' = [Returns("error") EXCEPT !.text = @ \o text]
      \/ cons' = Adds(cons, text)
  BY DEF Drain
<1> HIDE DEF event, text
<1>4. /\ cons'.pc \in {"drain", "returned"} /\ cons'.result # "ok"
      /\ cons'.pc = "drain" => cons'.result = "none"
      /\ cons'.events = cons.events /\ cons'.errs = cons.errs
  <2>1. CASE cons' = cons \/ cons' = Returns("error")
    BY <1>1, <2>1 DEF TypeOK, Consumer, Returns
  <2>2. CASE cons' = [Returns("error") EXCEPT !.text = @ \o text]
    BY <1>1, <2>2 DEF TypeOK, Consumer, Returns
  <2>3. CASE cons' = Adds(cons, text)
    BY <1>1, <2>3 DEF TypeOK, Consumer, Adds
  <2> QED BY <1>3, <2>1, <2>2, <2>3
<1> QED BY <1>1, <1>2, <1>4, Abandoned

LEMMA ConsumerComplete ==
  ASSUME TypeOK, Complete, ConsumerStep \/ Leave \/ UNCHANGED vars
  PROVE  Complete'
<1>1. CASE SendChat
  BY <1>1, SendChatComplete
<1>2. CASE Opened
  BY <1>2, OpenedComplete
<1>3. CASE TakeEvent
  BY <1>3, TakeEventComplete
<1>4. CASE EventsClosed \/ ErrsClosed
  BY <1>4, SeesClosedComplete
<1>5. CASE TakeError
  BY <1>5, TakeErrorComplete
<1>6. CASE Drain
  BY <1>6, DrainComplete
<1>7. CASE IdleTimeout \/ ContextDone
  <2>1. cons' = Returns("error") /\ UNCHANGED <<protocol, reader, queue, gone>>
    BY <1>7 DEF IdleTimeout, ContextDone
  <2>2. /\ cons'.pc = "returned" /\ cons'.result = "error"
        /\ cons'.events = cons.events /\ cons'.errs = cons.errs
    BY <2>1 DEF TypeOK, Consumer, Returns
  <2> QED BY <2>1, <2>2, Abandoned
<1>8. CASE WriteFails
  <2>1. UNCHANGED <<protocol, reader, queue, errq, gone>>
    BY <1>8 DEF WriteFails
  <2>2. CASE cons.pc = "done"
    <3>1. cons' = [cons EXCEPT !.out = <<>>]
      BY <1>8, <2>2 DEF WriteFails
    <3>2. /\ cons'.pc = cons.pc /\ cons'.text = cons.text /\ cons'.calls = cons.calls
          /\ cons'.result = cons.result /\ cons'.events = cons.events /\ cons'.errs = cons.errs
          /\ cons'.committed = cons.committed
      BY <3>1 DEF TypeOK, Consumer
    <3> QED BY <2>1, <3>2, Untouched
  <2>3. CASE cons.pc # "done"
    <3>1. cons' = [Returns("error") EXCEPT !.out = <<>>]
      BY <1>8, <2>3 DEF WriteFails
    <3>2. /\ cons'.pc = "returned" /\ cons'.result = "error"
          /\ cons'.events = cons.events /\ cons'.errs = cons.errs
      BY <3>1 DEF TypeOK, Consumer, Returns
    <3> QED BY <2>1, <3>2, Abandoned
  <2> QED BY <2>2, <2>3
<1>9. CASE Write \/ Deliver \/ GiveUp \/ Leave \/ UNCHANGED vars
  <2>1. UNCHANGED <<protocol, reader, queue, errq>> /\ (gone => gone')
    BY <1>9 DEF Write, Deliver, GiveUp, Leave, vars
  <2>2. /\ cons'.pc = cons.pc \/ (cons.pc = "returned" /\ cons'.pc = "done")
        /\ cons'.text = cons.text /\ cons'.calls = cons.calls /\ cons'.result = cons.result
        /\ cons'.events = cons.events /\ cons'.errs = cons.errs /\ cons'.committed = cons.committed
    <3>1. CASE Write
      BY <3>1 DEF TypeOK, Consumer, Write
    <3>2. CASE Deliver
      BY <3>2 DEF TypeOK, Consumer, Deliver, At, Concludes
    <3>3. CASE GiveUp
      BY <3>3 DEF TypeOK, Consumer, GiveUp, At, Concludes
    <3>4. CASE Leave \/ UNCHANGED vars
      BY <3>4 DEF Leave, vars
    <3> QED BY <1>9, <3>1, <3>2, <3>3, <3>4
  <2> QED BY <2>1, <2>2, Untouched
<1> QED BY <1>1, <1>2, <1>3, <1>4, <1>5, <1>6, <1>7, <1>8, <1>9 DEF ConsumerStep

\* An attempt that succeeds has the whole reply, its text and each call put together
\* from its own fragments, and an error is never a success.
THEOREM RepliesComplete == Spec => []ReplyComplete
<1>1. Init => TypeOK /\ Complete
  BY InitTypes, InitComplete
<1>2. TypeOK /\ Complete /\ [Next]_vars => (TypeOK /\ Complete)'
  BY StepTypes, ReaderComplete, ConsumerComplete DEF Next
<1>3. Complete => ReplyComplete
  BY DEF Complete
<1> QED BY <1>1, <1>2, <1>3, PTL DEF Spec

-----------------------------------------------------------------------------
(* What is streamed is a beginning of the text, without markup and noise. *)

\* What a text and a longer one have in common.
LEMMA Longer ==
  ASSUME NEW text \in Text, NEW delta \in Text
  PROVE  /\ text \o delta \in Text /\ Len(text) \in Nat /\ Len(delta) \in Nat
         /\ Len(text \o delta) = Len(text) + Len(delta)
         /\ \A k \in 1 .. Len(text) : (text \o delta)[k] = text[k]
         /\ \A k \in 1 .. Len(delta) : (text \o delta)[Len(text) + k] = delta[k]
<1> DEFINE S == Tokens \cup {"w"}
           c == text \o delta
<1>1. text \in Seq(S) /\ delta \in Seq(S) /\ Len(text) \in Nat /\ Len(delta) \in Nat
  BY DEF Text
<1> HIDE DEF S
<1>2. /\ c \in Seq(S) /\ Len(c) = Len(text) + Len(delta)
      /\ \A k \in 1 .. Len(text) + Len(delta) : c[k] = IF k <= Len(text) THEN text[k] ELSE delta[k - Len(text)]
  BY <1>1, ConcatProperties
<1> HIDE DEF c
<1>3. ASSUME NEW k \in 1 .. Len(text) PROVE c[k] = text[k]
  BY <1>1, <1>2
<1>4. ASSUME NEW k \in 1 .. Len(delta) PROVE c[Len(text) + k] = delta[k]
  <2>1. /\ Len(text) + k \in 1 .. Len(text) + Len(delta) /\ ~(Len(text) + k <= Len(text))
        /\ (Len(text) + k) - Len(text) = k
    BY <1>1
  <2> QED BY <1>2, <2>1
<1> QED BY <1>1, <1>2, <1>3, <1>4 DEF c, S, Text

LEMMA Shorter ==
  ASSUME NEW text \in Text, NEW n \in 0 .. Len(text)
  PROVE  /\ SubSeq(text, 1, n) \in Text /\ Len(SubSeq(text, 1, n)) = n /\ Len(text) \in Nat
         /\ \A k \in 1 .. n : SubSeq(text, 1, n)[k] = text[k]
<1>1. text \in Seq(Tokens \cup {"w"}) /\ Len(text) \in Nat /\ n \in Nat /\ n <= Len(text)
  BY DEF Text
<1>2. \A i \in 1 .. n : text[i] \in Tokens \cup {"w"}
  BY <1>1
<1>3. SubSeq(text, 1, n) \in Seq(Tokens \cup {"w"})
  BY <1>1, <1>2, SubSeqProperties
<1>4. Len(SubSeq(text, 1, n)) = n /\ \A i \in 1 .. n : SubSeq(text, 1, n)[i] = text[i]
  BY <1>1
<1> QED BY <1>1, <1>3, <1>4 DEF Text

LEMMA PrefixMeans ==
  ASSUME NEW sent \in Text, NEW text \in Text
  PROVE  IsPrefix(sent, text) <=>
           Len(sent) <= Len(text) /\ \A k \in 1 .. Len(sent) : sent[k] = text[k]
<1> DEFINE n == Len(sent)
<1>1. n \in Nat /\ Len(text) \in Nat /\ n \in 0 .. n
  BY DEF Text
<1>2. SubSeq(sent, 1, n) \in Text /\ Len(SubSeq(sent, 1, n)) = n /\ \A k \in 1 .. n : SubSeq(sent, 1, n)[k] = sent[k]
  BY <1>1, Shorter
<1>3. CASE n <= Len(text)
  <2> DEFINE a == SubSeq(sent, 1, n)
             b == SubSeq(text, 1, n)
  <2>1. n \in 0 .. Len(text)
    BY <1>1, <1>3
  <2>2. b \in Text /\ Len(b) = n /\ \A k \in 1 .. n : b[k] = text[k]
    BY <2>1, Shorter
  <2>3. a \in Seq(Tokens \cup {"w"}) /\ b \in Seq(Tokens \cup {"w"}) /\ Len(a) = n
        /\ \A k \in 1 .. n : a[k] = sent[k]
    BY <1>2, <2>2 DEF Text
  <2>4. IsPrefix(sent, text) <=> a = b
    BY <1>3 DEF IsPrefix
  <2> HIDE DEF a, b, n
  <2>5. a = b <=> \A k \in 1 .. n : a[k] = b[k]
    BY <2>2, <2>3, SeqEqual
  <2> QED BY <1>3, <2>2, <2>3, <2>4, <2>5 DEF n
<1>4. CASE ~(n <= Len(text))
  BY <1>4 DEF IsPrefix
<1> QED BY <1>3, <1>4

\* A marker of a longer text is one of the text, or ends after it.
LEMMA MarkersLonger ==
  ASSUME NEW text \in Text, NEW delta \in Text
  PROVE  \A k \in MarkersIn(text \o delta) : k \in Nat /\ (k \in MarkersIn(text) \/ k >= Len(text))
<1> DEFINE c == text \o delta
<1>1. /\ Len(text) \in Nat /\ Len(c) \in Nat /\ \A k \in 1 .. Len(text) : c[k] = text[k]
  BY Longer
<1> HIDE DEF c
<1>2. ASSUME NEW k \in MarkersIn(c) PROVE k \in Nat /\ (k \in MarkersIn(text) \/ k >= Len(text))
  <2>1. k \in 1 .. Len(c) - 1 /\ c[k] = "m1" /\ c[k + 1] = "m2"
    BY <1>2 DEF MarkersIn
  <2>2. CASE k < Len(text)
    <3>1. k \in 1 .. Len(text) /\ k + 1 \in 1 .. Len(text) /\ k \in 1 .. Len(text) - 1
      BY <1>1, <2>1, <2>2
    <3> QED BY <1>1, <2>1, <3>1 DEF MarkersIn
  <2> QED BY <1>1, <2>1, <2>2
<1> QED BY <1>2 DEF c

LEMMA MarkersShorter ==
  ASSUME NEW text \in Text, NEW n \in 0 .. Len(text)
  PROVE  MarkersIn(SubSeq(text, 1, n)) \subseteq MarkersIn(text)
<1> DEFINE c == SubSeq(text, 1, n)
<1>1. Len(c) = n /\ Len(text) \in Nat /\ \A k \in 1 .. n : c[k] = text[k]
  BY Shorter
<1> HIDE DEF c
<1>2. ASSUME NEW k \in MarkersIn(c) PROVE k \in MarkersIn(text)
  <2>1. k \in 1 .. n - 1 /\ c[k] = "m1" /\ c[k + 1] = "m2"
    BY <1>1, <1>2 DEF MarkersIn
  <2>2. k \in 1 .. n /\ k + 1 \in 1 .. n /\ k \in 1 .. Len(text) - 1
    BY <1>1, <2>1
  <2> QED BY <1>1, <2>1, <2>2 DEF MarkersIn
<1> QED BY <1>2 DEF c

LEMMA TailLonger ==
  ASSUME NEW text \in Text, NEW delta \in Text
  PROVE  WordlessTail(text) <= WordlessTail(text \o delta)
<1> DEFINE c == text \o delta
           words == {k \in DOMAIN text : text[k] # "n"}
           more == {k \in DOMAIN c : c[k] # "n"}
<1>1. /\ c \in Text /\ Len(text) \in Nat /\ Len(delta) \in Nat /\ Len(c) = Len(text) + Len(delta)
      /\ \A k \in 1 .. Len(text) : c[k] = text[k]
  BY Longer
<1>2. WordlessTail(text) \in 0 .. Len(text) /\ WordlessTail(c) \in 0 .. Len(c)
  BY <1>1, WordlessTailBound
<1>3. /\ WordlessTail(text) = IF words = {} THEN 0 ELSE Max(words)
      /\ WordlessTail(c) = IF more = {} THEN 0 ELSE Max(more)
  BY DEF WordlessTail
<1> HIDE DEF c
<1>4. DOMAIN text = 1 .. Len(text) /\ DOMAIN c = 1 .. Len(c)
  BY <1>1 DEF Text
<1>5. words \in SUBSET (1 .. Len(text)) /\ more \in SUBSET (1 .. Len(c)) /\ Len(c) \in Nat
  BY <1>1, <1>4
<1>6. words \subseteq more
  BY <1>1, <1>4
<1> HIDE DEF words, more
<1>7. CASE words = {}
  BY <1>1, <1>2, <1>3, <1>7 DEF c
<1>8. CASE words # {}
  <2>1. Max(words) \in words /\ more # {}
    BY <1>1, <1>5, <1>6, <1>8, Greatest
  <2>2. \A k \in more : k <= Max(more)
    BY <1>5, <2>1, Greatest
  <2> QED BY <1>3, <1>6, <1>8, <2>1, <2>2 DEF c
<1> QED BY <1>7, <1>8

\* What has been sent of a text that is still coming.
Held(sent, text) ==
  /\ IsPrefix(sent, text)
  /\ \A k \in MarkersIn(text) : Len(sent) < k
  /\ Len(sent) <= WordlessTail(text)
  /\ sent = <<>> \/ Len(sent) + HoldBack <= Len(text)

LEMMA HeldNothing ==
  ASSUME NEW text \in Text
  PROVE  Held(<<>>, text)
<1>1. Len(<<>>) = 0 /\ <<>> \in Text /\ Len(text) \in Nat /\ WordlessTail(text) \in 0 .. Len(text)
  BY WordlessTailBound DEF Text
<1>2. IsPrefix(<<>>, text)
  BY <1>1, PrefixMeans
<1>3. \A k \in MarkersIn(text) : 0 < k
  BY <1>1 DEF MarkersIn
<1> QED BY <1>1, <1>2, <1>3 DEF Held

LEMMA HeldLonger ==
  ASSUME NEW sent \in Text, NEW text \in Text, Held(sent, text), NEW delta \in Text
  PROVE  Held(sent, text \o delta)
<1> DEFINE c == text \o delta
           n == Len(sent)
<1>1. /\ c \in Text /\ Len(text) \in Nat /\ Len(delta) \in Nat /\ Len(c) = Len(text) + Len(delta)
      /\ \A k \in 1 .. Len(text) : c[k] = text[k]
  BY Longer
<1>2. n \in Nat /\ HoldBack \in Nat \ {0} /\ (sent = <<>> => n = 0)
  BY StreamsAssumption DEF Text
<1>3. n <= Len(text) /\ \A k \in 1 .. n : sent[k] = text[k]
  BY PrefixMeans DEF Held
<1>4. /\ WordlessTail(text) <= WordlessTail(c) /\ WordlessTail(c) \in Nat /\ WordlessTail(text) \in Nat
  BY <1>1, TailLonger, WordlessTailBound
<1>5. \A k \in MarkersIn(c) : k \in Nat /\ (k \in MarkersIn(text) \/ k >= Len(text)) /\ k > 0
  BY MarkersLonger DEF MarkersIn
<1> HIDE DEF c
<1>6. IsPrefix(sent, c)
  <2>1. \A k \in 1 .. n : k \in 1 .. Len(text)
    BY <1>1, <1>2, <1>3
  <2>2. n <= Len(c) /\ \A k \in 1 .. n : sent[k] = c[k]
    BY <1>1, <1>2, <1>3, <2>1
  <2> QED BY <1>1, <2>2, PrefixMeans
<1>7. ASSUME NEW k \in MarkersIn(c) PROVE n < k
  <2>1. CASE k \in MarkersIn(text)
    BY <2>1 DEF Held
  <2>2. CASE k >= Len(text)
    BY <1>1, <1>2, <1>5, <2>2 DEF Held
  <2> QED BY <1>5, <2>1, <2>2
<1>8. n <= WordlessTail(c) /\ (sent = <<>> \/ n + HoldBack <= Len(c))
  BY <1>1, <1>2, <1>4 DEF Held
<1> QED BY <1>6, <1>7, <1>8 DEF Held, c

\* The gate sends no more than may be sent.
LEMMA HeldSends ==
  ASSUME NEW sent \in Text, NEW text \in Text, Held(sent, text)
  PROVE  Held(sent \o Flushed(text, Len(sent)), text)
<1> DEFINE n == Len(sent)
           m == FlushEnd(text)
           f == Flushed(text, n)
<1>1. /\ m \in Int /\ m <= WordlessTail(text) /\ m <= Len(text) - HoldBack /\ m <= Len(text)
      /\ \A k \in MarkersIn(text) : m < k
  BY FlushBound
<1>2. n \in Nat /\ Len(text) \in Nat /\ HoldBack \in Nat /\ f \in Text
  <2>1. n \in Nat /\ Len(text) \in Nat
    BY DEF Text
  <2>2. f \in Text
    BY <2>1, FlushedType
  <2> QED BY <2>1, <2>2, StreamsAssumption
<1>3. CASE m <= n
  <2>1. f = <<>>
    BY <1>1, <1>2, <1>3 DEF Flushed
  <2> QED BY <2>1, TextNeutral
<1>4. CASE m > n
  <2> DEFINE whole == sent \o f
  <2>1. f = SubSeq(text, n + 1, m)
    BY <1>4 DEF Flushed
  <2>2. Len(f) = m - n /\ \A i \in 1 .. m - n : f[i] = text[n + i]
    <3>1. text \in Seq(Tokens \cup {"w"}) /\ n + 1 \in 1 .. Len(text) /\ m \in Nat /\ m <= Len(text)
          /\ m - (n + 1) + 1 = m - n
      BY <1>1, <1>2, <1>4 DEF Text
    <3>2. Len(f) = m - n /\ \A i \in 1 .. m - n : f[i] = text[(n + 1) + i - 1]
      BY <1>1, <1>2, <1>4, <2>1, <3>1
    <3>3. \A i \in 1 .. m - n : (n + 1) + i - 1 = n + i
      BY <1>1, <1>2
    <3> QED BY <3>2, <3>3
  <2>3. /\ whole \in Text /\ Len(whole) = n + Len(f)
        /\ \A k \in 1 .. n : whole[k] = sent[k]
        /\ \A k \in 1 .. Len(f) : whole[n + k] = f[k]
    BY <1>2, Longer
  <2>4. Len(whole) = m
    BY <1>1, <1>2, <2>2, <2>3
  <2>5. n <= Len(text) /\ \A k \in 1 .. n : sent[k] = text[k]
    BY PrefixMeans DEF Held
  <2> HIDE DEF whole, f, m, n
  <2>6. ASSUME NEW k \in 1 .. m PROVE whole[k] = text[k]
    <3>1. CASE k <= n
      <4>1. k \in 1 .. n
        BY <1>1, <1>2, <3>1
      <4> QED BY <2>3, <2>5, <4>1
    <3>2. CASE k > n
      <4>1. k - n \in 1 .. m - n /\ n + (k - n) = k
        BY <1>1, <1>2, <3>2
      <4> QED BY <2>2, <2>3, <4>1
    <3> QED BY <1>2, <3>1, <3>2
  <2>7. IsPrefix(whole, text)
    BY <1>1, <2>3, <2>4, <2>6, PrefixMeans
  <2>8. m + HoldBack <= Len(text)
    BY <1>1, <1>2
  <2> QED BY <1>1, <2>4, <2>7, <2>8 DEF Held, whole, f, n
<1> QED BY <1>1, <1>2, <1>3, <1>4

\* Where the noise is cut off, all that has been sent remains.
LEMMA HeldCut ==
  ASSUME NEW sent \in Text, NEW text \in Text, Held(sent, text)
  PROVE  LET cut == SubSeq(text, 1, WordlessTail(text))
         IN  IsPrefix(sent, cut) /\ \A k \in MarkersIn(cut) : Len(sent) < k
<1> DEFINE n == WordlessTail(text)
           cut == SubSeq(text, 1, n)
<1>1. n \in 0 .. Len(text) /\ Len(text) \in Nat /\ Len(sent) \in Nat
  BY WordlessTailBound DEF Text
<1>2. cut \in Text /\ Len(cut) = n /\ \A k \in 1 .. n : cut[k] = text[k]
  BY <1>1, Shorter
<1>3. MarkersIn(cut) \subseteq MarkersIn(text)
  BY <1>1, MarkersShorter
<1>4. Len(sent) <= n /\ \A k \in 1 .. Len(sent) : sent[k] = text[k]
  BY PrefixMeans DEF Held
<1> HIDE DEF n, cut
<1>5. \A k \in 1 .. Len(sent) : k \in 1 .. n
  BY <1>1, <1>4
<1>6. IsPrefix(sent, cut)
  BY <1>2, <1>4, <1>5, PrefixMeans
<1> QED BY <1>3, <1>6 DEF Held, cut, n

\* The text and the calls of what is sent.
LEMMA SentPieces ==
  ASSUME TypeOK
  PROVE  /\ Sent \in Seq(Item) /\ wire \in Seq(Item)
         /\ TextOf(Sent) \in Text /\ CallsOf(Sent) \in Seq(Call)
         /\ TextOf(wire) \in Text /\ CallsOf(wire) \in Seq(Call)
<1>1. Sent \in Seq(Item) /\ wire \in Seq(Item)
  BY SentType DEF Item
<1> QED BY <1>1, TextAppend, CallsAppend

\* StreamedOK, before and after the attempt has returned.
LEMMA StreamedMeans ==
  ASSUME TypeOK
  PROVE  StreamedOK <=>
           (~gone /\ cons.committed /\ cons.pc # "done" =>
              /\ IsPrefix(TextOf(Sent), cons.text)
              /\ \A k \in MarkersIn(cons.text) : Len(TextOf(Sent)) < k
              /\ CallsOf(Sent) = <<>>
              /\ cons.pc \in {"select", "drain"} => Held(TextOf(Sent), cons.text))
BY DEF StreamedOK, Held

LEMMA StreamedKept ==
  ASSUME StreamedOK, Sent' = Sent, gone' = gone, cons'.text = cons.text,
         cons'.committed = cons.committed,
         cons'.pc = cons.pc \/ cons'.pc \in {"returned", "done"}
           \/ (cons.pc \in {"select", "drain"} /\ cons'.pc = "drain")
           \/ ~cons.committed,
         cons.pc # "done"
  PROVE  StreamedOK'
<1>1. CASE ~(~gone /\ cons.committed /\ cons'.pc # "done")
  BY <1>1 DEF StreamedOK
<1>2. CASE ~gone /\ cons.committed /\ cons'.pc # "done"
  BY <1>2, Zenon DEF StreamedOK
<1> QED BY <1>1, <1>2

LEMMA StreamedGrows ==
  ASSUME TypeOK, TypeOK', MessageOK, StreamedOK, cons.out = <<>>, cons.pc \in {"select", "drain"},
         NEW delta \in Text, cons' = Adds(cons, delta), UNCHANGED <<wire, gone>>
  PROVE  StreamedOK'
<1> DEFINE text == cons.text \o delta
           sent == TextOf(wire)
<1>1. /\ wire \in Seq(Event) /\ Sent = wire /\ cons.committed \in BOOLEAN /\ cons.thought \in BOOLEAN
      /\ cons.text \in Text /\ sent \in Text /\ Len(sent) \in Nat
  BY SentType, SentPieces DEF Text
<1>2. text \in Text
  BY <1>1, Longer
<1>3. /\ cons'.text = text /\ cons'.committed = Commits(cons, text) /\ cons'.pc = cons.pc
      /\ cons'.out = IF Commits(cons, text) THEN Streamed(cons, text) ELSE <<>>
  BY DEF TypeOK, Consumer, Adds
<1> SUFFICES ASSUME ~gone, Commits(cons, text)
    PROVE  /\ Held(TextOf(Sent)', text) /\ CallsOf(Sent)' = <<>>
  <2>1. cons'.pc \in {"select", "drain"} /\ gone' = gone
    BY <1>3
  <2> HIDE DEF text
  <2> QED BY <1>3, <2>1 DEF StreamedOK, Held
<1>4. Held(sent, cons.text) /\ CallsOf(wire) = <<>>
  <2>1. CASE cons.committed
    BY <1>1, <2>1 DEF StreamedOK, Held
  <2>2. CASE ~cons.committed
    <3>1. sent = <<>> /\ CallsOf(wire) = <<>>
      BY <1>1, <2>2, NoEvents DEF MessageOK
    <3> QED BY <1>1, <3>1, HeldNothing
  <2> QED BY <1>1, <2>1, <2>2
<1> DEFINE more == Flushed(text, Len(sent))
           out == Streamed(cons, text)
<1>5. Held(sent \o more, text)
  <2>1. Held(sent, text)
    BY <1>1, <1>4, HeldLonger
  <2> HIDE DEF text
  <2> QED BY <1>1, <1>2, <2>1, HeldSends
<1>6. more \in Text
  <2> HIDE DEF text
  <2> QED BY <1>1, <1>2, FlushedType
<1>7. Carries(LastOf(Nothing, wire), out, more, <<>>)
  <2>1. Leads(Nothing, wire) /\ (~cons.committed => wire = <<>>)
        /\ (cons.committed => Resting(LastOf(Nothing, wire)))
    BY <1>1 DEF MessageOK
  <2> HIDE DEF text
  <2> QED BY <1>1, <1>6, <2>1, StreamedCarries
<1>8. out \in Seq(Event) /\ TextOf(out) = more /\ CallsOf(out) = <<>>
  BY <1>7 DEF Carries
<1>9. Sent' = wire \o out
  BY <1>3 DEF Sent
<1> HIDE DEF out, more, text
<1>10. TextOf(wire \o out) = sent \o more /\ CallsOf(wire \o out) = <<>>
  <2>1. wire \in Seq(Item) /\ out \in Seq(Item)
    BY <1>1, <1>8 DEF Item
  <2>2. CallsOf(wire \o out) = <<>> \o <<>> /\ TextOf(wire \o out) = sent \o more
    BY <1>4, <1>8, <2>1, PiecesConcat
  <2> QED BY <2>2, CallsNeutral
<1> QED BY <1>5, <1>9, <1>10

LEMMA StepStreamed ==
  ASSUME TypeOK, TypeOK', MessageOK, Complete, StreamedOK, [Next]_vars
  PROVE  StreamedOK'
<1>1. /\ cons.text \in Text /\ cons.calls \in Seq(Call) /\ queue \in Seq(Chunk)
      /\ (queue # <<>> => Head(queue) \in Chunk)
  BY ReadTypes, HeadTailProperties
<1>2. \A result : /\ Returns(result).pc = "returned" /\ Returns(result).out = cons.out
                  /\ Returns(result).committed = cons.committed /\ Returns(result).text = cons.text
  BY DEF Returns, TypeOK, Consumer
<1>3. CASE ReaderStep \/ UNCHANGED vars
  <2>1. UNCHANGED <<cons, wire, gone>>
    BY <1>3 DEF vars, ReaderStep, Refuse, Open, OpenWhole, ReadDelta, ReadFragment, ReadBlockStop, ReadEnd,
                ReadError, Send
  <2> QED BY <2>1 DEF StreamedOK, Sent
<1>4. CASE Leave
  BY <1>4 DEF Leave, StreamedOK
<1>5. CASE SendChat \/ Opened
  <2>1. ~cons.committed
    BY <1>5 DEF SendChat, Opened, At, Complete, ConsumerOK
  <2>2. cons'.committed = cons.committed
    <3>1. CASE SendChat
      BY <3>1 DEF SendChat, Returns, TypeOK, Consumer
    <3>2. CASE Opened
      BY <3>2 DEF Opened, Returns, TypeOK, Consumer
    <3> QED BY <1>5, <3>1, <3>2
  <2> QED BY <2>1, <2>2 DEF StreamedOK
<1>6. CASE TakeEvent
  <2> DEFINE e == Head(queue)
  <2>1. /\ e \in Chunk /\ cons.out = <<>> /\ cons.pc = "select" /\ UNCHANGED <<wire, gone>>
        /\ cons' = CASE e.type = "thinking_delta" -> [cons EXCEPT !.thought = @ \/ ~cons.committed]
                     [] e.type = "tool_call" -> [cons EXCEPT !.calls = Append(@, e.call)]
                     [] e.type = "text_delta" ->
                          IF Degenerate(cons.text \o e.text)
                          THEN [Returns("noise") EXCEPT
                                 !.text = SubSeq(cons.text \o e.text, 1, WordlessTail(cons.text \o e.text))]
                          ELSE Adds(cons, e.text)
    BY <1>1, <1>6 DEF TakeEvent, At
  <2> HIDE DEF e
  <2>2. CASE e.type = "text_delta" /\ ~Degenerate(cons.text \o e.text)
    BY <2>1, <2>2, ChunkFields, StreamedGrows
  <2>3. CASE e.type = "text_delta" /\ Degenerate(cons.text \o e.text)
    <3> DEFINE text == cons.text \o e.text
               cut == SubSeq(text, 1, WordlessTail(text))
    <3>1. /\ cons'.out = cons.out /\ cons'.committed = cons.committed /\ cons'.pc = "returned"
          /\ cons'.text = cut
      <4> HIDE DEF text
      <4>1. cons' = [Returns("noise") EXCEPT !.text = cut]
        BY <2>1, <2>3 DEF text
      <4> HIDE DEF cut
      <4> QED BY <4>1 DEF Returns, TypeOK, Consumer
    <3>2. Sent' = Sent
      BY <2>1, <3>1 DEF Sent
    <3> SUFFICES ASSUME ~gone, cons.committed
        PROVE  /\ IsPrefix(TextOf(Sent), cut) /\ \A k \in MarkersIn(cut) : Len(TextOf(Sent)) < k
               /\ CallsOf(Sent) = <<>>
      <4> HIDE DEF cut
      <4> QED BY <2>1, <3>1, <3>2 DEF StreamedOK
    <3>3. Held(TextOf(Sent), cons.text) /\ CallsOf(Sent) = <<>>
      BY <2>1, StreamedMeans
    <3>4. e.text \in Text /\ text \in Text
      BY <1>1, <2>1, <2>3, ChunkFields, Longer
    <3>5. Held(TextOf(Sent), text)
      BY <1>1, <3>3, <3>4, HeldLonger, SentPieces
    <3> HIDE DEF text
    <3> QED BY <3>3, <3>4, <3>5, HeldCut, SentPieces
  <2>4. CASE e.type # "text_delta"
    <3>1. /\ cons'.out = cons.out /\ cons'.committed = cons.committed /\ cons'.pc = cons.pc
          /\ cons'.text = cons.text
      BY <1>1, <2>1, <2>4, ChunkFields DEF TypeOK, Consumer
    <3> QED BY <2>1, <3>1, StreamedKept DEF Sent
  <2> QED BY <2>2, <2>3, <2>4
<1>7. CASE EventsClosed \/ ErrsClosed
  <2>1. /\ cons.pc = "select" /\ UNCHANGED <<wire, gone>>
    BY <1>7 DEF EventsClosed, ErrsClosed, At
  <2>2. /\ cons'.out = cons.out /\ cons'.committed = cons.committed /\ cons'.pc \in {"select", "returned"}
        /\ cons'.text = cons.text
    <3>1. \A events, errs : SeesClosed(events, errs) =>
            /\ cons'.out = cons.out /\ cons'.committed = cons.committed
            /\ cons'.pc \in {"select", "returned"} /\ cons'.text = cons.text
      BY <2>1 DEF SeesClosed, Returns, TypeOK, Consumer
    <3> QED BY <1>7, <3>1 DEF EventsClosed, ErrsClosed
  <2> QED BY <2>1, <2>2, StreamedKept DEF Sent
<1>8. CASE TakeError
  <2>1. cons.pc = "select" /\ UNCHANGED <<wire, gone>>
    BY <1>8 DEF TakeError, At
  <2>2. /\ cons'.out = cons.out /\ cons'.committed = cons.committed /\ cons'.pc \in {"drain", "returned"}
        /\ cons'.text = cons.text
    BY <1>8 DEF TakeError, Returns, TypeOK, Consumer
  <2> QED BY <2>1, <2>2, StreamedKept DEF Sent
<1>9. CASE Drain
  <2> DEFINE e == Head(queue)
  <2>1. cons.out = <<>> /\ cons.pc = "drain" /\ UNCHANGED <<wire, gone>>
    BY <1>9 DEF Drain, At
  <2>2. \/ cons' = cons \/ cons' = Returns("error")
        \/ e \in Chunk /\ e.type = "text_delta" /\ cons' = [Returns("error") EXCEPT !.text = @ \o e.text]
        \/ e \in Chunk /\ e.type = "text_delta" /\ cons' = Adds(cons, e.text)
    BY <1>1, <1>9 DEF Drain
  <2> HIDE DEF e
  <2>3. CASE cons' = cons \/ cons' = Returns("error")
    BY <1>2, <2>1, <2>3, StreamedKept DEF Sent
  <2>4. CASE e \in Chunk /\ e.type = "text_delta" /\ cons' = Adds(cons, e.text)
    BY <2>1, <2>4, ChunkFields, StreamedGrows
  <2>5. CASE e \in Chunk /\ e.type = "text_delta" /\ cons' = [Returns("error") EXCEPT !.text = @ \o e.text]
    <3> DEFINE text == cons.text \o e.text
    <3>1. e.text \in Text /\ text \in Text
      BY <1>1, <2>5, ChunkFields, Longer
    <3>2. /\ cons'.out = cons.out /\ cons'.committed = cons.committed /\ cons'.pc = "returned"
          /\ cons'.text = text
      BY <2>5 DEF Returns, TypeOK, Consumer
    <3>3. Sent' = Sent
      BY <2>1, <3>2 DEF Sent
    <3> SUFFICES ASSUME ~gone, cons.committed
        PROVE  /\ IsPrefix(TextOf(Sent), text) /\ \A k \in MarkersIn(text) : Len(TextOf(Sent)) < k
               /\ CallsOf(Sent) = <<>>
      <4> HIDE DEF text
      <4> QED BY <2>1, <3>2, <3>3 DEF StreamedOK
    <3>4. Held(TextOf(Sent), cons.text) /\ CallsOf(Sent) = <<>>
      BY <2>1, StreamedMeans
    <3>5. Held(TextOf(Sent), text)
      BY <1>1, <3>1, <3>4, HeldLonger, SentPieces
    <3> QED BY <3>4, <3>5 DEF Held
  <2> QED BY <2>2, <2>3, <2>4, <2>5
<1>10. CASE IdleTimeout \/ ContextDone
  <2>1. cons.pc # "done" /\ UNCHANGED <<wire, gone>> /\ cons' = Returns("error")
    BY <1>10 DEF IdleTimeout, ContextDone, At
  <2> QED BY <1>2, <2>1, StreamedKept DEF Sent
<1>11. CASE Write
  <2>1. /\ cons'.pc = cons.pc /\ cons'.committed = cons.committed /\ cons'.text = cons.text
        /\ UNCHANGED gone /\ Sent' = Sent
    BY <1>11, WriteSends DEF Write, TypeOK, Consumer
  <2>2. CASE cons.pc = "done"
    BY <2>1, <2>2 DEF StreamedOK
  <2> QED BY <2>1, <2>2, StreamedKept
<1>12. CASE WriteFails
  BY <1>12 DEF WriteFails, StreamedOK
<1>13. CASE Deliver \/ GiveUp
  <2>1. cons'.pc = "done"
    BY <1>13 DEF Deliver, GiveUp, Concludes, TypeOK, Consumer
  <2> QED BY <2>1 DEF StreamedOK
<1> QED
  BY <1>3, <1>4, <1>5, <1>6, <1>7, <1>8, <1>9, <1>10, <1>11, <1>12, <1>13 DEF Next, ConsumerStep

-----------------------------------------------------------------------------
(* What has been streamed is the beginning of whatever the checks make of the text. *)

LEMMA FlattenConcat ==
  ASSUME NEW S
  PROVE  \A s, t \in Seq(Seq(S)) : FlattenSeq(s \o t) = FlattenSeq(s) \o FlattenSeq(t)
<1>0. \A a, b, c \in Seq(S) : (a \o b) \o c = a \o (b \o c)
  BY ConcatAssociative
<1> TAKE s, t \in Seq(Seq(S))
<1> DEFINE P == {u \in Seq(Seq(S)) : FlattenSeq(s \o u) = FlattenSeq(s) \o FlattenSeq(u)}
<1>1. <<>> \in P
  <2>1. FlattenSeq(s) \o <<>> = FlattenSeq(s) /\ s \o <<>> = s
    BY FlattenAppend, ConcatEmptySeq
  <2>2. <<>> \in Seq(Seq(S))
    OBVIOUS
  <2> QED BY <2>1, <2>2, FlattenEmpty
<1>2. ASSUME NEW u \in P, NEW e \in Seq(S) PROVE Append(u, e) \in P
  <2>1. u \in Seq(Seq(S)) /\ FlattenSeq(s \o u) = FlattenSeq(s) \o FlattenSeq(u)
    OBVIOUS
  <2>2. s \o Append(u, e) = Append(s \o u, e) /\ s \o u \in Seq(Seq(S)) /\ Append(u, e) \in Seq(Seq(S))
    <3> DEFINE T == Seq(S)
    <3>1. s \in Seq(T) /\ u \in Seq(T) /\ e \in T
      BY <2>1
    <3> HIDE DEF T, P
    <3>2. s \o Append(u, e) = Append(s \o u, e)
      BY <3>1, ConcatAppend
    <3>3. s \o u \in Seq(T) /\ Append(u, e) \in Seq(T)
      BY <3>1, ConcatProperties, AppendProperties
    <3> QED BY <3>2, <3>3 DEF T
  <2>3. FlattenSeq(s) \in Seq(S) /\ FlattenSeq(u) \in Seq(S)
    BY <2>1, FlattenAppend
  <2>4. (FlattenSeq(s) \o FlattenSeq(u)) \o e = FlattenSeq(s) \o (FlattenSeq(u) \o e)
    <3> HIDE DEF P
    <3> QED BY <1>0, <2>3
  <2>5. FlattenSeq(Append(s \o u, e)) = FlattenSeq(s \o u) \o e /\ FlattenSeq(Append(u, e)) = FlattenSeq(u) \o e
    <3> HIDE DEF P
    <3> QED BY <2>1, <2>2, FlattenAppend
  <2> QED BY <2>1, <2>2, <2>4, <2>5
<1>3. P = Seq(Seq(S))
  <2> HIDE DEF P
  <2>1. P \in SUBSET Seq(Seq(S))
    BY DEF P
  <2> QED BY <1>1, <1>2, <2>1, InductSeq
<1> QED BY <1>3

Spelled(text) == [k \in DOMAIN text |-> <<text[k]>>]

LEMMA SpelledIs ==
  ASSUME NEW text \in Text
  PROVE  Spelled(text) \in Seq(Text) /\ Len(Spelled(text)) = Len(text) /\ FlattenSeq(Spelled(text)) = text
<1> DEFINE S == Tokens \cup {"w"}
           P == {t \in Seq(S) : FlattenSeq(Spelled(t)) = t}
<1>1. ASSUME NEW t \in Seq(S)
      PROVE  /\ Spelled(t) \in Seq(Text) /\ Len(Spelled(t)) = Len(t)
             /\ \A k \in 1 .. Len(t) : Spelled(t)[k] = <<t[k]>> /\ <<t[k]>> \in Text
  <2>1. \A k \in DOMAIN t : k \in 1 .. Len(t) /\ <<t[k]>> \in Text /\ Spelled(t)[k] = <<t[k]>>
    BY Elements, TextTypes DEF Spelled
  <2>2. Spelled(t) = [k \in DOMAIN t |-> Spelled(t)[k]]
    BY DEF Spelled
  <2>3. \A k \in 1 .. Len(t) : k \in DOMAIN t
    BY Elements
  <2> DEFINE f == Spelled(t)
  <2>4. f = [k \in DOMAIN t |-> f[k]] /\ \A k \in DOMAIN t : f[k] \in Text
    BY <2>1, <2>2
  <2> HIDE DEF f, S
  <2>5. f \in Seq(Text) /\ Len(f) = Len(t)
    BY <2>4, Mapped
  <2> QED BY <2>1, <2>3, <2>5 DEF f
<1>2. <<>> \in P
  <2>1. Spelled(<<>>) = <<>> /\ <<>> \in Seq(S)
    BY DEF Spelled
  <2> QED BY <2>1, FlattenEmpty
<1>3. ASSUME NEW t \in P, NEW e \in S PROVE Append(t, e) \in P
  <2> DEFINE c == Append(t, e)
             f == Spelled(t)
             g == Spelled(c)
             d == <<e>>
  <2>1. /\ c \in Seq(S) /\ Len(c) = Len(t) + 1 /\ c[Len(t) + 1] = e /\ Len(t) \in Nat
        /\ \A k \in 1 .. Len(t) : c[k] = t[k]
    BY AppendProperties
  <2>2. t \in Seq(S) /\ FlattenSeq(f) = t /\ d \in Text
    BY TextTypes
  <2>3. c = t \o d
    <3> HIDE DEF P, S
    <3> QED BY <2>2, AppendIsConcat
  <2> HIDE DEF c, S, P
  <2>4. /\ f \in Seq(Text) /\ Len(f) = Len(t) /\ \A k \in 1 .. Len(t) : f[k] = <<t[k]>>
        /\ g \in Seq(Text) /\ Len(g) = Len(c) /\ \A k \in 1 .. Len(c) : g[k] = <<c[k]>>
    BY <1>1, <2>1, <2>2
  <2> HIDE DEF f, g, d
  <2>5. g = Append(f, d)
    <3>1. ASSUME NEW k \in 1 .. Len(f) PROVE g[k] = f[k]
      <4>1. k \in 1 .. Len(t) /\ k \in 1 .. Len(c)
        BY <2>1, <2>4
      <4>2. f[k] = <<t[k]>> /\ g[k] = <<c[k]>> /\ c[k] = t[k]
        BY <2>1, <2>4, <4>1
      <4> QED BY <4>2
    <3>2. Len(g) = Len(f) + 1 /\ g[Len(f) + 1] = d
      <4>1. Len(t) + 1 \in 1 .. Len(c)
        BY <2>1
      <4>2. g[Len(t) + 1] = <<c[Len(t) + 1]>>
        BY <2>4, <4>1
      <4> QED BY <2>1, <2>4, <4>2 DEF d
    <3> QED BY <2>2, <2>4, <3>1, <3>2, IsAppend
  <2>6. FlattenSeq(Append(f, d)) = FlattenSeq(f) \o d
    BY <2>2, <2>4, FlattenAppend DEF Text
  <2>7. FlattenSeq(g) = c
    BY <2>2, <2>3, <2>5, <2>6
  <2> QED BY <2>1, <2>7 DEF P, c, g
<1>4. P = Seq(S)
  <2> HIDE DEF P
  <2>1. P \in SUBSET Seq(S)
    BY DEF P
  <2> QED BY <1>2, <1>3, <2>1, InductSeq
<1> QED BY <1>1, <1>4 DEF Text

\* Of a sequence of pieces, of which the first n are tokens of a text.
LEMMA Begins ==
  ASSUME NEW text \in Text, NEW n \in 0 .. Len(text), NEW s \in Seq(Text), Len(s) = Len(text),
         \A k \in 1 .. n : s[k] = <<text[k]>>
  PROVE  IsPrefix(SubSeq(text, 1, n), FlattenSeq(s))
<1> DEFINE t == SubSeq(text, 1, n)
           a == Spelled(t)
           b == SubSeq(s, n + 1, Len(s))
           c == a \o b
<1>1. t \in Text /\ Len(t) = n /\ Len(text) \in Nat /\ \A k \in 1 .. n : t[k] = text[k]
  BY Shorter
<1>2. /\ a \in Seq(Text) /\ Len(a) = n /\ FlattenSeq(a) = t /\ \A k \in 1 .. n : a[k] = <<t[k]>>
  <2> HIDE DEF t
  <2>1. DOMAIN t = 1 .. n
    BY <1>1 DEF Text
  <2> QED BY <1>1, <2>1, SpelledIs DEF Spelled
<1>3. b \in Seq(Text) /\ Len(b) = Len(s) - n /\ \A i \in 1 .. Len(s) - n : b[i] = s[n + i]
  <2>1. \A i \in n + 1 .. Len(s) : s[i] \in Text
    BY <1>1
  <2>2. b \in Seq(Text)
    BY <1>1, <2>1, SubSeqProperties
  <2>3. Len(b) = Len(s) - n
    BY <1>1
  <2>4. \A i \in 1 .. Len(s) - n : b[i] = s[(n + 1) + i - 1]
    BY <1>1
  <2>5. \A i \in 1 .. Len(s) - n : (n + 1) + i - 1 = n + i
    BY <1>1
  <2> QED BY <2>2, <2>3, <2>4, <2>5
<1> HIDE DEF a, b, t
<1>4. /\ c \in Seq(Text) /\ Len(c) = n + Len(b)
      /\ \A i \in 1 .. n + Len(b) : c[i] = IF i <= n THEN a[i] ELSE b[i - n]
  <2>1. /\ c \in Seq(Text) /\ Len(c) = Len(a) + Len(b)
        /\ \A i \in 1 .. Len(a) + Len(b) : c[i] = IF i <= Len(a) THEN a[i] ELSE b[i - Len(a)]
    <3>1. a \in Seq(Text) /\ b \in Seq(Text)
      BY <1>2, <1>3
    <3> QED BY <3>1, ConcatProperties
  <2> HIDE DEF c
  <2> QED BY <1>2, <2>1
<1> HIDE DEF c
<1>5. ASSUME NEW i \in 1 .. Len(c) PROVE c[i] = s[i]
  <2>1. CASE i <= n
    <3>1. i \in 1 .. n
      BY <1>1, <2>1
    <3> QED BY <1>1, <1>2, <1>3, <1>4, <2>1, <3>1
  <2>2. CASE ~(i <= n)
    <3>1. i - n \in 1 .. Len(s) - n /\ n + (i - n) = i
      BY <1>1, <1>3, <1>4, <2>2
    <3> QED BY <1>3, <1>4, <2>2, <3>1
  <2> QED BY <2>1, <2>2
<1>6. Len(c) = Len(s)
  BY <1>1, <1>3, <1>4
<1>7. c = s
  BY <1>4, <1>5, <1>6, SeqEqual
<1>8. FlattenSeq(s) = t \o FlattenSeq(b) /\ FlattenSeq(b) \in Text
  <2>1. FlattenSeq(a \o b) = FlattenSeq(a) \o FlattenSeq(b) /\ FlattenSeq(b) \in Text
    BY <1>2, <1>3, FlattenConcat, FlattenAppend DEF Text
  <2> QED BY <1>2, <1>7, <2>1 DEF c
<1> DEFINE r == FlattenSeq(b)
           w == t \o r
<1>9. /\ w \in Text /\ Len(r) \in Nat /\ Len(w) = n + Len(r) /\ \A k \in 1 .. n : w[k] = t[k]
  <2> HIDE DEF r
  <2>1. r \in Text
    BY <1>8 DEF r
  <2> QED BY <1>1, <2>1, Longer
<1> HIDE DEF w
<1>10. Len(t) <= Len(w) /\ \A k \in 1 .. Len(t) : t[k] = w[k]
  BY <1>1, <1>9
<1>11. IsPrefix(t, w)
  BY <1>1, <1>9, <1>10, PrefixMeans
<1> QED BY <1>8, <1>11 DEF w, t

\* Text that ends before the first marker stays where it is when markers are dropped.
LEMMA ProseBegins ==
  ASSUME NEW sent \in Text, NEW text \in Text, IsPrefix(sent, text),
         \A k \in MarkersIn(text) : Len(sent) < k
  PROVE  IsPrefix(sent, Prose(text))
<1> DEFINE n == Len(sent)
           M == MarkersIn(text)
           f == [k \in DOMAIN text |-> IF k \in M \/ k - 1 \in M THEN <<>> ELSE <<text[k]>>]
<1>1. /\ n \in Nat /\ Len(text) \in Nat /\ n <= Len(text) /\ \A k \in 1 .. n : sent[k] = text[k]
      /\ DOMAIN text = 1 .. Len(text)
  BY PrefixMeans DEF Text
<1>2. Prose(text) = FlattenSeq(f)
  BY DEF Prose
<1>3. f = [k \in DOMAIN text |-> f[k]] /\ \A k \in DOMAIN text : f[k] \in Text
  <2>1. \A k \in DOMAIN text : <<text[k]>> \in Text /\ <<>> \in Text
    BY TextTypes, Elements DEF Text
  <2> QED BY <2>1
<1>4. ASSUME NEW k \in 1 .. n PROVE f[k] = <<text[k]>>
  <2>1. k \notin M /\ k - 1 \notin M /\ k \in DOMAIN text
    <3>1. ~(n < k) /\ ~(n < k - 1)
      BY <1>1
    <3> QED BY <1>1, <3>1
  <2> QED BY <2>1
<1> HIDE DEF f, M
<1>5. f \in Seq(Text) /\ Len(f) = Len(text)
  <2>1. text \in Seq(Tokens \cup {"w"})
    BY DEF Text
  <2> QED BY <1>3, <2>1, Mapped
<1>6. n \in 0 .. Len(text)
  BY <1>1
<1>7. IsPrefix(SubSeq(text, 1, n), FlattenSeq(f))
  <2> HIDE DEF n
  <2> QED BY <1>4, <1>5, <1>6, Begins
<1>8. SubSeq(text, 1, n) = sent
  <2> DEFINE t == SubSeq(text, 1, n)
  <2>1. t \in Text /\ Len(t) = n /\ \A k \in 1 .. n : t[k] = text[k]
    BY <1>6, Shorter
  <2> HIDE DEF t
  <2>2. t \in Seq(Tokens \cup {"w"}) /\ sent \in Seq(Tokens \cup {"w"}) /\ \A k \in 1 .. Len(t) : t[k] = sent[k]
    BY <1>1, <2>1 DEF Text
  <2>3. t = sent
    BY <2>1, <2>2, SeqEqual
  <2> QED BY <2>3 DEF t
<1> QED BY <1>2, <1>7, <1>8

LEMMA ShownSame ==
  ASSUME NEW text \in Text, "u" \notin ToSet(text)
  PROVE  Shown(text) = text
<1>1. \A k \in DOMAIN text : text[k] # "u"
  BY DEF ToSet
<1>2. [k \in DOMAIN text |-> IF text[k] = "u" THEN <<>> ELSE <<text[k]>>] = Spelled(text)
  BY <1>1 DEF Spelled
<1> QED BY <1>2, SpelledIs DEF Shown

LEMMA TranslationBegins ==
  ASSUME NEW sent \in Text, NEW text \in Text, IsPrefix(sent, text),
         \A k \in MarkersIn(text) : Len(sent) < k, "u" \notin ToSet(text),
         NEW tail \in {<<>>, <<"w">>}, NEW calls, NEW reply \in Translations(text \o tail, calls)
  PROVE  IsPrefix(sent, reply.text)
<1> DEFINE c == text \o tail
<1>1. tail \in Text /\ \A k \in 1 .. Len(tail) : tail[k] = "w"
  BY TextTypes
<1>2. /\ c \in Text /\ Len(text) \in Nat /\ Len(tail) \in Nat /\ Len(c) = Len(text) + Len(tail)
      /\ \A k \in 1 .. Len(text) : c[k] = text[k]
      /\ \A k \in 1 .. Len(tail) : c[Len(text) + k] = tail[k]
  BY <1>1, Longer
<1>3. /\ Len(sent) <= Len(text) /\ Len(sent) \in Nat /\ \A k \in 1 .. Len(sent) : sent[k] = text[k]
      /\ DOMAIN text = 1 .. Len(text) /\ DOMAIN c = 1 .. Len(c)
  BY <1>2, PrefixMeans DEF Text
<1> HIDE DEF c
<1>4. ASSUME NEW k \in DOMAIN c PROVE k \in DOMAIN text \/ c[k] = "w"
  <2>1. CASE k <= Len(text)
    BY <1>2, <1>3, <2>1
  <2>2. CASE ~(k <= Len(text))
    <3>1. k - Len(text) \in 1 .. Len(tail) /\ Len(text) + (k - Len(text)) = k
      BY <1>2, <1>3, <2>2
    <3> QED BY <1>1, <1>2, <3>1
  <2> QED BY <2>1, <2>2
<1>5. "u" \notin ToSet(c)
  BY <1>2, <1>3, <1>4 DEF ToSet
<1>6. IsPrefix(sent, c)
  <2>1. \A k \in 1 .. Len(sent) : k \in 1 .. Len(text)
    BY <1>2, <1>3
  <2> QED BY <1>2, <1>3, <2>1, PrefixMeans
<1>7. ASSUME NEW k \in MarkersIn(c) PROVE Len(sent) < k
  <2>1. k \in 1 .. Len(c) - 1 /\ c[k + 1] = "m2" /\ c[k] = "m1"
    BY <1>7 DEF MarkersIn
  <2>2. k + 1 \in DOMAIN text /\ k \in DOMAIN text
    <3>1. k + 1 \in DOMAIN c
      BY <1>2, <1>3, <2>1
    <3>2. k + 1 \in DOMAIN text
      BY <1>4, <2>1, <3>1
    <3> QED BY <1>2, <1>3, <2>1, <3>2
  <2>3. k \in MarkersIn(text)
    BY <1>2, <1>3, <2>1, <2>2 DEF MarkersIn
  <2> QED BY <2>3
<1>8. Shown(c) = c
  BY <1>2, <1>5, ShownSame
<1>9. reply.text = c \/ reply.text = Prose(c)
  BY <1>8 DEF Translations, c
<1>10. IsPrefix(sent, Prose(c))
  BY <1>2, <1>6, <1>7, ProseBegins
<1> QED BY <1>6, <1>9, <1>10

\* What the end of a message adds to what has been sent.
LEMMA EndSends ==
  ASSUME TypeOK, NEW out \in Seq(Event), NEW reply, Concludes(out, reply), cons.out = <<>>,
         UNCHANGED wire
  PROVE  /\ cons'.pc = "done" /\ cons'.text = cons.text /\ cons'.final = reply
         /\ Sent' = wire \o out /\ LastOf(Nothing, Sent') = LastOf(LastOf(Nothing, wire), out)
         /\ TextOf(Sent)' = TextOf(wire) \o TextOf(out) /\ CallsOf(Sent)' = CallsOf(wire) \o CallsOf(out)
<1>1. /\ cons'.pc = "done" /\ cons'.text = cons.text /\ cons'.final = reply /\ cons'.out = out
      /\ wire' = wire /\ wire \in Seq(Event)
  BY DEF Concludes, TypeOK, Consumer
<1>2. Sent' = wire \o out
  BY <1>1 DEF Sent
<1>3. LastOf(Nothing, wire \o out) = LastOf(LastOf(Nothing, wire), out)
  BY <1>1, LastConcat
<1>4. /\ TextOf(wire \o out) = TextOf(wire) \o TextOf(out)
      /\ CallsOf(wire \o out) = CallsOf(wire) \o CallsOf(out)
  <2>1. wire \in Seq(Item) /\ out \in Seq(Item)
    BY <1>1 DEF Item
  <2> QED BY <2>1, PiecesConcat
<1> QED BY <1>1, <1>2, <1>3, <1>4

LEMMA DeliverFinal ==
  ASSUME TypeOK, MessageOK, StreamedOK, Deliver
  PROVE  FinalOK'
<1>1. /\ wire \in Seq(Event) /\ TextOf(wire) \in Text /\ CallsOf(wire) \in Seq(Call)
      /\ cons.text \in Text /\ cons.calls \in Seq(Call) /\ cons.thought \in BOOLEAN
  BY SentType, SentPieces
<1>2. cons.pc = "returned" /\ cons.out = <<>> /\ UNCHANGED <<wire, gone>> /\ Sent = wire
  BY SentType DEF Deliver, At
<1>3. PICK tail \in {<<>>, <<"w">>} : \E reply \in Translations(cons.text \o tail, cons.calls) :
        Concludes(IF cons.committed THEN Finish(wire, reply) ELSE Replay(cons.thought, reply), reply)
  BY DEF Deliver
<1>4. PICK reply \in Translations(cons.text \o tail, cons.calls) :
        Concludes(IF cons.committed THEN Finish(wire, reply) ELSE Replay(cons.thought, reply), reply)
  BY <1>3
<1>5. reply \in [text : Text, calls : Seq(Call)]
  <2>1. tail \in Text
    BY TextTypes
  <2>2. cons.text \o tail \in Text
    BY <1>1, <2>1, ConcatProperties DEF Text
  <2> QED BY <1>1, <2>2, TranslationTypes
<1>6. reply.text \in Text /\ reply.calls \in Seq(Call)
  BY <1>5
<1> SUFFICES ASSUME ~gone, "u" \notin ToSet(cons.text), NEW out \in Seq(Event), Concludes(out, reply),
                    out = IF cons.committed THEN Finish(wire, reply) ELSE Replay(cons.thought, reply)
    PROVE  /\ TextOf(wire) \o TextOf(out) = reply.text
           /\ CallsOf(wire) \o CallsOf(out) = reply.calls
  <2> DEFINE out == IF cons.committed THEN Finish(wire, reply) ELSE Replay(cons.thought, reply)
  <2>1. out \in Seq(Event)
    BY <1>1, <1>5, FinishType, ReplayCarries DEF Carries
  <2>2. Concludes(out, reply)
    BY <1>4
  <2>3. /\ cons'.text = cons.text /\ cons'.final = reply /\ gone' = gone
        /\ TextOf(Sent)' = TextOf(wire) \o TextOf(out) /\ CallsOf(Sent)' = CallsOf(wire) \o CallsOf(out)
    <3> HIDE DEF out
    <3> QED BY <1>2, <2>1, <2>2, EndSends
  <2>4. ~gone /\ "u" \notin ToSet(cons.text) =>
          /\ TextOf(wire) \o TextOf(out) = reply.text
          /\ CallsOf(wire) \o CallsOf(out) = reply.calls
    BY <2>1, <2>2
  <2> HIDE DEF out
  <2> QED BY <2>3, <2>4 DEF FinalOK
<1>7. CASE cons.committed
  <2>1. /\ IsPrefix(TextOf(wire), cons.text) /\ \A k \in MarkersIn(cons.text) : Len(TextOf(wire)) < k
        /\ CallsOf(wire) = <<>>
    BY <1>2, <1>7 DEF StreamedOK
  <2>2. IsPrefix(TextOf(wire), reply.text)
    BY <1>1, <2>1, TranslationBegins
  <2>3. Leads(Nothing, wire) /\ Resting(LastOf(Nothing, wire))
    BY <1>2, <1>7 DEF MessageOK
  <2>4. TextOf(out) = Rest(TextOf(wire), reply.text) /\ CallsOf(out) = reply.calls
    BY <1>1, <1>5, <1>7, <2>3, FinishCarries DEF Carries
  <2>5. TextOf(wire) \o Rest(TextOf(wire), reply.text) = reply.text
    BY <1>1, <1>6, <2>2, RestType
  <2>6. <<>> \o reply.calls = reply.calls
    BY <1>6, CallsNeutral
  <2> QED BY <2>1, <2>4, <2>5, <2>6
<1>8. CASE ~cons.committed
  <2>1. TextOf(wire) = <<>> /\ CallsOf(wire) = <<>>
    BY <1>2, <1>8, NoEvents DEF MessageOK
  <2>2. TextOf(out) = reply.text /\ CallsOf(out) = reply.calls
    BY <1>1, <1>5, <1>8, ReplayCarries DEF Carries
  <2>3. <<>> \o reply.calls = reply.calls /\ <<>> \o reply.text = reply.text
    BY <1>6, CallsNeutral, TextNeutral
  <2> QED BY <2>1, <2>2, <2>3
<1> QED BY <1>7, <1>8

LEMMA StepFinal ==
  ASSUME TypeOK, TypeOK', MessageOK, StreamedOK, FinalOK, [Next]_vars
  PROVE  FinalOK'
<1>1. CASE ReaderStep \/ UNCHANGED vars
  <2>1. UNCHANGED <<cons, wire, gone>>
    BY <1>1 DEF vars, ReaderStep, Refuse, Open, OpenWhole, ReadDelta, ReadFragment, ReadBlockStop, ReadEnd,
                ReadError, Send
  <2> QED BY <2>1 DEF FinalOK, Sent
<1>2. CASE Leave \/ WriteFails
  BY <1>2 DEF Leave, WriteFails, FinalOK
<1>3. CASE Write
  <2>1. /\ cons'.pc = cons.pc /\ cons'.text = cons.text /\ cons'.final = cons.final
        /\ UNCHANGED gone /\ Sent' = Sent
    BY <1>3, WriteSends DEF Write, TypeOK, Consumer
  <2> QED BY <2>1 DEF FinalOK
<1>4. CASE Deliver
  BY <1>4, DeliverFinal
<1>5. CASE GiveUp
  <2>1. /\ cons.pc = "returned" /\ cons.out = <<>> /\ UNCHANGED <<wire, gone>> /\ Sent = wire
        /\ Concludes(IF cons.committed THEN Fail(wire) ELSE <<>>, cons.final) /\ wire \in Seq(Event)
    BY <1>5, SentType DEF GiveUp, At
  <2>2. CASE gone
    BY <2>1, <2>2 DEF FinalOK
  <2>3. CASE ~gone /\ cons.committed
    <3> DEFINE out == Fail(wire)
    <3>1. Leads(Nothing, wire) /\ Resting(LastOf(Nothing, wire))
      BY <2>1, <2>3 DEF MessageOK
    <3>2. out \in Seq(Event) /\ LastOf(LastOf(Nothing, wire), out) = Error /\ Concludes(out, cons.final)
      BY <2>1, <2>3, <3>1, FailCarries DEF Carries
    <3>3. LastOf(Nothing, Sent') = LastOf(LastOf(Nothing, wire), out)
      <4> HIDE DEF out
      <4> QED BY <2>1, <3>2, EndSends
    <3>4. Error # Stop
      BY Types
    <3> QED BY <3>2, <3>3, <3>4 DEF FinalOK
  <2>4. CASE ~gone /\ ~cons.committed
    <3>1. wire = <<>> /\ <<>> \in Seq(Event) /\ Concludes(<<>>, cons.final)
      BY <2>1, <2>4 DEF MessageOK
    <3>2. LastOf(Nothing, Sent') = LastOf(LastOf(Nothing, wire), <<>>)
      BY <2>1, <3>1, EndSends
    <3>3. LastOf(Nothing, Sent') = Nothing /\ Nothing # Stop
      BY <3>1, <3>2, LeadsNowhere, Types
    <3> QED BY <3>3 DEF FinalOK
  <2> QED BY <2>2, <2>3, <2>4
<1>6. CASE \/ SendChat \/ Opened \/ TakeEvent \/ EventsClosed \/ ErrsClosed \/ TakeError \/ Drain
           \/ IdleTimeout \/ ContextDone
  <2>1. cons.pc \notin {"returned", "done"}
    BY <1>6 DEF SendChat, Opened, TakeEvent, EventsClosed, ErrsClosed, TakeError, Drain, IdleTimeout,
                ContextDone, At
  <2>2. \A result : Returns(result).pc = "returned"
    BY DEF Returns, TypeOK, Consumer
  <2>3. cons'.pc # "done"
    <3>1. CASE SendChat
      BY <3>1 DEF SendChat, Returns, TypeOK, Consumer
    <3>2. CASE Opened
      BY <2>2, <3>2 DEF Opened, TypeOK, Consumer
    <3>3. CASE TakeEvent
      <4> DEFINE e == Head(queue)
      <4>1. e \in Chunk
        BY <3>3, ReadTypes, HeadTailProperties DEF TakeEvent
      <4>2. cons' = CASE e.type = "thinking_delta" -> [cons EXCEPT !.thought = @ \/ ~cons.committed]
                     [] e.type = "tool_call" -> [cons EXCEPT !.calls = Append(@, e.call)]
                     [] e.type = "text_delta" ->
                          IF Degenerate(cons.text \o e.text)
                          THEN [Returns("noise") EXCEPT
                                 !.text = SubSeq(cons.text \o e.text, 1, WordlessTail(cons.text \o e.text))]
                          ELSE Adds(cons, e.text)
        BY <3>3 DEF TakeEvent
      <4> HIDE DEF e
      <4>3. Adds(cons, e.text).pc = cons.pc
        BY DEF Adds, TypeOK, Consumer
      <4> QED BY <2>1, <2>2, <4>1, <4>2, <4>3, ChunkFields DEF Returns, TypeOK, Consumer
    <3>4. CASE EventsClosed \/ ErrsClosed
      <4>1. \A events, errs : SeesClosed(events, errs) => cons'.pc \in {cons.pc, "returned"}
        BY DEF SeesClosed, Returns, TypeOK, Consumer
      <4> QED BY <2>1, <3>4, <4>1 DEF EventsClosed, ErrsClosed
    <3>5. CASE TakeError
      BY <2>2, <3>5 DEF TakeError, TypeOK, Consumer
    <3>6. CASE Drain
      <4>1. \A delta : Adds(cons, delta).pc = cons.pc
        BY DEF Adds, TypeOK, Consumer
      <4>2. \A text : [Returns("error") EXCEPT !.text = text].pc = "returned"
        BY DEF Returns, TypeOK, Consumer
      <4>3. \/ cons' = cons \/ cons' = Returns("error") \/ \E text : cons' = [Returns("error") EXCEPT !.text = text]
            \/ \E delta : cons' = Adds(cons, delta)
        BY <3>6 DEF Drain, Returns, TypeOK, Consumer
      <4> QED BY <2>1, <2>2, <4>1, <4>2, <4>3
    <3>7. CASE IdleTimeout \/ ContextDone
      BY <2>2, <3>7 DEF IdleTimeout, ContextDone
    <3> QED BY <1>6, <3>1, <3>2, <3>3, <3>4, <3>5, <3>6, <3>7
  <2> QED BY <2>3 DEF FinalOK
<1> QED BY <1>1, <1>2, <1>3, <1>4, <1>5, <1>6 DEF Next, ConsumerStep

-----------------------------------------------------------------------------
(* A client that puts the message together has the text and the calls it was sent. *)

Puts(f, w) == f = [n \in 0 .. Len(w) |-> IF n = 0 THEN <<>> ELSE Fed(f[n - 1], w[n])]

LEMMA PutsUnique ==
  ASSUME NEW w \in Seq(Event), NEW f, NEW g, Puts(f, w), Puts(g, w)
  PROVE  f = g
<1>1. Len(w) \in Nat
  OBVIOUS
<1> DEFINE P == {n \in Nat : n \in 0 .. Len(w) => f[n] = g[n]}
<1>2. 0 \in P
  BY <1>1 DEF Puts
<1>3. ASSUME NEW n \in P PROVE n + 1 \in P
  <2>1. ASSUME n + 1 \in 0 .. Len(w) PROVE f[n + 1] = g[n + 1]
    <3>1. f[n] = g[n] /\ n \in Nat /\ n + 1 # 0 /\ (n + 1) - 1 = n
      BY <1>1, <2>1
    <3> HIDE DEF P
    <3>2. f[n + 1] = Fed(f[n], w[n + 1])
      BY <2>1, <3>1 DEF Puts
    <3>3. g[n + 1] = Fed(g[n], w[n + 1])
      BY <2>1, <3>1 DEF Puts
    <3> QED BY <3>1, <3>2, <3>3
  <2> QED BY <2>1
<1>4. P = Nat
  <2> HIDE DEF P
  <2>1. P \in SUBSET Nat
    BY DEF P
  <2> QED BY <1>2, <1>3, <2>1, Induct
<1>5. \A n \in 0 .. Len(w) : f[n] = g[n]
  <2>1. \A n \in 0 .. Len(w) : n \in Nat
    BY <1>1
  <2> QED BY <1>4, <2>1
<1> QED BY <1>5 DEF Puts

LEMMA PutsIs ==
  ASSUME NEW w \in Seq(Event), NEW f, Puts(f, w)
  PROVE  Blocks(w) = f[Len(w)]
<1>1. \A g : Puts(g, w) => g = f
  BY PutsUnique
<1>2. f = [n \in 0 .. Len(w) |-> IF n = 0 THEN <<>> ELSE Fed(f[n - 1], w[n])]
  BY DEF Puts
<1> QED BY <1>1, <1>2, Zenon DEF Blocks, Puts

LEMMA PutsMore ==
  ASSUME NEW w \in Seq(Event), NEW f, Puts(f, w), NEW e \in Event
  PROVE  /\ \E g : Puts(g, Append(w, e))
         /\ Blocks(Append(w, e)) = Fed(Blocks(w), e)
<1> DEFINE v == Append(w, e)
           l == Len(w)
           g == [n \in 0 .. l + 1 |-> IF n = l + 1 THEN Fed(f[l], e) ELSE f[n]]
<1>1. /\ v \in Seq(Event) /\ Len(v) = l + 1 /\ v[l + 1] = e /\ l \in Nat
      /\ \A i \in 1 .. l : v[i] = w[i]
  BY AppendProperties
<1> HIDE DEF v, l
<1>2. ASSUME NEW n \in 0 .. l + 1 PROVE g[n] = IF n = 0 THEN <<>> ELSE Fed(g[n - 1], v[n])
  <2>1. CASE n = 0
    <3>1. g[0] = f[0] /\ f[0] = <<>>
      BY <1>1 DEF Puts, l
    <3> QED BY <2>1, <3>1
  <2>2. CASE n # 0 /\ n # l + 1
    <3>1. g[n] = f[n] /\ g[n - 1] = f[n - 1] /\ v[n] = w[n] /\ n \in 0 .. l
      BY <1>1, <2>2
    <3>2. f[n] = Fed(f[n - 1], w[n])
      BY <2>2, <3>1 DEF Puts, l
    <3> HIDE DEF g
    <3> QED BY <2>2, <3>1, <3>2
  <2>3. CASE n = l + 1
    <3>1. g[n] = Fed(f[l], e) /\ g[n - 1] = f[l] /\ v[n] = e /\ n # 0
      BY <1>1, <2>3
    <3> HIDE DEF g
    <3> QED BY <3>1
  <2> QED BY <2>1, <2>2, <2>3
<1>3. Puts(g, v)
  <2>1. g = [n \in 0 .. Len(v) |-> g[n]]
    BY <1>1
  <2> HIDE DEF g
  <2> QED BY <1>1, <1>2, <2>1 DEF Puts
<1>4. g[l + 1] = Fed(f[l], e)
  BY <1>1
<1>5. Blocks(v) = g[l + 1] /\ Blocks(w) = f[l]
  <2> HIDE DEF g
  <2>1. Blocks(v) = g[Len(v)]
    BY <1>1, <1>3, PutsIs
  <2>2. Blocks(w) = f[Len(w)]
    BY PutsIs
  <2> QED BY <1>1, <2>1, <2>2 DEF l
<1> QED BY <1>3, <1>4, <1>5 DEF v

\* A message put together, one event at a time.
LEMMA BlocksAppend ==
  /\ Blocks(<<>>) = <<>>
  /\ \A w \in Seq(Event) : \A e \in Event : Blocks(Append(w, e)) = Fed(Blocks(w), e)
<1> DEFINE P == {w \in Seq(Event) : \E f : Puts(f, w)}
           none == [n \in 0 .. 0 |-> <<>>]
<1>1. Puts(none, <<>>) /\ <<>> \in Seq(Event) /\ Len(<<>>) = 0
  <2>1. Len(<<>>) = 0 /\ \A n \in 0 .. 0 : n = 0
    OBVIOUS
  <2> QED BY <2>1 DEF Puts
<1>2. Blocks(<<>>) = <<>>
  <2>1. none[0] = <<>>
    OBVIOUS
  <2> HIDE DEF none
  <2> QED BY <1>1, <2>1, PutsIs
<1>3. <<>> \in P
  BY <1>1
<1>4. ASSUME NEW w \in P, NEW e \in Event PROVE Append(w, e) \in P
  <2>1. PICK f : Puts(f, w)
    OBVIOUS
  <2>2. Append(w, e) \in Seq(Event)
    BY AppendProperties
  <2> QED BY <2>1, <2>2, PutsMore
<1>5. P = Seq(Event)
  <2> HIDE DEF P
  <2>1. P \in SUBSET Seq(Event)
    BY DEF P
  <2> QED BY <1>3, <1>4, <2>1, InductSeq
<1> QED BY <1>2, <1>5, PutsMore

Through(f, s) == [k \in DOMAIN s |-> f[s[k]]]

LEMMA ThroughType ==
  ASSUME NEW S, NEW T, NEW f \in [S -> Seq(T)], NEW s \in Seq(S)
  PROVE  FlattenSeq(Through(f, s)) \in Seq(T)
<1> DEFINE g == Through(f, s)
<1>1. g = [k \in DOMAIN s |-> g[k]] /\ \A k \in DOMAIN s : g[k] \in Seq(T)
  BY Elements DEF Through
<1> HIDE DEF g
<1> QED BY <1>1, Mapped, FlattenAppend DEF g

LEMMA ThroughAppend ==
  ASSUME NEW S, NEW T, NEW f \in [S -> Seq(T)], NEW s \in Seq(S), NEW e \in S
  PROVE  FlattenSeq(Through(f, Append(s, e))) = FlattenSeq(Through(f, s)) \o f[e]
<1> DEFINE c == Append(s, e)
           m == Through(f, s)
           n == Through(f, c)
<1>1. /\ c \in Seq(S) /\ Len(c) = Len(s) + 1 /\ c[Len(s) + 1] = e /\ Len(s) \in Nat
      /\ \A k \in 1 .. Len(s) : c[k] = s[k]
  BY AppendProperties
<1> HIDE DEF c, m, n
<1>2. \A t \in Seq(S) : /\ Through(f, t) \in Seq(Seq(T)) /\ Len(Through(f, t)) = Len(t)
                        /\ \A k \in 1 .. Len(t) : Through(f, t)[k] = f[t[k]]
  <2> TAKE t \in Seq(S)
  <2> DEFINE g == Through(f, t)
  <2>1. \A k \in DOMAIN t : g[k] = f[t[k]] /\ g[k] \in Seq(T)
    BY Elements DEF Through
  <2>2. g = [k \in DOMAIN t |-> g[k]] /\ DOMAIN t = 1 .. Len(t)
    BY Elements DEF Through
  <2> HIDE DEF g
  <2> QED BY <2>1, <2>2, Mapped DEF g
<1>3. /\ m \in Seq(Seq(T)) /\ Len(m) = Len(s) /\ \A k \in 1 .. Len(s) : m[k] = f[s[k]]
      /\ n \in Seq(Seq(T)) /\ Len(n) = Len(c) /\ \A k \in 1 .. Len(c) : n[k] = f[c[k]]
  BY <1>1, <1>2 DEF m, n
<1>4. n = Append(m, f[e])
  <2>1. ASSUME NEW k \in 1 .. Len(m) PROVE n[k] = m[k]
    <3>1. k \in 1 .. Len(s) /\ k \in 1 .. Len(c)
      BY <1>1, <1>3
    <3>2. n[k] = f[c[k]] /\ m[k] = f[s[k]] /\ c[k] = s[k]
      BY <1>1, <1>3, <3>1
    <3> QED BY <3>2
  <2>2. Len(n) = Len(m) + 1 /\ n[Len(m) + 1] = f[e] /\ f[e] \in Seq(T)
    BY <1>1, <1>3
  <2> QED BY <1>3, <2>1, <2>2, IsAppend
<1>5. FlattenSeq(m) \in Seq(T) /\ FlattenSeq(Append(m, f[e])) = FlattenSeq(m) \o f[e]
  BY <1>3, FlattenAppend
<1> QED BY <1>4, <1>5 DEF c, m, n

Block == [index : Nat, kind : {"thinking", "text", "tool_use"}, text : Text, call : Call]

BlockText(b) == IF b.kind = "text" THEN b.text ELSE <<>>
BlockCall(b) == IF b.kind = "tool_use" THEN <<b.call>> ELSE <<>>

TextIn(blocks) == FlattenSeq([k \in DOMAIN blocks |-> IF blocks[k].kind = "text" THEN blocks[k].text ELSE <<>>])
CallsIn(blocks) ==
  FlattenSeq([k \in DOMAIN blocks |-> IF blocks[k].kind = "tool_use" THEN <<blocks[k].call>> ELSE <<>>])

LEMMA BlockPieces ==
  ASSUME NEW b \in Block
  PROVE  BlockText(b) \in Text /\ BlockCall(b) \in Seq(Call)
BY TextTypes DEF Block, BlockText, BlockCall

LEMMA TextInAppend ==
  ASSUME NEW blocks \in Seq(Block), NEW b \in Block
  PROVE  TextIn(blocks) \in Text /\ TextIn(Append(blocks, b)) = TextIn(blocks) \o BlockText(b)
<1> DEFINE f == [x \in Block |-> BlockText(x)]
           S == Tokens \cup {"w"}
           more == Append(blocks, b)
<1>1. f \in [Block -> Seq(S)] /\ f[b] = BlockText(b)
  BY BlockPieces DEF Text
<1>2. \A s \in Seq(Block) : TextIn(s) = FlattenSeq(Through(f, s))
  <2> TAKE s \in Seq(Block)
  <2>1. \A k \in DOMAIN s : f[s[k]] = IF s[k].kind = "text" THEN s[k].text ELSE <<>>
    BY Elements DEF BlockText
  <2> HIDE DEF f
  <2> QED BY <2>1 DEF TextIn, Through
<1>3. more \in Seq(Block)
  BY AppendProperties
<1> HIDE DEF f, S
<1>4. FlattenSeq(Through(f, blocks)) \in Seq(S)
  BY <1>1, ThroughType
<1>5. FlattenSeq(Through(f, more)) = FlattenSeq(Through(f, blocks)) \o f[b]
  BY <1>1, ThroughAppend
<1> HIDE DEF more
<1> QED BY <1>1, <1>2, <1>3, <1>4, <1>5 DEF Text, S, more

LEMMA CallsInAppend ==
  ASSUME NEW blocks \in Seq(Block), NEW b \in Block
  PROVE  CallsIn(blocks) \in Seq(Call) /\ CallsIn(Append(blocks, b)) = CallsIn(blocks) \o BlockCall(b)
<1> DEFINE f == [x \in Block |-> BlockCall(x)]
           more == Append(blocks, b)
<1>1. f \in [Block -> Seq(Call)] /\ f[b] = BlockCall(b)
  BY BlockPieces
<1>2. \A s \in Seq(Block) : CallsIn(s) = FlattenSeq(Through(f, s))
  <2> TAKE s \in Seq(Block)
  <2>1. \A k \in DOMAIN s : f[s[k]] = IF s[k].kind = "tool_use" THEN <<s[k].call>> ELSE <<>>
    BY Elements DEF BlockCall
  <2> HIDE DEF f
  <2> QED BY <2>1 DEF CallsIn, Through
<1>3. more \in Seq(Block)
  BY AppendProperties
<1> HIDE DEF f
<1>4. FlattenSeq(Through(f, blocks)) \in Seq(Call)
  BY <1>1, ThroughType
<1>5. FlattenSeq(Through(f, more)) = FlattenSeq(Through(f, blocks)) \o f[b]
  BY <1>1, ThroughAppend
<1> HIDE DEF more
<1> QED BY <1>1, <1>2, <1>3, <1>4, <1>5 DEF more

\* The block e starts, and what is known of the blocks after the events w.
Fresh(e) == [index |-> e.index, kind |-> e.kind, text |-> <<>>, call |-> <<>>]

Carried(blocks, w) == TextIn(blocks) = TextOf(w) /\ CallsIn(blocks) = CallsOf(w)

Collected(blocks, w) ==
  LET a == LastOf(Nothing, w)
  IN  /\ blocks \in Seq(Block) /\ Len(blocks) = NextIndex(w)
      /\ \A k \in 1 .. Len(blocks) : blocks[k].index = k - 1
      /\ a.type # "content_block_start" => Carried(blocks, w)
      /\ a.type = "content_block_start" =>
           \E front \in Seq(Block) : Carried(front, w) /\ blocks = Append(front, Fresh(a))
      /\ a.type \in Deltas =>
           \E front \in Seq(Block), b \in Block : blocks = Append(front, b) /\ DeltaOf(b.kind) = a.type

LEMMA EventFields ==
  ASSUME NEW e \in Event
  PROVE  /\ e.type = "content_block_start" => Fresh(e) \in Block
         /\ e.type = "text_delta" => e.text \in Text
         /\ e.type = "input_json_delta" => e.call \in Call
         /\ e.type \notin {"text_delta", "tool_call"} => TextPiece(e) = <<>>
         /\ e.type = "text_delta" => TextPiece(e) = e.text
         /\ e.type # "input_json_delta" => CallPiece(e) = <<>>
         /\ e.type = "input_json_delta" => CallPiece(e) = <<e.call>>
         /\ e.type # "tool_call"
<1>1. <<>> \in Call /\ <<>> \in Text
  BY TextTypes DEF Call
<1>2. e.type = "content_block_start" => e.index \in Nat /\ e.kind \in {"thinking", "text", "tool_use"}
  BY EventShapes
<1>3. e.type = "content_block_start" => Fresh(e) \in Block
  BY <1>1, <1>2 DEF Fresh, Block
<1> QED BY <1>3 DEF Event, Start, Total, Stop, Error, TextPiece, CallPiece

LEMMA FedText ==
  ASSUME NEW front \in Seq(Block), NEW b \in Block, NEW e, e.type = "text_delta",
         e.text \in Text, e.index = Len(front),
         \A k \in 1 .. Len(front) + 1 : Append(front, b)[k].index = k - 1
  PROVE  Fed(Append(front, b), e) = Append(front, [b EXCEPT !.text = @ \o e.text])
<1> DEFINE c == Append(front, b)
           d == [b EXCEPT !.text = @ \o e.text]
           g == Fed(c, e)
<1>1. d \in Block
  <2>1. b.text \o e.text \in Text
    BY ConcatProperties DEF Block, Text
  <2> QED BY <2>1 DEF Block
<1>2. /\ c \in Seq(Block) /\ Len(c) = Len(front) + 1 /\ c[Len(front) + 1] = b /\ Len(front) \in Nat
      /\ DOMAIN c = 1 .. Len(front) + 1 /\ \A k \in 1 .. Len(front) : c[k] = front[k]
  BY AppendProperties, Elements
<1>3. \A k \in DOMAIN c : c[k].index = k - 1
  BY <1>2
<1> HIDE DEF c
<1>4. g = [k \in DOMAIN c |-> IF c[k].index = e.index THEN [c[k] EXCEPT !.text = @ \o e.text] ELSE c[k]]
  BY DEF Fed
<1>5. g = [k \in DOMAIN c |-> g[k]]
  BY <1>4
<1>6. ASSUME NEW k \in DOMAIN c PROVE g[k] = IF k = Len(front) + 1 THEN d ELSE c[k]
  <2>1. g[k] = IF c[k].index = e.index THEN [c[k] EXCEPT !.text = @ \o e.text] ELSE c[k]
    BY <1>4
  <2>2. c[k].index = e.index <=> k = Len(front) + 1
    BY <1>2, <1>3
  <2> QED BY <1>2, <2>1, <2>2
<1> HIDE DEF g, d
<1>7. g \in Seq(Block) /\ Len(g) = Len(c)
  <2>1. \A k \in DOMAIN c : g[k] \in Block
    BY <1>1, <1>2, <1>6, Elements
  <2> QED BY <1>2, <1>5, <2>1, Mapped
<1>8. g = Append(front, d)
  <2>1. Len(g) = Len(front) + 1
    BY <1>2, <1>7
  <2>2. g[Len(front) + 1] = d
    BY <1>2, <1>6
  <2>3. ASSUME NEW k \in 1 .. Len(front) PROVE g[k] = front[k]
    <3>1. k \in DOMAIN c /\ k # Len(front) + 1 /\ c[k] = front[k]
      BY <1>2
    <3> QED BY <1>6, <3>1
  <2> QED BY <1>1, <1>7, <2>1, <2>2, <2>3, IsAppend
<1> QED BY <1>8 DEF c, g, d

LEMMA FedCall ==
  ASSUME NEW front \in Seq(Block), NEW b \in Block, NEW e, e.type = "input_json_delta",
         e.call \in Call, e.index = Len(front),
         \A k \in 1 .. Len(front) + 1 : Append(front, b)[k].index = k - 1
  PROVE  Fed(Append(front, b), e) = Append(front, [b EXCEPT !.call = @ \o e.call])
<1> DEFINE c == Append(front, b)
           d == [b EXCEPT !.call = @ \o e.call]
           g == Fed(c, e)
<1>1. d \in Block
  <2>1. b.call \o e.call \in Call
    BY ConcatProperties DEF Block, Call
  <2> QED BY <2>1 DEF Block
<1>2. /\ c \in Seq(Block) /\ Len(c) = Len(front) + 1 /\ c[Len(front) + 1] = b /\ Len(front) \in Nat
      /\ DOMAIN c = 1 .. Len(front) + 1 /\ \A k \in 1 .. Len(front) : c[k] = front[k]
  BY AppendProperties, Elements
<1>3. \A k \in DOMAIN c : c[k].index = k - 1
  BY <1>2
<1> HIDE DEF c
<1>4. g = [k \in DOMAIN c |-> IF c[k].index = e.index THEN [c[k] EXCEPT !.call = @ \o e.call] ELSE c[k]]
  BY DEF Fed
<1>5. g = [k \in DOMAIN c |-> g[k]]
  BY <1>4
<1>6. ASSUME NEW k \in DOMAIN c PROVE g[k] = IF k = Len(front) + 1 THEN d ELSE c[k]
  <2>1. g[k] = IF c[k].index = e.index THEN [c[k] EXCEPT !.call = @ \o e.call] ELSE c[k]
    BY <1>4
  <2>2. c[k].index = e.index <=> k = Len(front) + 1
    BY <1>2, <1>3
  <2> QED BY <1>2, <2>1, <2>2
<1> HIDE DEF g, d
<1>7. g \in Seq(Block) /\ Len(g) = Len(c)
  <2>1. \A k \in DOMAIN c : g[k] \in Block
    BY <1>1, <1>2, <1>6, Elements
  <2> QED BY <1>2, <1>5, <2>1, Mapped
<1>8. g = Append(front, d)
  <2>1. Len(g) = Len(front) + 1
    BY <1>2, <1>7
  <2>2. g[Len(front) + 1] = d
    BY <1>2, <1>6
  <2>3. ASSUME NEW k \in 1 .. Len(front) PROVE g[k] = front[k]
    <3>1. k \in DOMAIN c /\ k # Len(front) + 1 /\ c[k] = front[k]
      BY <1>2
    <3> QED BY <1>6, <3>1
  <2> QED BY <1>1, <1>7, <2>1, <2>2, <2>3, IsAppend
<1> QED BY <1>8 DEF c, g, d

LEMMA CollectedGrows ==
  ASSUME NEW w \in Seq(Event), NEW e \in Event, Leads(Nothing, w), Collected(Blocks(w), w),
         Follows(LastOf(Nothing, w), e)
  PROVE  Collected(Blocks(Append(w, e)), Append(w, e))
<1> DEFINE v == Append(w, e)
           a == LastOf(Nothing, w)
           blocks == Blocks(w)
           more == Blocks(v)
           l == Len(blocks)
<1>1. /\ v \in Seq(Event) /\ LastOf(Nothing, v) = e /\ more = Fed(blocks, e)
      /\ TextOf(w) \in Text /\ CallsOf(w) \in Seq(Call)
      /\ TextOf(v) = TextOf(w) \o TextPiece(e) /\ CallsOf(v) = CallsOf(w) \o CallPiece(e)
  <2>1. e \in Item /\ w \in Seq(Item)
    BY DEF Item
  <2> QED BY <2>1, AppendProperties, LastAppend, BlocksAppend, TextAppend, CallsAppend
<1>2. /\ NextIndex(w) \in Nat /\ NextIndex(v) = NextIndex(w) + IF e.type = "content_block_start" THEN 1 ELSE 0
  BY CountAppend DEF NextIndex
<1>3. Between(a) \/ InBlock(a) => NextIndex(w) = NextAfter(a)
  BY OpenByLast
<1>4. /\ blocks \in Seq(Block) /\ l = NextIndex(w) /\ \A k \in 1 .. l : blocks[k].index = k - 1
      /\ a.type # "content_block_start" => Carried(blocks, w)
      /\ a.type = "content_block_start" =>
           \E front \in Seq(Block) : Carried(front, w) /\ blocks = Append(front, Fresh(a))
      /\ a.type \in Deltas =>
           \E front \in Seq(Block), b \in Block : blocks = Append(front, b) /\ DeltaOf(b.kind) = a.type
  BY DEF Collected
<1>5. a \in Event \cup {Nothing}
  BY LastType
<1> HIDE DEF v, a, blocks, more, l
<1> SUFFICES
      /\ more \in Seq(Block) /\ Len(more) = NextIndex(v) /\ \A k \in 1 .. Len(more) : more[k].index = k - 1
      /\ e.type # "content_block_start" => Carried(more, v)
      /\ e.type = "content_block_start" =>
           \E front \in Seq(Block) : Carried(front, v) /\ more = Append(front, Fresh(e))
      /\ e.type \in Deltas =>
           \E front \in Seq(Block), b \in Block : more = Append(front, b) /\ DeltaOf(b.kind) = e.type
  BY <1>1 DEF Collected, v, more
<1>6. CASE a.type # "content_block_start" /\ e.type # "content_block_start" /\ e.type \notin Deltas
  <2>1. more = blocks
    BY <1>1, <1>6 DEF Fed, Deltas
  <2>2. TextPiece(e) = <<>> /\ CallPiece(e) = <<>>
    BY <1>6, EventFields DEF Deltas
  <2>3. TextOf(v) = TextOf(w) /\ CallsOf(v) = CallsOf(w)
    BY <1>1, <2>2, TextNeutral, CallsNeutral
  <2>4. Carried(more, v)
    BY <1>4, <1>6, <2>1, <2>3 DEF Carried
  <2>5. Len(more) = NextIndex(v) /\ l = Len(more)
    BY <1>2, <1>4, <1>6, <2>1 DEF l
  <2> QED BY <1>4, <1>6, <2>1, <2>4, <2>5
<1>7. CASE Between(a) /\ e.type = "content_block_start" /\ e.index = NextAfter(a)
  <2> DEFINE b == Fresh(e)
  <2>1. a.type # "content_block_start"
    BY <1>7, Types DEF Between
  <2>2. b \in Block /\ b.index = e.index
    BY <1>7, EventFields DEF Fresh
  <2>3. more = Append(blocks, b)
    BY <1>1, <1>7 DEF Fed, Fresh
  <2> HIDE DEF b
  <2>4. /\ more \in Seq(Block) /\ Len(more) = l + 1 /\ l \in Nat /\ more[l + 1] = b
        /\ \A k \in 1 .. l : more[k] = blocks[k]
    BY <1>4, <2>2, <2>3, AppendProperties DEF l
  <2>5. Carried(blocks, v)
    <3>1. TextPiece(e) = <<>> /\ CallPiece(e) = <<>>
      BY <1>7, EventFields
    <3>2. TextOf(v) = TextOf(w) /\ CallsOf(v) = CallsOf(w)
      BY <1>1, <3>1, TextNeutral, CallsNeutral
    <3> QED BY <1>4, <2>1, <3>2 DEF Carried
  <2>6. ASSUME NEW k \in 1 .. Len(more) PROVE more[k].index = k - 1
    <3>1. k \in 1 .. l \/ k = l + 1
      BY <2>4
    <3>2. b.index = l
      BY <1>3, <1>4, <1>7, <2>2
    <3> QED BY <1>4, <2>4, <3>1, <3>2
  <2>7. Len(more) = NextIndex(v)
    BY <1>2, <1>4, <1>7, <2>4
  <2>8. e.type \notin Deltas
    BY <1>7 DEF Deltas
  <2>9. \E front \in Seq(Block) : Carried(front, v) /\ more = Append(front, Fresh(e))
    BY <1>4, <2>3, <2>5 DEF b
  <2> QED BY <1>7, <2>4, <2>6, <2>7, <2>8, <2>9
<1>8. CASE InBlock(a) /\ e.type \in Deltas /\ e.index = a.index
  <2>1. ASSUME NEW front \in Seq(Block), NEW b \in Block, blocks = Append(front, b),
               NEW d \in Block, more = Append(front, d), d.index = b.index, DeltaOf(d.kind) = e.type,
               Carried(more, v)
        PROVE  /\ more \in Seq(Block) /\ Len(more) = NextIndex(v)
               /\ \A k \in 1 .. Len(more) : more[k].index = k - 1
               /\ \E f \in Seq(Block), x \in Block : more = Append(f, x) /\ DeltaOf(x.kind) = e.type
    <3>1. /\ more \in Seq(Block) /\ Len(more) = Len(front) + 1 /\ l = Len(front) + 1 /\ Len(front) \in Nat
          /\ more[Len(front) + 1] = d /\ blocks[Len(front) + 1] = b
          /\ \A k \in 1 .. Len(front) : more[k] = front[k] /\ blocks[k] = front[k]
      BY <2>1, AppendProperties DEF l
    <3>2. ASSUME NEW k \in 1 .. Len(more) PROVE more[k].index = k - 1
      <4>1. k \in 1 .. Len(front) \/ k = Len(front) + 1
        BY <3>1
      <4>2. k \in 1 .. l
        BY <3>1
      <4> QED BY <1>4, <2>1, <3>1, <4>1, <4>2
    <3>3. Len(more) = NextIndex(v)
      BY <1>2, <1>4, <1>8, <3>1 DEF Deltas
    <3> QED BY <2>1, <3>1, <3>2, <3>3
  <2>2. ASSUME NEW front \in Seq(Block), NEW b \in Block, blocks = Append(front, b)
        PROVE  e.index = Len(front) /\ \A k \in 1 .. Len(front) + 1 : Append(front, b)[k].index = k - 1
    <3>1. l = Len(front) + 1 /\ Len(front) \in Nat
      BY <2>2, AppendProperties DEF l
    <3>2. a.index \in Nat /\ NextAfter(a) = a.index + 1
      BY <1>5, <1>8, EventShapes, Types DEF InBlock, NextAfter, Deltas
    <3>3. e.index = Len(front)
      BY <1>3, <1>4, <1>8, <3>1, <3>2
    <3> QED BY <1>4, <2>2, <3>1, <3>3
  <2>3. e.type # "content_block_start"
    BY <1>8 DEF Deltas
  <2>4. CASE a.type = "content_block_start" /\ e.type = DeltaOf(a.kind)
    <3> DEFINE b == Fresh(a)
    <3>1. PICK front \in Seq(Block) : Carried(front, w) /\ blocks = Append(front, b)
      BY <1>4, <2>4
    <3>2. /\ b \in Block /\ b.kind = a.kind /\ b.text = <<>> /\ b.call = <<>>
          /\ a.kind \in {"thinking", "text", "tool_use"}
      BY <1>5, <2>4, EventFields, EventShapes, Types DEF Fresh
    <3> HIDE DEF b
    <3>3. /\ TextIn(front) = TextOf(w) /\ CallsIn(front) = CallsOf(w) /\ e.index = Len(front)
          /\ \A k \in 1 .. Len(front) + 1 : Append(front, b)[k].index = k - 1
      BY <2>2, <3>1, <3>2 DEF Carried
    <3>4. CASE a.kind = "thinking"
      <4>1. e.type = "thinking_delta"
        BY <2>4, <3>4 DEF DeltaOf
      <4>2. more = Append(front, b)
        BY <1>1, <3>1, <4>1 DEF Fed
      <4>3. BlockText(b) = <<>> /\ BlockCall(b) = <<>> /\ TextPiece(e) = <<>> /\ CallPiece(e) = <<>>
        BY <3>2, <3>4, <4>1, EventFields DEF BlockText, BlockCall
      <4>4. Carried(more, v)
        BY <1>1, <3>2, <3>3, <4>2, <4>3, TextInAppend, CallsInAppend DEF Carried
      <4> QED BY <2>1, <2>3, <2>4, <3>1, <3>2, <4>2, <4>4
    <3>5. CASE a.kind = "text"
      <4> DEFINE d == [b EXCEPT !.text = @ \o e.text]
      <4>1. e.type = "text_delta" /\ e.text \in Text
        BY <2>4, <3>5, EventFields DEF DeltaOf
      <4>2. more = Append(front, d)
        BY <1>1, <3>1, <3>2, <3>3, <4>1, FedText
      <4>3. d \in Block /\ d.index = b.index /\ d.kind = "text" /\ d.text = e.text
        <5>1. b.text \o e.text = e.text
          BY <3>2, <4>1, TextNeutral
        <5> QED BY <3>2, <3>5, <4>1, <5>1 DEF Block
      <4> HIDE DEF d
      <4>4. BlockText(d) = e.text /\ BlockCall(d) = <<>> /\ TextPiece(e) = e.text /\ CallPiece(e) = <<>>
        BY <4>1, <4>3, EventFields DEF BlockText, BlockCall
      <4>5. Carried(more, v)
        BY <1>1, <3>3, <4>2, <4>3, <4>4, TextInAppend, CallsInAppend DEF Carried
      <4>6. DeltaOf(d.kind) = e.type
        BY <4>1, <4>3 DEF DeltaOf
      <4> QED BY <2>1, <2>3, <2>4, <3>1, <3>2, <4>2, <4>3, <4>5, <4>6
    <3>6. CASE a.kind = "tool_use"
      <4> DEFINE d == [b EXCEPT !.call = @ \o e.call]
      <4>1. e.type = "input_json_delta" /\ e.call \in Call
        BY <2>4, <3>6, EventFields DEF DeltaOf
      <4>2. more = Append(front, d)
        BY <1>1, <3>1, <3>2, <3>3, <4>1, FedCall
      <4>3. d \in Block /\ d.index = b.index /\ d.kind = "tool_use" /\ d.call = e.call
        <5>1. b.call \o e.call = e.call
          BY <3>2, <4>1, ConcatEmptySeq DEF Call
        <5> QED BY <3>2, <3>6, <4>1, <5>1 DEF Block
      <4> HIDE DEF d
      <4>4. BlockText(d) = <<>> /\ BlockCall(d) = <<e.call>> /\ TextPiece(e) = <<>> /\ CallPiece(e) = <<e.call>>
        BY <4>1, <4>3, EventFields DEF BlockText, BlockCall
      <4>5. Carried(more, v)
        BY <1>1, <3>3, <4>2, <4>3, <4>4, TextInAppend, CallsInAppend DEF Carried
      <4>6. DeltaOf(d.kind) = e.type
        BY <4>1, <4>3 DEF DeltaOf
      <4> QED BY <2>1, <2>3, <2>4, <3>1, <3>2, <4>2, <4>3, <4>5, <4>6
    <3> QED BY <3>2, <3>4, <3>5, <3>6
  <2>5. CASE a.type = "text_delta" /\ e.type = "text_delta"
    <3>1. PICK front \in Seq(Block), b \in Block : blocks = Append(front, b) /\ DeltaOf(b.kind) = "text_delta"
      BY <1>4, <2>5 DEF Deltas
    <3>2. b.kind = "text" /\ b.text \in Text /\ e.text \in Text
      BY <2>5, <3>1, EventFields DEF DeltaOf, Block
    <3>3. e.index = Len(front) /\ \A k \in 1 .. Len(front) + 1 : Append(front, b)[k].index = k - 1
      BY <2>2, <3>1
    <3> DEFINE d == [b EXCEPT !.text = @ \o e.text]
    <3>4. more = Append(front, d)
      BY <1>1, <2>5, <3>1, <3>2, <3>3, FedText
    <3>5. d \in Block /\ d.index = b.index /\ d.kind = "text" /\ d.text = b.text \o e.text
      <4>1. b.text \o e.text \in Text
        BY <3>2, Longer
      <4> QED BY <3>1, <3>2, <4>1 DEF Block
    <3> HIDE DEF d
    <3>6. /\ BlockText(d) = b.text \o e.text /\ BlockCall(d) = <<>>
          /\ BlockText(b) = b.text /\ BlockCall(b) = <<>>
          /\ TextPiece(e) = e.text /\ CallPiece(e) = <<>>
      BY <2>5, <3>2, <3>5, EventFields DEF BlockText, BlockCall
    <3>7. TextIn(blocks) = TextOf(w) /\ CallsIn(blocks) = CallsOf(w)
      BY <1>4, <2>5 DEF Carried
    <3>8. TextIn(more) = TextIn(front) \o (b.text \o e.text) /\ TextIn(blocks) = TextIn(front) \o b.text
          /\ TextIn(front) \in Text
      BY <3>1, <3>4, <3>5, <3>6, TextInAppend
    <3>9. (TextIn(front) \o b.text) \o e.text = TextIn(front) \o (b.text \o e.text)
      BY <3>2, <3>8, TextsAssociate
    <3>10. CallsIn(more) = CallsIn(front) \o <<>> /\ CallsIn(blocks) = CallsIn(front) \o <<>>
      BY <3>1, <3>4, <3>5, <3>6, CallsInAppend
    <3>11. CallsOf(v) = CallsOf(w)
      BY <1>1, <3>6, CallsNeutral
    <3>12. Carried(more, v)
      BY <1>1, <3>6, <3>7, <3>8, <3>9, <3>10, <3>11 DEF Carried
    <3>13. DeltaOf(d.kind) = e.type
      BY <2>5, <3>5 DEF DeltaOf
    <3> QED BY <2>1, <2>3, <2>5, <3>1, <3>4, <3>5, <3>12, <3>13
  <2>6. \/ a.type = "content_block_start" /\ e.type = DeltaOf(a.kind)
        \/ a.type = "text_delta" /\ e.type = "text_delta"
    <3>1. Follows(a, e)
      BY DEF a
    <3> QED BY <1>8, <3>1, Types DEF Follows, InBlock, Between, Deltas
  <2> QED BY <2>4, <2>5, <2>6
<1>9. Follows(a, e)
  BY DEF a
<1>10. \/ a = Nothing /\ e = Start
       \/ Between(a) /\ e \in {Total, Error}
       \/ Between(a) /\ e.type = "content_block_start" /\ e.index = NextAfter(a)
       \/ InBlock(a) /\ e.type \in Deltas /\ e.index = a.index
       \/ a.type \in Deltas /\ e = BlockStop(a.index)
       \/ a = Total /\ e = Stop
  BY <1>5, <1>9, FollowsCases
<1>11. CASE \/ a = Nothing /\ e = Start
            \/ Between(a) /\ e \in {Total, Error}
            \/ a.type \in Deltas /\ e = BlockStop(a.index)
            \/ a = Total /\ e = Stop
  <2>1. a.type # "content_block_start" /\ e.type # "content_block_start" /\ e.type \notin Deltas
    BY <1>11, Types DEF Between, Deltas
  <2> QED BY <1>6, <2>1
<1> QED BY <1>7, <1>8, <1>10, <1>11

LEMMA MessagesCollected ==
  ASSUME NEW w \in Seq(Event), Leads(Nothing, w)
  PROVE  Collected(Blocks(w), w)
<1> DEFINE P == {u \in Seq(Event) : Leads(Nothing, u) => Collected(Blocks(u), u)}
<1>1. <<>> \in P
  <2> DEFINE none == <<>>
  <2>1. /\ Blocks(none) = none /\ LastOf(Nothing, none) = Nothing /\ none \in Seq(Block)
        /\ none \in Seq(Event) /\ Len(none) = 0
    BY BlocksAppend, LeadsNowhere
  <2>2. NextIndex(none) = 0
    <3>1. {k \in DOMAIN none : none[k].type = "content_block_start"} = {}
      OBVIOUS
    <3> QED BY <3>1, FS_EmptySet DEF NextIndex, Count
  <2>3. Carried(none, none)
    <3>1. TextOf(none) = <<>> /\ CallsOf(none) = <<>>
      BY NoEvents
    <3>2. TextIn(none) = <<>> /\ CallsIn(none) = <<>>
      BY FlattenEmpty DEF TextIn, CallsIn
    <3> QED BY <3>1, <3>2 DEF Carried
  <2>4. Nothing.type # "content_block_start" /\ Nothing.type \notin Deltas
    BY Types DEF Deltas
  <2>5. \A k \in 1 .. Len(none) : none[k].index = k - 1
    BY <2>1
  <2> HIDE DEF none
  <2>6. Collected(Blocks(none), none)
    BY <2>1, <2>2, <2>3, <2>4, <2>5 DEF Collected
  <2> QED BY <2>1, <2>6 DEF none
<1>2. ASSUME NEW u \in P, NEW e \in Event PROVE Append(u, e) \in P
  <2>1. u \in Seq(Event) /\ (Leads(Nothing, u) => Collected(Blocks(u), u))
    OBVIOUS
  <2>2. Append(u, e) \in Seq(Event)
    BY <2>1, AppendProperties
  <2>3. ASSUME Leads(Nothing, Append(u, e)) PROVE Collected(Blocks(Append(u, e)), Append(u, e))
    <3> HIDE DEF P
    <3>1. Leads(Nothing, u) /\ Follows(LastOf(Nothing, u), e)
      BY <2>1, <2>3, LeadsAppend
    <3> QED BY <2>1, <3>1, CollectedGrows
  <2> QED BY <2>2, <2>3
<1>3. P = Seq(Event)
  <2> HIDE DEF P
  <2>1. P \in SUBSET Seq(Event)
    BY DEF P
  <2> QED BY <1>1, <1>2, <2>1, InductSeq
<1> QED BY <1>3

\* Of a message that has come to its stop.
LEMMA MessageBuilt ==
  ASSUME NEW w \in Seq(Event), Leads(Nothing, w), LastOf(Nothing, w) = Stop
  PROVE  BuildMessage(w) = [text |-> TextOf(w), calls |-> CallsOf(w)]
<1>1. Carried(Blocks(w), w)
  BY MessagesCollected, Types DEF Collected
<1>2. BuildMessage(w) = [text |-> TextIn(Blocks(w)), calls |-> CallsIn(Blocks(w))]
  BY DEF BuildMessage, TextIn, CallsIn
<1> QED BY <1>1, <1>2 DEF Carried

LEMMA StoppedIsReply ==
  ASSUME TypeOK, MessageOK, FinalOK
  PROVE  ClientGetsReply
<1> SUFFICES ASSUME Phase(wire) = "stopped", "u" \notin ToSet(cons.text)
    PROVE  BuildMessage(wire) = cons.final
  BY DEF ClientGetsReply
<1>1. wire \in Seq(Event) /\ cons.out \in Seq(Event) /\ cons.final \in [text : Text, calls : Seq(Call)]
  BY SentType DEF TypeOK, Consumer
<1>2. LastOf(Nothing, wire) = Stop
  BY <1>1, PhaseByLast
<1>3. ~gone
  BY <1>2 DEF MessageOK
<1>4. Leads(Nothing, Sent)
  BY <1>3 DEF MessageOK
<1>5. cons.out = <<>> /\ Sent = wire
  <2>1. cons.out = <<>>
    BY <1>1, <1>2, <1>4, StopIsLast DEF Sent
  <2> QED BY <2>1, SentType
<1>6. cons.pc = "done"
  <2>1. SUFFICES ASSUME cons.pc # "done" PROVE FALSE
    OBVIOUS
  <2>2. cons.committed
    <3>1. SUFFICES ASSUME ~cons.committed PROVE FALSE
      OBVIOUS
    <3>2. LastOf(Nothing, wire) = Nothing
      BY <1>5, <2>1, <3>1, LeadsNowhere DEF MessageOK
    <3> QED BY <1>2, <3>2, Types
  <2>3. Resting(Stop)
    BY <1>2, <1>3, <1>5, <2>1, <2>2 DEF MessageOK
  <2> QED BY <2>3, Types DEF Resting, Between
<1>7. TextOf(wire) = cons.final.text /\ CallsOf(wire) = cons.final.calls
  BY <1>2, <1>3, <1>5, <1>6 DEF FinalOK
<1>8. BuildMessage(wire) = [text |-> TextOf(wire), calls |-> CallsOf(wire)]
  BY <1>1, <1>2, <1>4, <1>5, MessageBuilt
<1>9. cons.final = [text |-> cons.final.text, calls |-> cons.final.calls]
  BY <1>1
<1> QED BY <1>7, <1>8, <1>9

LEMMA InitStreamed == Init => StreamedOK /\ FinalOK
BY DEF Init, StreamedOK, FinalOK

\* A message that ends well is the validated reply, whole and once: what was streamed
\* before the checks is the beginning of whatever the checks make of the text, and the
\* end sends the rest of it and its tool calls.
THEOREM RepliesDelivered == Spec => []ClientGetsReply
<1>1. Init => Inductive
  BY InitTypes, InitMessage, InitComplete, InitStreamed DEF Inductive, Complete
<1>2. Inductive /\ [Next]_vars => Inductive'
  <2> SUFFICES ASSUME TypeOK, MessageOK, Complete, StreamedOK, FinalOK, [Next]_vars
      PROVE  TypeOK' /\ MessageOK' /\ Complete' /\ StreamedOK' /\ FinalOK'
    BY DEF Inductive, Complete
  <2>1. TypeOK'
    BY StepTypes
  <2>2. MessageOK'
    BY StepMessage
  <2>3. Complete'
    BY <2>1, ReaderComplete, ConsumerComplete DEF Next
  <2>4. StreamedOK'
    BY <2>1, StepStreamed
  <2>5. FinalOK'
    BY <2>1, StepFinal
  <2> QED BY <2>1, <2>2, <2>3, <2>4, <2>5
<1>3. Inductive => ClientGetsReply
  BY StoppedIsReply DEF Inductive
<1> QED BY <1>1, <1>2, <1>3, PTL DEF Spec


=============================================================================
