---------------------------- MODULE DerivedProofs ----------------------------
(***************************************************************************)
(* A semantic hit stays in its scope and a share candidate follows the gate, *)
(* for any clients, requests, memories, embedders and similarities.          *)
(***************************************************************************)
EXTENDS Derived, SequenceTheorems, WellFoundedInduction, TLAPS

-----------------------------------------------------------------------------
(* Prompts and their scopes. *)

LEMMA EnrichedPrompt ==
  ASSUME NEW r \in Requests, memories \subseteq Memory
  PROVE  enrichWithMemories(r) \in Prompt
<1>1. r \in Prompt
  BY DerivedAssumption
<1> DEFINE s == r.system
<1>2. s \in Seq(Message)
  BY <1>1 DEF Prompt
<1>3. CASE memories = {}
  <2>1. enrichWithMemories(r) = [r EXCEPT !.system = s]
    BY <1>3 DEF enrichWithMemories
  <2> QED BY <1>1, <1>2, <2>1 DEF Prompt
<1>4. CASE memories # {} /\ s # <<>> /\ s[1].role = "system" /\ s[1].form = "text"
  <2> DEFINE m == [s[1] EXCEPT !.memories = memories]
             t == [s EXCEPT ![1] = m]
  <2>1. 1 \in DOMAIN s /\ s[1] \in Message
    BY <1>2, <1>4
  <2>2. m \in Message
    BY <2>1 DEF Message
  <2>3. t \in Seq(Message)
    <3> HIDE DEF m
    <3> QED BY <1>2, <2>1, <2>2
  <2>4. enrichWithMemories(r) = [r EXCEPT !.system = t]
    BY <1>4 DEF enrichWithMemories
  <2> HIDE DEF t
  <2> QED BY <1>1, <2>3, <2>4 DEF Prompt
<1>5. CASE memories # {} /\ ~(s # <<>> /\ s[1].role = "system" /\ s[1].form = "text")
  <2> DEFINE t == <<OwnMessage>> \o s
  <2>1. OwnMessage \in Message
    <3>1. memories \in SUBSET Memory
      OBVIOUS
    <3> QED BY <3>1 DEF OwnMessage, Message
  <2>2. t \in Seq(Message)
    BY <1>2, <2>1
  <2>3. enrichWithMemories(r) = [r EXCEPT !.system = t]
    BY <1>5 DEF enrichWithMemories
  <2> HIDE DEF t
  <2> QED BY <1>1, <2>2, <2>3 DEF Prompt
<1> QED BY <1>3, <1>4, <1>5

\* A sequence of at most one element.
LEMMA ShortSequence ==
  ASSUME NEW S, NEW s \in Seq(S), Len(s) <= 1
  PROVE  s = <<>> \/ (1 \in DOMAIN s /\ DOMAIN s = {1} /\ s = <<s[1]>> /\ s[1] \in S)
<1>1. CASE Len(s) = 0
  <2>1. s = <<>>
    BY <1>1, EmptySeq
  <2> QED BY <2>1
<1>2. CASE Len(s) = 1
  <2> DEFINE t == <<s[1]>>
  <2>1. DOMAIN s = {1} /\ s[1] \in S
    BY <1>2
  <2>2. t \in Seq(S) /\ Len(t) = 1 /\ t[1] = s[1]
    BY <2>1
  <2>3. s = t
    <3> HIDE DEF t
    <3> QED BY <1>2, <2>2, SeqEqual
  <2> QED BY <2>1, <2>3
<1>3. Len(s) = 0 \/ Len(s) = 1
  <2> DEFINE n == Len(s)
  <2>1. n \in Nat /\ n <= 1
    OBVIOUS
  <2> HIDE DEF n
  <2>2. n = 0 \/ n = 1
    BY <2>1
  <2> QED BY <2>2 DEF n
<1> QED BY <1>1, <1>2, <1>3, Zenon

LEMMA PlainScope ==
  ASSUME NEW p \in Prompt, Plain(p.system)
  PROVE  \/ p.system = <<>> /\ systemPrompt(p) = <<>>
         \/ /\ p.system = <<p.system[1]>> /\ p.system[1] \in Message
            /\ p.system[1].role = "system" /\ p.system[1].form = "text"
            /\ systemPrompt(p) = <<p.system[1].memories, p.system[1].text>>
<1> DEFINE s == p.system
<1>1. s \in Seq(Message) /\ Len(s) <= 1
  BY DEF Prompt, Plain
<1>2. CASE s = <<>>
  <2>1. Texts(p) = {}
    BY <1>2 DEF Texts
  <2> QED BY <1>2, <2>1 DEF systemPrompt
<1>3. CASE 1 \in DOMAIN s /\ DOMAIN s = {1} /\ s = <<s[1]>> /\ s[1] \in Message
  <2>1. s[1].form = "text" /\ s[1].role = "system" /\ ~Empty(s[1])
    BY <1>3 DEF Plain
  <2>2. Texts(p) = {1}
    BY <1>3, <2>1 DEF Texts
  <2>3. Min(Texts(p)) = 1
    BY <2>2 DEF Min
  <2> QED BY <1>3, <2>1, <2>2, <2>3 DEF systemPrompt, FirstText
<1> QED BY <1>1, <1>2, <1>3, ShortSequence

\* Under the same scope, plain requests have the same system messages.
LEMMA SameScope ==
  ASSUME NEW p \in Prompt, NEW q \in Prompt, Plain(p.system), Plain(q.system),
         systemPrompt(p) = systemPrompt(q)
  PROVE  p.system = q.system
<1>1. ASSUME NEW m \in Message, NEW n \in Message, m.role = n.role, m.form = n.form,
             <<m.memories, m.text>> = <<n.memories, n.text>>
      PROVE  m = n
  <2>1. m.memories = n.memories /\ m.text = n.text /\ m.role = n.role /\ m.form = n.form
    BY <1>1
  <2>2. /\ m = [role |-> m.role, form |-> m.form, memories |-> m.memories, text |-> m.text]
        /\ n = [role |-> n.role, form |-> n.form, memories |-> n.memories, text |-> n.text]
    BY DEF Message
  <2> QED BY <2>1, <2>2
<1>2. CASE p.system = <<>> /\ q.system = <<>>
  BY <1>2
<1>3. CASE p.system # <<>> /\ q.system # <<>>
  <2>1. p.system[1] = q.system[1]
    BY <1>1, <1>3, PlainScope
  <2> QED BY <1>3, <2>1, PlainScope
<1>4. <<>> # <<p.system[1].memories, p.system[1].text>> /\ <<>> # <<q.system[1].memories, q.system[1].text>>
  OBVIOUS
<1> QED BY <1>2, <1>3, <1>4, PlainScope

\* A set of numbers has a least one.
LEMMA LeastNumber ==
  ASSUME NEW T \in SUBSET Nat, T # {}
  PROVE  Min(T) \in T
<1> DEFINE R == OpToRel(<, Nat)
<1>1. IsWellFoundedOn(R, Nat)
  BY NatLessThanWellFounded
<1>2. ASSUME NEW x \in Nat, NEW y \in Nat, x < y PROVE <<x, y>> \in R
  BY <1>2 DEF OpToRel
<1> HIDE DEF R
<1>3. PICK x \in T : \A y \in T : <<y, x>> \notin R
  BY <1>1, WFMin
<1>4. ASSUME NEW y \in T PROVE x <= y
  <2>1. x \in Nat /\ y \in Nat /\ <<y, x>> \notin R
    BY <1>3
  <2>2. ~(y < x)
    BY <1>2, <2>1
  <2> QED BY <2>1, <2>2
<1> QED BY <1>4 DEF Min

LEMMA ScopeInScope ==
  ASSUME NEW p \in Prompt
  PROVE  systemPrompt(p) \in Scope
<1>1. CASE Texts(p) = {}
  BY <1>1 DEF systemPrompt, Scope
<1>2. CASE Texts(p) # {}
  <2>1. p.system \in Seq(Message)
    BY DEF Prompt
  <2>2. Texts(p) \in SUBSET Nat /\ Texts(p) \subseteq DOMAIN p.system
    BY <2>1 DEF Texts
  <2>3. FirstText(p) \in Message
    BY <1>2, <2>1, <2>2, LeastNumber DEF FirstText
  <2>4. FirstText(p).memories \in SUBSET Memory /\ FirstText(p).text \in Wordings \cup {""}
    BY <2>3 DEF Message
  <2> QED BY <1>2, <2>4 DEF systemPrompt, Scope
<1> QED BY <1>1, <1>2

LEMMA NewEntry ==
  ASSUME NEW p \in Prompt, embedder \in Embedders
  PROVE  EntryOf(p) \in Entry /\ EntryOf(p).prompt = p /\ Derives(EntryOf(p))
<1>1. systemPrompt(p) \in Scope /\ p.query \in Queries
  BY ScopeInScope DEF Prompt
<1> QED BY <1>1 DEF EntryOf, Entry, Derives

-----------------------------------------------------------------------------
(* The states of a client and of the indexer. *)

LEMMA ClientStates ==
  /\ Idle \in Client
  /\ \A p \in Prompt : [pc |-> "asked", prompt |-> p] \in Client
  /\ \A p \in Prompt, e \in Entry : [pc |-> "served", prompt |-> p, entry |-> e] \in Client
BY DEF Client, Idle

LEMMA ClientShapes ==
  ASSUME NEW t \in Client
  PROVE  /\ t.pc # "idle" => t.prompt \in Prompt
         /\ t.pc = "served" => t.entry \in Entry
         /\ t.pc \in {"asked", "upstream", "store", "vector"} =>
              \A pc \in {"asked", "upstream", "store", "vector"} :
                [t EXCEPT !.pc = pc] \in Client /\ [t EXCEPT !.pc = pc].pc = pc
BY DEF Client, Idle

LEMMA ClientBecomes ==
  ASSUME TypeOK, ServedAlike, NEW c \in Clients, NEW s \in Client, Becomes(c, s), s.pc # "served"
  PROVE  client' \in [Clients -> Client] /\ ServedAlike'
<1>1. client \in [Clients -> Client]
  BY DEF TypeOK
<1>2. client' = [client EXCEPT ![c] = s]
  BY DEF Becomes
<1>3. \A d \in Clients : client'[d] = IF d = c THEN s ELSE client[d]
  BY <1>1, <1>2
<1>4. client' \in [Clients -> Client]
  BY <1>1, <1>2
<1> QED BY <1>3, <1>4 DEF ServedAlike

LEMMA ClientsStay ==
  ASSUME ServedAlike, client' = client
  PROVE  ServedAlike'
BY DEF ServedAlike

\* Entries that go leave the others as they were.
LEMMA FewerEntries ==
  ASSUME TypeOK, AllDerive, index' \subseteq index, vectors' \subseteq vectors
  PROVE  AllDerive' /\ index' \cup vectors' \subseteq Entry
BY DEF AllDerive, TypeOK

LEMMA PurgedFewer ==
  ASSUME NEW entries
  PROVE  Purged(entries) \subseteq entries
BY DEF Purged

-----------------------------------------------------------------------------
(* The invariant holds at first, and every action keeps it. *)

LEMMA InitInductive == Init => Inductive
<1> SUFFICES ASSUME Init PROVE Inductive
  OBVIOUS
<1>1. TypeOK
  <2>1. client \in [Clients -> Client] /\ replies \in 0 .. MaxReplies
    BY ClientStates, DerivedAssumption DEF Init
  <2>2. indexer \in Indexer
    BY DEF Init, Indexer
  <2> QED BY <2>1, <2>2 DEF Init, TypeOK
<1>2. AllDerive /\ VectorsHaveRows /\ Gated
  BY DEF Init, AllDerive, VectorsHaveRows, Gated
<1>3. ServedAlike
  BY DEF Init, ServedAlike, Idle
<1> QED BY <1>1, <1>2, <1>3 DEF Inductive

LEMMA MemoriesKeep ==
  ASSUME Inductive, NEW m \in Memory, SaveMemory(m) \/ DeleteMemory(m)
  PROVE  Inductive'
<1>1. /\ memories' \subseteq Memory
      /\ UNCHANGED <<rows, pending, index, vectors, embedder, purged, client, replies, searchVars, shareVars>>
  BY DEF SaveMemory, DeleteMemory, Inductive, TypeOK
<1> QED BY <1>1 DEF Inductive, TypeOK, AllDerive, VectorsHaveRows, ServedAlike, Gated, searchVars, shareVars

LEMMA AskKeeps ==
  ASSUME Inductive, NEW c \in Clients, NEW r \in Requests, Ask(c, r)
  PROVE  Inductive'
<1> DEFINE s == [pc |-> "asked", prompt |-> enrichWithMemories(r)]
<1>1. UNCHANGED <<memories, rows, pending, index, vectors, embedder, purged, replies, searchVars, shareVars>>
  BY DEF Ask
<1>2. s \in Client /\ s.pc # "served" /\ Becomes(c, s)
  BY ClientStates, EnrichedPrompt DEF Ask, Inductive, TypeOK
<1> HIDE DEF s
<1>3. client' \in [Clients -> Client] /\ ServedAlike'
  BY <1>2, ClientBecomes DEF Inductive
<1> QED BY <1>1, <1>3 DEF Inductive, TypeOK, AllDerive, VectorsHaveRows, Gated, searchVars, shareVars

\* A client that goes on, or back, and leaves all else.
LEMMA GoesOnKeeps ==
  ASSUME Inductive, NEW c \in Clients, ExactHit(c) \/ NoLookup(c) \/ Done(c)
  PROVE  Inductive'
<1>1. UNCHANGED <<memories, rows, pending, index, vectors, embedder, purged, replies, searchVars, shareVars>>
  BY DEF ExactHit, NoLookup, Done
<1>2. PICK s \in Client : s.pc # "served" /\ Becomes(c, s)
  <2>1. CASE ExactHit(c) \/ Done(c)
    BY <2>1, ClientStates DEF ExactHit, Done, Idle
  <2>2. CASE NoLookup(c)
    <3>1. client[c] \in Client /\ client[c].pc = "asked" /\ Becomes(c, At(c, "upstream"))
      BY <2>2 DEF NoLookup, Inductive, TypeOK
    <3>2. At(c, "upstream") \in Client /\ At(c, "upstream").pc = "upstream"
      BY <3>1, ClientShapes DEF At
    <3> QED BY <3>1, <3>2
  <2> QED BY <2>1, <2>2
<1>3. client' \in [Clients -> Client] /\ ServedAlike'
  BY <1>2, ClientBecomes DEF Inductive
<1> QED BY <1>1, <1>3 DEF Inductive, TypeOK, AllDerive, VectorsHaveRows, Gated, searchVars, shareVars

\* What a search returns matches what was asked.
LEMMA Found ==
  ASSUME NEW p \in Prompt, NEW e \in Search(p)
  PROVE  e \in index /\ e.scope = systemPrompt(p) /\ <<e.query, p.query>> \in Near
BY DEF Search, Matches, CosineReaches

LEMMA LookupKeeps ==
  ASSUME Inductive, NEW c \in Clients, Lookup(c)
  PROVE  Inductive'
<1> DEFINE p == client[c].prompt
<1>1. /\ UNCHANGED <<memories, rows, pending, embedder, replies, searchVars, shareVars>>
      /\ purged' = TRUE /\ index' \subseteq index /\ vectors' \subseteq vectors
  BY PurgedFewer DEF Lookup, PurgeOtherDimensions
<1>2. client[c] \in Client /\ client[c].pc = "asked" /\ p \in Prompt
  BY ClientShapes DEF Lookup, Inductive, TypeOK
<1>3. client' \in [Clients -> Client] /\ ServedAlike'
  <2>1. CASE Becomes(c, At(c, "upstream"))
    <3>1. At(c, "upstream") \in Client /\ At(c, "upstream").pc = "upstream"
      BY <1>2, ClientShapes DEF At
    <3> QED BY <2>1, <3>1, ClientBecomes DEF Inductive
  <2>2. ASSUME NEW e \in Search(p), Becomes(c, [pc |-> "served", prompt |-> p, entry |-> e])
        PROVE  client' \in [Clients -> Client] /\ ServedAlike'
    <3> DEFINE s == [pc |-> "served", prompt |-> p, entry |-> e]
    <3>1. e \in index /\ e.scope = systemPrompt(p) /\ <<e.query, p.query>> \in Near
      BY <1>2, Found
    <3>2. e \in Entry /\ Derives(e)
      BY <3>1 DEF Inductive, TypeOK, AllDerive
    <3>3. s \in Client /\ s.prompt = p /\ s.entry = e
      BY <1>2, <3>2, ClientStates
    <3>4. client \in [Clients -> Client] /\ client' = [client EXCEPT ![c] = s]
      BY <2>2 DEF Becomes, Inductive, TypeOK
    <3> HIDE DEF s, p
    <3>5. client' \in [Clients -> Client] /\ \A d \in Clients : client'[d] = IF d = c THEN s ELSE client[d]
      BY <3>3, <3>4
    <3> QED BY <3>1, <3>2, <3>3, <3>5 DEF ServedAlike, Inductive
  <2> QED BY <2>1, <2>2 DEF Lookup
<1>4. AllDerive' /\ index' \cup vectors' \subseteq Entry
  BY <1>1, FewerEntries DEF Inductive
<1>5. VectorsHaveRows'
  BY <1>1 DEF VectorsHaveRows, Inductive
<1> QED BY <1>1, <1>3, <1>4, <1>5 DEF Inductive, TypeOK, Gated, searchVars, shareVars

LEMMA SetKeeps ==
  ASSUME Inductive, NEW c \in Clients, Set(c)
  PROVE  Inductive'
<1>1. /\ UNCHANGED <<memories, rows, index, vectors, embedder, purged, searchVars, shareVars>>
      /\ replies' = replies + 1 /\ replies < MaxReplies
      /\ pending' \subseteq pending \cup {client[c].prompt}
  BY DEF Set
<1>2. client[c] \in Client /\ client[c].pc = "upstream" /\ Becomes(c, At(c, "store"))
  BY DEF Set, Inductive, TypeOK
<1>3. At(c, "store") \in Client /\ At(c, "store").pc = "store" /\ client[c].prompt \in Prompt
  BY <1>2, ClientShapes DEF At
<1>4. client' \in [Clients -> Client] /\ ServedAlike'
  BY <1>2, <1>3, ClientBecomes DEF Inductive
<1>5. replies' \in 0 .. MaxReplies
  BY <1>1, DerivedAssumption DEF Inductive, TypeOK
<1> QED BY <1>1, <1>3, <1>4, <1>5 DEF Inductive, TypeOK, AllDerive, VectorsHaveRows, Gated, searchVars, shareVars

LEMMA StoreKeeps ==
  ASSUME Inductive, NEW c \in Clients, Store(c)
  PROVE  Inductive'
<1> DEFINE p == client[c].prompt
<1>1. UNCHANGED <<memories, rows, pending, embedder, replies, searchVars, shareVars>>
  BY DEF Store
<1>2. client[c] \in Client /\ client[c].pc = "store" /\ p \in Prompt
  BY ClientShapes DEF Store, Inductive, TypeOK
<1>3. CASE Becomes(c, Idle) /\ UNCHANGED <<index, vectors, purged>>
  <2>1. client' \in [Clients -> Client] /\ ServedAlike'
    BY <1>3, ClientStates, ClientBecomes DEF Idle, Inductive
  <2> QED
    BY <1>1, <1>3, <2>1 DEF Inductive, TypeOK, AllDerive, VectorsHaveRows, Gated, searchVars, shareVars
<1>4. CASE /\ PurgeOtherDimensions /\ Becomes(c, At(c, "vector"))
           /\ index' = Purged(index) \cup {EntryOf(p)}
  <2>1. At(c, "vector") \in Client /\ At(c, "vector").pc = "vector"
    BY <1>2, ClientShapes DEF At
  <2>2. client' \in [Clients -> Client] /\ ServedAlike'
    BY <1>4, <2>1, ClientBecomes DEF Inductive
  <2>3. EntryOf(p) \in Entry /\ Derives(EntryOf(p))
    BY <1>2, NewEntry DEF Inductive, TypeOK
  <2>4. vectors' \subseteq vectors /\ purged' = TRUE /\ index' \subseteq index \cup {EntryOf(p)}
    BY <1>4, PurgedFewer DEF PurgeOtherDimensions
  <2> HIDE DEF p
  <2>5. AllDerive' /\ index' \cup vectors' \subseteq Entry
    BY <2>3, <2>4 DEF AllDerive, Inductive, TypeOK
  <2>6. VectorsHaveRows'
    BY <1>1, <2>4 DEF VectorsHaveRows, Inductive
  <2> QED BY <1>1, <2>2, <2>4, <2>5, <2>6 DEF Inductive, TypeOK, Gated, searchVars, shareVars
<1> QED BY <1>3, <1>4 DEF Store

LEMMA InsertVectorKeeps ==
  ASSUME Inductive, NEW c \in Clients, InsertVector(c)
  PROVE  Inductive'
<1> DEFINE p == client[c].prompt
<1>1. UNCHANGED <<memories, rows, pending, index, embedder, purged, replies, searchVars, shareVars>>
  BY DEF InsertVector
<1>2. p \in Prompt
  BY ClientShapes DEF InsertVector, Inductive, TypeOK
<1>3. client' \in [Clients -> Client] /\ ServedAlike'
  BY ClientStates, ClientBecomes DEF InsertVector, Idle, Inductive
<1>4. EntryOf(p) \in Entry /\ Derives(EntryOf(p)) /\ EntryOf(p).prompt = p
  BY <1>2, NewEntry DEF Inductive, TypeOK
<1>5. vectors' \subseteq vectors \cup {EntryOf(p)} /\ (EntryOf(p) \in vectors' \ vectors => p \in rows)
  BY DEF InsertVector
<1> HIDE DEF p
<1>6. AllDerive' /\ index' \cup vectors' \subseteq Entry
  BY <1>1, <1>4, <1>5 DEF AllDerive, Inductive, TypeOK
<1>7. VectorsHaveRows'
  BY <1>1, <1>4, <1>5 DEF VectorsHaveRows, Inductive
<1> QED BY <1>1, <1>3, <1>6, <1>7 DEF Inductive, TypeOK, Gated, searchVars, shareVars

LEMMA RowsKeep ==
  ASSUME Inductive, NEW p, \/ p \in pending /\ WriteRow(p)
                           \/ p \in rows /\ DeleteRow(p)
                           \/ p \in rows \cup {e.prompt : e \in index} /\ Expire(p)
  PROVE  Inductive'
<1>1. /\ UNCHANGED <<memories, embedder, purged, client, replies, searchVars, shareVars>>
      /\ rows' \cup pending' \subseteq rows \cup pending
      /\ index' \subseteq index /\ vectors' \subseteq vectors
  BY DEF WriteRow, DeleteRow, Expire
<1>2. AllDerive' /\ index' \cup vectors' \subseteq Entry
  BY <1>1, FewerEntries DEF Inductive
<1>3. VectorsHaveRows'
  BY DEF WriteRow, DeleteRow, Expire, VectorsOf, VectorsHaveRows, Inductive
<1>4. ServedAlike'
  BY <1>1, ClientsStay DEF Inductive
<1> QED BY <1>1, <1>2, <1>3, <1>4 DEF Inductive, TypeOK, Gated, searchVars, shareVars

LEMMA RestartKeeps ==
  ASSUME Inductive, NEW e \in Embedders, Restart(e)
  PROVE  Inductive'
<1>1. /\ UNCHANGED <<memories, vectors, replies, texts, shareVars>>
      /\ embedder' = e /\ purged' = FALSE /\ pending' = {} /\ index' \subseteq vectors
      /\ rows \subseteq rows' /\ rows' \subseteq rows \cup pending
  BY DEF Restart
<1>2. client' \in [Clients -> Client] /\ ServedAlike'
  BY ClientStates DEF Restart, ServedAlike, Idle
<1>3. indexer' \in Indexer
  BY DEF Restart, Indexer
<1>4. AllDerive' /\ VectorsHaveRows'
  BY <1>1 DEF AllDerive, VectorsHaveRows, Inductive
<1> QED BY <1>1, <1>2, <1>3, <1>4 DEF Inductive, TypeOK, Gated, shareVars

\* The indexer changes only the search texts.
LEMMA IndexerKeeps ==
  ASSUME Inductive,
         ListUnindexed \/ ReadPrompt \/ InsertText \/ StopIndexing \/ Prune \/ PruneFails
  PROVE  Inductive'
<1>1. UNCHANGED <<memories, rows, semanticVars, shareVars>>
  BY DEF ListUnindexed, ReadPrompt, InsertText, StopIndexing, Prune, PruneFails, Rests
<1>2. indexer \in Indexer /\ rows \cup texts \subseteq Prompt
  BY DEF Inductive, TypeOK
<1>3. indexer' \in Indexer /\ texts' \subseteq Prompt
  <2>1. CASE ListUnindexed \/ StopIndexing \/ Prune \/ PruneFails
    BY <1>2, <2>1 DEF ListUnindexed, StopIndexing, Prune, PruneFails, PruneCacheSearch, Indexer
  <2>2. CASE ReadPrompt
    <3>1. indexer \in [pc : {"row"}, todo : SUBSET Prompt]
      BY <1>2, <2>2 DEF ReadPrompt, Indexer
    <3> QED BY <1>2, <2>2, <3>1 DEF ReadPrompt, Indexer
  <2>3. CASE InsertText
    <3>1. indexer \in [pc : {"insert"}, todo : SUBSET Prompt, prompt : Prompt]
      BY <1>2, <2>3 DEF InsertText, Indexer
    <3> QED BY <1>2, <2>3, <3>1 DEF InsertText, Indexer
  <2> QED BY <2>1, <2>2, <2>3
<1> QED
  BY <1>1, <1>3
  DEF Inductive, TypeOK, AllDerive, VectorsHaveRows, ServedAlike, Gated, semanticVars, shareVars

LEMMA SharingKeeps ==
  ASSUME Inductive, ChangeGate \/ ReconcileShareCandidates
  PROVE  Inductive'
<1>1. UNCHANGED <<memories, rows, semanticVars, searchVars>>
  BY DEF ChangeGate, ReconcileShareCandidates
<1>2. denied' \cup candidates' \subseteq Sharable /\ scanned' \in BOOLEAN /\ Gated'
  BY DEF ChangeGate, ReconcileShareCandidates, scanCache, Extracted, stillPasses, Passes, Gated, Inductive, TypeOK
<1> QED
  BY <1>1, <1>2
  DEF Inductive, TypeOK, AllDerive, VectorsHaveRows, ServedAlike, semanticVars, searchVars

LEMMA StepInductive == Inductive /\ [Next]_vars => Inductive'
<1> SUFFICES ASSUME Inductive, [Next]_vars PROVE Inductive'
  OBVIOUS
<1>1. ASSUME NEW m \in Memory, SaveMemory(m) \/ DeleteMemory(m) PROVE Inductive'
  BY <1>1, MemoriesKeep
<1>2. ASSUME NEW c \in Clients, NEW r \in Requests, Ask(c, r) PROVE Inductive'
  BY <1>2, AskKeeps
<1>3. ASSUME NEW c \in Clients,
             \/ ExactHit(c) \/ Lookup(c) \/ NoLookup(c) \/ Done(c) \/ Set(c) \/ Store(c) \/ InsertVector(c)
      PROVE  Inductive'
  BY <1>3, GoesOnKeeps, LookupKeeps, SetKeeps, StoreKeeps, InsertVectorKeeps
<1>4. ASSUME NEW p, \/ p \in pending /\ WriteRow(p)
                    \/ p \in rows /\ DeleteRow(p)
                    \/ p \in rows \cup {e.prompt : e \in index} /\ Expire(p)
      PROVE  Inductive'
  BY <1>4, RowsKeep
<1>5. ASSUME NEW e \in Embedders, Restart(e) PROVE Inductive'
  BY <1>5, RestartKeeps
<1>6. CASE ListUnindexed \/ ReadPrompt \/ InsertText \/ StopIndexing \/ Prune \/ PruneFails
  BY <1>6, IndexerKeeps
<1>7. CASE ChangeGate \/ ReconcileShareCandidates
  BY <1>7, SharingKeeps
<1>8. CASE UNCHANGED vars
  BY <1>8
  DEF vars, semanticVars, searchVars, shareVars,
      Inductive, TypeOK, AllDerive, VectorsHaveRows, ServedAlike, Gated
<1> QED BY <1>1, <1>2, <1>3, <1>4, <1>5, <1>6, <1>7, <1>8 DEF Next

LEMMA AlwaysInductive == Spec => []Inductive
BY InitInductive, StepInductive, PTL DEF Spec

-----------------------------------------------------------------------------
\* The tables, the index and the clients' requests keep their types.
THEOREM TypeCorrect == Spec => []TypeOK
BY AlwaysInductive, PTL DEF Inductive

\* HitInScope for any clients, requests, memories, embedders and similarity.
THEOREM HitsStayInScope == Spec => []HitInScope
<1>1. Inductive => HitInScope
  <2> SUFFICES ASSUME Inductive, NEW c \in Clients, client[c].pc = "served",
                      Plain(client[c].prompt.system), Plain(client[c].entry.prompt.system)
               PROVE  /\ client[c].prompt.system = client[c].entry.prompt.system
                      /\ <<client[c].entry.prompt.query, client[c].prompt.query>> \in Near
    BY DEF HitInScope
  <2>1. client[c].prompt \in Prompt /\ client[c].entry \in Entry
    BY ClientShapes DEF Inductive, TypeOK
  <2>2. client[c].entry.prompt \in Prompt
    BY <2>1 DEF Entry
  <2>3. /\ systemPrompt(client[c].entry.prompt) = systemPrompt(client[c].prompt)
        /\ <<client[c].entry.prompt.query, client[c].prompt.query>> \in Near
    BY DEF Inductive, ServedAlike, Derives
  <2> QED BY <2>1, <2>2, <2>3, SameScope
<1> QED BY <1>1, AlwaysInductive, PTL

\* The foreign key of semantic_embeddings: no vector outlives its row, so that no
\* restart brings back the vector of a row that was deleted.
THEOREM NoVectorWithoutRow == Spec => []VectorsHaveRows
BY AlwaysInductive, PTL DEF Inductive

\* CandidatesFollowGate for any questions, gates and rows.
THEOREM CandidatesPassTheGate == Spec => CandidatesFollowGate
<1> DEFINE A == /\ scanned' => candidates' \cap denied' = {}
                /\ candidates \ denied \subseteq candidates'
<1>1. Inductive /\ Inductive' /\ [Next]_vars => [A]_vars
  <2> SUFFICES ASSUME Inductive, Inductive', Next PROVE A
    OBVIOUS
  <2>1. scanned' => candidates' \cap denied' = {}
    BY DEF Inductive, Gated
  <2>2. CASE ReconcileShareCandidates
    BY <2>1, <2>2 DEF ReconcileShareCandidates, stillPasses, Passes, Inductive, TypeOK
  <2>3. CASE candidates' = candidates
    BY <2>1, <2>3
  <2>4. ReconcileShareCandidates \/ candidates' = candidates
    BY DEF Next, SaveMemory, DeleteMemory, Ask, ExactHit, Lookup, NoLookup, Done, Set, Store,
           InsertVector, WriteRow, DeleteRow, Expire, Restart, ListUnindexed, ReadPrompt, InsertText,
           StopIndexing, Prune, PruneFails, Rests, ChangeGate, shareVars
  <2> QED BY <2>1, <2>2, <2>3, <2>4
<1> QED BY <1>1, AlwaysInductive, PTL DEF Spec, CandidatesFollowGate
=============================================================================
