------------------------------ MODULE Derived -------------------------------
(***************************************************************************)
(* What is derived from the cache's rows and has to follow them: the        *)
(* semantic index (internal/cache/semantic), in memory and in its table; the *)
(* search texts that a background indexer keeps (internal/db/search.go); and *)
(* the questions a user may share (internal/db/share_candidates.go).        *)
(*                                                                          *)
(* A request is [system, before, query]: its system messages in order, each *)
(* with its role, its form ("text", or "parts" for a list of parts) and its *)
(* text, what was said before its last user message, and the words of that. *)
(* (An Anthropic request has one system message at most, and its parts are  *)
(* text.)  With the memories put in front it is a prompt, and so the hash of *)
(* its row: all of it is hashed, while a semantic search sees the system    *)
(* prompt and the query only.  The model and the tools are the same in all. *)
(* An expired entry is passed over by every search and every load: here it  *)
(* is gone.                                                                 *)
(***************************************************************************)
EXTENDS Integers, SequencesExt

CONSTANTS
  Clients, Requests,
  Wordings,      \* the texts of system messages
  Before,        \* conversations that may come before the last user message
  Memory,        \* what may be remembered for the requests' project
  Near,          \* the pairs of queries whose similarity reaches the threshold
  Eligible,      \* the queries that CheckSemanticEligibility lets pass
  Embedders, Dimension, \* embedders, and the length of their vectors
  Sharable,      \* the questions a client may share, its own and not curated
  Standalone,    \* <<before, query>>: there Extract takes the query for a question
  MaxReplies     \* bound: replies stored

Queries == {r.query : r \in Requests}

Message ==
  [role : {"system", "developer"}, form : {"text", "parts"}, memories : SUBSET Memory,
   text : Wordings \cup {""}]

Prompt == [system : Seq(Message), before : Before, query : Queries]

ASSUME DerivedAssumption ==
  /\ \A r \in Requests : r \in Prompt /\ \A i \in DOMAIN r.system : r.system[i].memories = {}
  /\ \A q \in Queries : <<q, q>> \in Near
  /\ Eligible \subseteq Queries /\ Sharable \subseteq Queries
  /\ Standalone \subseteq Before \X Queries
  /\ \A e, f \in Embedders : Dimension[e] = Dimension[f] => e = f
  /\ MaxReplies \in Nat

VARIABLES
  memories,   \* gateway_memories
  rows,       \* cache_entries: the prompts that have a row
  pending,    \* the rows that the exact cache's worker has yet to write
  index,      \* VectorIndex.entries
  vectors,    \* semantic_embeddings
  embedder,   \* the configured one
  purged,     \* purgeOnce
  client,     \* what each client's request is at
  replies,    \* bound: replies stored so far
  texts,      \* cache_search: the prompts that have a search text
  indexer,    \* what RunSearchIndexer is at
  denied,     \* the questions that the share gate, as it is built now, turns away
  candidates, \* share_candidates, all of them pending: no program decides on one yet
  scanned     \* history: a scan has been run with this gate

semanticVars == <<memories, pending, index, vectors, embedder, purged, client, replies>>
searchVars == <<texts, indexer>>
shareVars == <<denied, candidates, scanned>>
vars == <<rows, semanticVars, searchVars, shareVars>>

-----------------------------------------------------------------------------
(* Requests *)

OwnMessage == [role |-> "system", form |-> "text", memories |-> memories, text |-> ""]

\* The memories go in front of a first message that is a system message in text,
\* else into a system message of their own.
enrichWithMemories(r) ==
  LET s == r.system
  IN  [r EXCEPT !.system =
        IF memories = {} THEN s
        ELSE IF s # <<>> /\ s[1].role = "system" /\ s[1].form = "text"
             THEN [s EXCEPT ![1].memories = memories]
             ELSE <<OwnMessage>> \o s]

Empty(message) == message.memories = {} /\ message.text = ""

Texts(prompt) ==
  {i \in DOMAIN prompt.system : prompt.system[i].form = "text" /\ ~Empty(prompt.system[i])}

FirstText(prompt) == prompt.system[Min(Texts(prompt))]

\* Mutant: the system prompt is taken before the memories are put in.
BareScope(prompt) == IF Texts(prompt) = {} THEN <<>> ELSE <<{}, FirstText(prompt).text>>

\* What extractPromptDetails takes for the system prompt: the first message, of
\* either role, whose content is text and not empty.
systemPrompt(prompt) ==
  IF Texts(prompt) = {} THEN <<>> ELSE <<FirstText(prompt).memories, FirstText(prompt).text>>

Idle == [pc |-> "idle"]

Init ==
  /\ memories = {} /\ rows = {} /\ pending = {}
  /\ index = {} /\ vectors = {}
  /\ embedder \in Embedders /\ purged = FALSE
  /\ client = [c \in Clients |-> Idle] /\ replies = 0
  /\ texts = {} /\ indexer = [pc |-> "list"]
  /\ denied = {} /\ candidates = {} /\ scanned = FALSE

-----------------------------------------------------------------------------
(* Memories *)

SaveMemory(m) ==
  /\ m \notin memories /\ memories' = memories \cup {m}
  /\ UNCHANGED <<rows, pending, index, vectors, embedder, purged, client, replies, searchVars, shareVars>>

DeleteMemory(m) ==
  /\ m \in memories /\ memories' = memories \ {m}
  /\ UNCHANGED <<rows, pending, index, vectors, embedder, purged, client, replies, searchVars, shareVars>>

-----------------------------------------------------------------------------
(* The semantic cache *)

\* The cosine of two vectors of different lengths is 0.
CosineReaches(v, query) == v.dimension = Dimension[embedder] /\ <<v.query, query>> \in Near

Matches(e, prompt) ==
  /\ e.scope = systemPrompt(prompt)
  /\ CosineReaches(e, prompt.query)

\* The query's own vector is the closest.  Which of several is served, the oldest or
\* another that is as close, is left open.
Search(prompt) ==
  LET found == {e \in index : Matches(e, prompt)}
      same == {e \in found : e.query = prompt.query}
  IN  IF same # {} THEN same ELSE found

\* Once per process, with the first query that is embedded, the vectors of another
\* length are dropped, in memory and then in the table.  (If the process ends in
\* between, the next one does it again.)
Purged(entries) ==
  IF purged THEN entries ELSE {e \in entries : e.dimension = Dimension[embedder]}

PurgeOtherDimensions == purged' = TRUE /\ vectors' = Purged(vectors)

Becomes(c, state) == client' = [client EXCEPT ![c] = state]

At(c, pc) == [client[c] EXCEPT !.pc = pc]

Ask(c, r) ==
  /\ client[c].pc = "idle"
  /\ Becomes(c, [pc |-> "asked", prompt |-> enrichWithMemories(r)])
  /\ UNCHANGED <<memories, rows, pending, index, vectors, embedder, purged, replies, searchVars, shareVars>>

\* A row, or a reply on its way to one, answers the same prompt again.
ExactHit(c) ==
  /\ client[c].pc = "asked" /\ client[c].prompt \in rows \cup pending
  /\ Becomes(c, Idle)
  /\ UNCHANGED <<memories, rows, pending, index, vectors, embedder, purged, replies, searchVars, shareVars>>

Lookup(c) ==
  /\ client[c].pc = "asked" /\ client[c].prompt \notin rows
  /\ client[c].prompt.query \in Eligible
  /\ PurgeOtherDimensions
  /\ index' = Purged(index)
  /\ LET found == Search(client[c].prompt)
     IN  \/ \E e \in found : Becomes(c, [pc |-> "served", prompt |-> client[c].prompt, entry |-> e])
         \/ found = {} /\ Becomes(c, At(c, "upstream"))
  /\ UNCHANGED <<memories, rows, pending, embedder, replies, searchVars, shareVars>>

\* The guardrails, or an embedder that fails, leave the request to the upstream.
NoLookup(c) ==
  /\ client[c].pc = "asked" /\ client[c].prompt \notin rows
  /\ Becomes(c, At(c, "upstream"))
  /\ UNCHANGED <<memories, rows, pending, index, vectors, embedder, purged, replies, searchVars, shareVars>>

Done(c) ==
  /\ client[c].pc \in {"served", "upstream"}
  /\ Becomes(c, Idle)
  /\ UNCHANGED <<memories, rows, pending, index, vectors, embedder, purged, replies, searchVars, shareVars>>

\* The reply is cached first, which queues its row, unless the queue is full.
Set(c) ==
  /\ client[c].pc = "upstream" /\ replies < MaxReplies
  /\ replies' = replies + 1
  /\ pending' \in {pending, pending \cup {client[c].prompt}}
  /\ Becomes(c, At(c, "store"))
  /\ UNCHANGED <<memories, rows, index, vectors, embedder, purged, searchVars, shareVars>>

EntryOf(prompt) ==
  [prompt |-> prompt, scope |-> systemPrompt(prompt), query |-> prompt.query,
   dimension |-> Dimension[embedder]]

Store(c) ==
  /\ client[c].pc = "store"
  /\ \/ /\ client[c].prompt.query \in Eligible
        /\ PurgeOtherDimensions
        /\ index' = Purged(index) \cup {EntryOf(client[c].prompt)}
        /\ Becomes(c, At(c, "vector"))
     \/ /\ Becomes(c, Idle)
        /\ UNCHANGED <<index, vectors, purged>>
  /\ UNCHANGED <<memories, rows, pending, embedder, replies, searchVars, shareVars>>

VectorsOf(prompt) == {v \in vectors : v.prompt = prompt}

\* The vector's row refers to the cache's row: as long as that has not been written
\* the statement fails, and the error is ignored.
InsertVector(c) ==
  /\ client[c].pc = "vector"
  /\ LET p == client[c].prompt
     IN  vectors' = IF p \in rows THEN (vectors \ VectorsOf(p)) \cup {EntryOf(p)} ELSE vectors
  /\ Becomes(c, Idle)
  /\ UNCHANGED <<memories, rows, pending, index, embedder, purged, replies, searchVars, shareVars>>

WriteRow(p) ==
  /\ p \in pending
  /\ pending' = pending \ {p} /\ rows' = rows \cup {p}
  /\ UNCHANGED <<memories, index, vectors, embedder, purged, client, replies, searchVars, shareVars>>

\* The vector goes with the row; the entry in memory stays until the process ends.
DeleteRow(p) ==
  /\ p \in rows
  /\ rows' = rows \ {p} /\ vectors' = vectors \ VectorsOf(p)
  /\ UNCHANGED <<memories, pending, index, embedder, purged, client, replies, searchVars, shareVars>>

\* A lookup deletes the expired row, unless it is pinned or is not asked for.
Expire(p) ==
  /\ p \in rows \cup {e.prompt : e \in index}
  /\ rows' \in {rows, rows \ {p}}
  /\ index' = {e \in index : e.prompt # p}
  /\ vectors' = vectors \ VectorsOf(p)
  /\ UNCHANGED <<memories, pending, embedder, purged, client, replies, searchVars, shareVars>>

\* A shutdown writes what was queued, a crash may not.  Of the vectors, those with a
\* row are loaded.
Restart(e) ==
  /\ embedder' = e /\ purged' = FALSE
  /\ \E written \in SUBSET pending : rows' = rows \cup written
  /\ pending' = {}
  /\ index' = {v \in vectors : v.prompt \in rows'}
  /\ client' = [c \in Clients |-> Idle]
  /\ indexer' = [pc |-> "list"]
  /\ UNCHANGED <<memories, vectors, replies, texts, shareVars>>

-----------------------------------------------------------------------------
(* The search texts *)

Rests == UNCHANGED <<memories, rows, semanticVars, shareVars>>

\* The rows that have no text yet.
ListUnindexed ==
  /\ indexer.pc = "list"
  /\ indexer' = [pc |-> "row", todo |-> rows \ texts]
  /\ UNCHANGED texts /\ Rests

\* A row that is gone by the time its prompt is read is passed over.
ReadPrompt ==
  /\ indexer.pc = "row"
  /\ \E p \in indexer.todo :
       indexer' = IF p \in rows
                  THEN [pc |-> "insert", todo |-> indexer.todo \ {p}, prompt |-> p]
                  ELSE [indexer EXCEPT !.todo = @ \ {p}]
  /\ UNCHANGED texts /\ Rests

\* The text is inserted whatever has become of the row since.
InsertText ==
  /\ indexer.pc = "insert"
  /\ texts' = texts \cup {indexer.prompt}
  /\ indexer' = [pc |-> "row", todo |-> indexer.todo]
  /\ Rests

\* All are indexed, or a statement has failed: the rest waits for the next round.
StopIndexing ==
  /\ indexer.pc \in {"list", "row", "insert"}
  /\ indexer' = [pc |-> "prune"]
  /\ UNCHANGED texts /\ Rests

\* Mutant: nothing is pruned.
KeepAll(found) == found

\* The texts whose row is gone are deleted.
PruneCacheSearch(found) == found \cap rows

Prune ==
  /\ indexer.pc = "prune"
  /\ texts' = PruneCacheSearch(texts)
  /\ indexer' = [pc |-> "list"]
  /\ Rests

PruneFails ==
  /\ indexer.pc = "prune"
  /\ indexer' = [pc |-> "list"]
  /\ UNCHANGED texts /\ Rests

-----------------------------------------------------------------------------
(* The questions to share *)

\* Deny terms come from the configuration and the surroundings of each call, and a
\* newer program has a newer gate.
ChangeGate ==
  /\ denied' \in SUBSET Sharable \ {denied}
  /\ scanned' = FALSE
  /\ UNCHANGED <<memories, rows, semanticVars, searchVars, candidates>>

Passes(q) == q \in Sharable \ denied

\* A brief query after others is a follow-up, and no question of its own.
Extracted == {p.query : p \in {x \in rows : <<x.before, x.query>> \in Standalone}}

scanCache == {q \in Extracted : Passes(q)}

\* Mutant: a candidate is judged once.
PassedBefore(q) == q \in candidates

stillPasses(q) == Passes(q)

\* The survivors are candidates; a candidate that the scan has not returned is judged
\* again by its question, by this gate.  Other scans and requests only change which
\* rows this one reads, so it is one step.
ReconcileShareCandidates ==
  /\ candidates' = scanCache \cup {q \in candidates : stillPasses(q)}
  /\ scanned' = TRUE
  /\ UNCHANGED <<memories, rows, semanticVars, searchVars, denied>>

Next ==
  \/ \E m \in Memory : SaveMemory(m) \/ DeleteMemory(m)
  \/ \E c \in Clients :
       \/ \E r \in Requests : Ask(c, r)
       \/ ExactHit(c) \/ Lookup(c) \/ NoLookup(c) \/ Done(c) \/ Set(c) \/ Store(c) \/ InsertVector(c)
  \/ \E p \in pending : WriteRow(p)
  \/ \E p \in rows : DeleteRow(p)
  \/ \E p \in rows \cup {e.prompt : e \in index} : Expire(p)
  \/ \E e \in Embedders : Restart(e)
  \/ ListUnindexed \/ ReadPrompt \/ InsertText \/ StopIndexing \/ Prune \/ PruneFails
  \/ ChangeGate \/ ReconcileShareCandidates

Spec == Init /\ [][Next]_vars

\* The indexer is a goroutine of its own; a statement of its may fail, and the
\* process may end, but not always before the same step.
FairSpec ==
  /\ Spec
  /\ SF_vars(ListUnindexed) /\ SF_vars(ReadPrompt) /\ SF_vars(InsertText)
  /\ SF_vars(StopIndexing) /\ SF_vars(Prune)

-----------------------------------------------------------------------------
(* Types, and the inductive invariant of the proofs. *)

Scope == {<<>>} \cup (SUBSET Memory) \X (Wordings \cup {""})

Entry ==
  [prompt : Prompt, scope : Scope, query : Queries, dimension : {Dimension[e] : e \in Embedders}]

Client ==
  {Idle} \cup [pc : {"asked", "upstream", "store", "vector"}, prompt : Prompt]
         \cup [pc : {"served"}, prompt : Prompt, entry : Entry]

Indexer ==
  [pc : {"list", "prune"}] \cup [pc : {"row"}, todo : SUBSET Prompt]
    \cup [pc : {"insert"}, todo : SUBSET Prompt, prompt : Prompt]

TypeOK ==
  /\ memories \subseteq Memory /\ embedder \in Embedders /\ purged \in BOOLEAN
  /\ rows \cup pending \cup texts \subseteq Prompt
  /\ index \cup vectors \subseteq Entry
  /\ client \in [Clients -> Client] /\ replies \in 0 .. MaxReplies
  /\ indexer \in Indexer
  /\ denied \cup candidates \subseteq Sharable /\ scanned \in BOOLEAN

\* An entry's scope and words are those of the prompt it was stored for.
Derives(e) == e.scope = systemPrompt(e.prompt) /\ e.query = e.prompt.query

AllDerive == \A e \in index \cup vectors : Derives(e)

\* The row of a vector outlives it.
VectorsHaveRows == \A v \in vectors : v.prompt \in rows

ServedAlike ==
  \A c \in Clients : client[c].pc = "served" =>
    /\ Derives(client[c].entry)
    /\ client[c].entry.scope = systemPrompt(client[c].prompt)
    /\ <<client[c].entry.query, client[c].prompt.query>> \in Near

Gated == scanned => candidates \cap denied = {}

Inductive == TypeOK /\ AllDerive /\ VectorsHaveRows /\ ServedAlike /\ Gated

-----------------------------------------------------------------------------
Plain(system) ==
  /\ Len(system) <= 1
  /\ \A i \in DOMAIN system :
       system[i].form = "text" /\ system[i].role = "system" /\ ~Empty(system[i])

\* A semantic hit is the reply to a similar query under the same system prompt and
\* the same memories, however memories, embedders, rows and processes have come and
\* gone since it was stored.  (For requests with one system message at most, in text
\* that is not empty.)  It may come from another conversation: what was said before
\* the query is no part of the scope.
HitInScope ==
  \A c \in Clients : client[c].pc = "served" =>
    LET asked == client[c].prompt
        answered == client[c].entry.prompt
    IN  Plain(asked.system) /\ Plain(answered.system) =>
          asked.system = answered.system /\ <<answered.query, asked.query>> \in Near

\* A question waits to be shared only if it passed the gate of the last scan, deny
\* terms that were added since it was found included; and one that passes is not lost
\* because its row is.
CandidatesFollowGate ==
  [][/\ scanned' => candidates' \cap denied' = {}
     /\ candidates \ denied \subseteq candidates']_vars

\* What was deleted from the cache does not stay in the search texts, and what is
\* in the cache can be found in the end.
TextsFollowRows ==
  \A r \in Requests : []<>(r \in texts <=> r \in rows)
=============================================================================
