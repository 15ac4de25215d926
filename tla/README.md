# A TLA+ verification project for liltok

liltok is a local gateway between AI coding agents and model providers. A
request is authenticated, looked up in caches, dispatched along a chain of
provider/model targets with failover, possibly streamed to the client while it
is still being checked, recorded in a ledger and cached. Most of the gateway's
state is shared by concurrent request goroutines, or handed to background
workers over bounded channels; that is where this project looks first. Around
that core stand sequential algorithms that every agent's conversation passes
through turn after turn (pruning, translation, reply checks), and the ways by
which rows come into the cache from elsewhere and leave it for others.

Paths below are relative to `src/internal/` unless they start with `src/`.

## Inventory

| Part | State | Operations | Who calls it | Modelled in |
|---|---|---|---|---|
| Circuit breaker (`router/circuit_breaker.go`) | state, counters, cooldown, time of the last trip; one per target, under a mutex | Allow, RecordSuccess, RecordFailure, TripImmediate, Reset | every dispatch, before and after its upstream call; the admin API | `BreakerOps`, `CircuitBreaker` |
| Model catalog (`router/catalog.go`) | health of each provider/model pair in memory, and a table | Usable, MarkInactive, MarkActive, Reactivate, the write-through, the load at start | every dispatch; the admin API | `CatalogOps`, `ModelCatalog` |
| Router (`router/router.go`, `continuation.go`, `verify_retry.go`) | per dispatch: position, claim kept, last error, committed or not | DispatchChat, continueTurn, remindToVerify | the proxy, the in-proxy tool loop | `ReplyContract`, `Dispatch` |
| Live stream (`router/livestream.go`, the adapters' StreamChat, `proxy/sse_stream.go`) | an event channel and an error channel per attempt, the gate's held-back text, the open block | streamAttempt, liveGate, the adapters' readers, Commit, Text, Finish, Fail | DispatchChat | `Streams`, `MessageStream` |
| Reply checks (`router/verify.go`, `degenerate.go`, `stall.go`, `toolnames.go`, `planmode.go`, checkReply) | none of their own; they read the history | checkReply, isRepetitionLoop, handlePlanMode, reconcileToolNames | DispatchChat | `Replies`, `Conversation` |
| Translator and adapters (`router/translator.go`, `provider/*`) | none | ParseUnifiedRequest, buildPayload of three formats, the extraction of calls written as text | proxy, router | `Payloads`, `Replies`, `Conversation` |
| Token pruner (`cache/prune`) | none | turn selection, compaction of results, filtering of messages and tools | proxy | `Payloads`, `Conversation` |
| Proxy (`proxy/proxy.go`, `coalesce.go`, `keepalive.go`, `livesink.go`, `inproxy.go`) | the coalescer's waiters; per request: writer, sink, turn | proxyToTarget, Start/Done, the keep-alive loop, Commit, the tool loop | HTTP handlers | `Proxy` |
| Stream collectors and replay (`proxy/stream_collector.go`, `cache/replay.go`) | what was heard of a stream | FeedLine, BuildMessage, BuildCompletion, replay of either format | proxy | `Streams`, `Conversation` |
| Exact cache (`cache/exact`) | LRU, SQLite table, bounded task queue, worker | Get, Set, Delete, Purge, pin, worker, Close | proxy, admin API, shutdown | `ExactCache` |
| Semantic cache (`cache/semantic`) | vectors in memory, a table referencing `cache_entries` | Lookup, Store, the purge of other dimensions, the load at start | proxy | `Derived` |
| Search texts, memories, share candidates (`db/search.go`, `db/memories.go`, `db/share_candidates.go`, `share`) | a text per row, the memories, the questions that may be shared, deny terms | the indexer's loop, SaveMemory, DeleteMemory, scan and reconciliation | background loop, tool calls, command line | `Derived` |
| Corpus (`cache/sync`, `db/staging.go`, `db/starter.go`, `admin/moderate.go`, `miner/starter_filter.go`, pack and import of `miner/miner.go`) | rows of the cache, staged entries, the starter archive, ETag and Last-Modified of the last pack | Sync and its loop, import, seeding, upload, approve, reject, clear, pack, purge | loop, admin API, command line | `Corpus` |
| Mining manager (`miner/miner.go`) | status, cancel function, statistics; per session a job channel, workers, a rate limiter | Start, Stop, the workers, the session's end | admin API, command line | `Mining` |
| Ledger and keys (`ledger`, `server/middleware/auth.go`) | bounded log queue, worker's batch, request_logs, api_keys | Record, drain, persistBatch, UpdateSpend, ValidateKey, CheckBudget, RevokeKey, Close | middleware, proxy, admin API, shutdown | `Ledger` |
| Rate limiter (`ledger/quota.go`) | two token buckets per key | CheckRateLimit | middleware | as a possible rejection, in `Ledger` |
| Route resolution (`router/routes.go`, `strategy.go`, `evolutionary.go`) | routes, counters of strategies | resolveRoute, orderTargets | router | as a constant, `Chain` |

How the parts meet: a request calls the middleware (reads its key's row), then
`proxyToTarget`, which reads the exact cache, waits in the coalescer or leads,
asks the semantic index, calls `DispatchChat` with a context that may carry the
live sink, writes to a client that the keep-alive goroutine writes to as well,
queues a ledger record and puts the reply into the cache, which queues it for
SQLite. `DispatchChat` takes one lock per question it asks a breaker or the
catalog and holds none while an upstream works; a live attempt reads its
upstream through the channels of an adapter's goroutine. The workers of the
cache and of the ledger own their queues' other ends. The miner, the syncer and
the moderator write the same table of rows; the index, the search texts and the
share candidates follow it.

What is hard here: results that arrive after the breaker has moved on; claims
that are made under a lock and settled much later; a stream that cannot be
taken back once the client has seen it; two channels served in either order;
two writers on one response; writes that are queued behind deletions; spend that
follows the reply by a queue and a transaction; queues that drop when they are
full; sessions that overlap while one is stopping; a download whose validators
are stored after its import, by two processes; texts and vectors that follow
rows which come and go; histories whose results, notes and calls meet three
wire formats; shutdown with work queued; crashes that keep the tables and lose
the memory; days and months that end in between. `PROJECT.json` lists these
hazards at their lines.


## Modules

```
BreakerOps ----+-- CircuitBreaker                       CatalogOps --+-- ModelCatalog
               +-- Dispatch ----------------------------------------+
                      | implements (KeepsContract)
               ReplyContract  <-- what Proxy uses of DispatchChat
Streams -- implements (WellFormed) --> MessageStream
Replies -- Payloads -- Conversation
ExactCache     Ledger     Mining     Corpus     Derived
```

A line from left to right is `EXTENDS`. `X.tla` is the specification,
`MCX.tla` and `MCX.cfg` give its constants values for TLC and nothing else,
`XProofs.tla` holds the theorems about `X`; `RouterProofs` holds those about
`CircuitBreaker`, `ModelCatalog` and `Dispatch` together. It extends all three, which
is why the names in the first two carry their component's name (`BreakerInit`,
`CatalogNext`, ...) and their requests are `Callers` and `Askers`. `PROJECT.json`
names, for each definition, the lines of the source it translates.

**BreakerOps, CircuitBreaker.** A breaker is a record and a method a function
on it, because each method holds the mutex throughout. Time is `since`, the
ticks since the last trip, which stops counting at the largest cooldown. In
`CircuitBreaker` a request asks `Allow`, is in flight with no lock held, and
reports a success, a failure, a quota failure (RecordFailure and then
TripImmediate, two calls with others between them) or nothing at all. An
administrator may reset at any time. `quiet` is history: ticks since the last
trip that no reset has forgiven.

**CatalogOps, ModelCatalog.** The entry of a model is a record with its age.
`Usable` answers and claims the recheck in one locked call. A change is copied
under the lock and written to the table in a later step, so writes overtake
each other, fail and get lost in a crash; a restart loads the table. `granted`
is history: when a recheck was last given out.

**ReplyContract, Dispatch.** `ReplyContract` says what a dispatch owes its
client: a stream that begins once at most and ends once, finished or failed, a
reply or an error, and nothing afterwards. `Dispatch` is DispatchChat: a task
walks its chain; each step is one locked call on a breaker or on the catalog,
or the end of an upstream's call; targets are passed over because they are too
small, excluded, open or inactive; a live attempt commits; a stalled turn or an
unverified claim is continued (with the same admission and reports); the
client's departure is noticed where the code looks at its context. The
refinement mapping is the identity on `stream` and `answer`.

**Streams, MessageStream.** One live attempt: the upstream's body, the adapter's
reader goroutine for each of the three streaming formats and the adapter
without a stream, a bounded event channel and an error channel that
`streamAttempt` selects over, `liveGate` with its held-back text, the sink that
writes Anthropic events, and the replay of a reply that never committed.
Failures may occur at every chunk: the body ends early, an error event arrives,
the idle timer fires, the client leaves. `MessageStream` is the message
protocol; the mapping computes `phase`, `block`, `count` and `last` from what is
on the wire. `BuildMessage` puts a message together as the collector does, block by
block. A call is the sequence of its fragments' numbers, and `AreCallsOf` says which
sequences of calls an upstream's fragments make. `HoldBack` is positive: a marker is
longer than one token.

**Proxy.** proxyToTarget: lookup, coalescer (Start, the wait with its 60
seconds, Done), dispatch by what `ReplyContract` allows or a direct call,
in-proxy turns between dispatches, the sink or the collected body, the ledger
record, the cache. `out` is the sequence of things said to the client; the
keep-alive goroutine and the sink write to it under the same lock. The cache is
the set of hashes it can serve. The same sink goes to every dispatch of a request,
in-proxy turns included, as in the code; `relived` is history: a turn's dispatch
has committed it.

**ExactCache.** A lookup takes up to four steps (LRU, row, deletion of an
expired row, promotion), insertion puts into the LRU and then into the queue or
drops, the worker writes what it takes. Deletion takes both tiers in two steps,
a pin reads and writes, a purge clears the table and then the memory. Shutdown
closes the channel and drains; a crash keeps the rows. The memory tier is a
sequence, most recent first, with one entry per hash. A reply is its serial
number, and `made` is history: when each was made. That every copy of an entry
carries that time (`CopiesGenuine`) is proved, not assumed.

**Ledger.** A request reads its key's row, checks it, and much later queues its
record. The worker takes a batch, commits its rows in one transaction, which may
fail, and charges one row's cost to its key at a time. The clock is the day; a
month has `MonthLength` days; resetting happens where the code does it, in the
reading and in the charging. Keys are revoked, the process closes or crashes.
`charged` is history, the day each record was charged on; what was charged in a
period is the number of cost units of its requests (`Total`).

**Mining.** A session is a record: jobs left, workers, who holds the rate
limiter's lock, its counters and verdict. A worker takes a job, waits for the
lock and the ticket, calls, backs off on 429, inserts the rows and counts. The
manager's status, cancel function and statistics are shared by sessions that
overlap, which happens when one is started while another is stopping.

**Replies, Payloads, Conversation.** Text is a sequence of atoms: words, the
markup the code looks for, calls written in the formats models use, thinking
tags. `Replies` is what becomes of a reply (calls extracted, thinking moved,
repetitions refused, plan mode kept intact), `Payloads` what becomes of a
history (pruning, ParseUnifiedRequest, buildPayload of the three formats).
`Conversation` has a client that sends its whole history, runs the calls, enters
plan mode, writes its plan file, and is answered by an upstream of any format,
through the router or straight. The client stands for the agents that the tests
and the translator's comments describe, and is marked external in the map.

**Corpus.** The rows of the cache, the staged entries, the starter archive, the
packs the remote has published, and the validators in `sync_metadata`. An entry
has a hash, a stored prompt and an answer. Rows that requests leave have the
prompt that was hashed; imports and uploads write the hash and the prompt that
their file names, and a sanitized export rewrites prompts and keeps hashes, so
that any prompt may stand under any hash. `NormalizePayload` gives each prompt's
hash, and `Packable` is StarterFilter.Check: the hash is curated, the stored
prompt still has it, the answer says something. The model that an entry names is
left out; the filter takes the curated hashes of that model only, which rejects
more. Two syncers, the background loop and a command line, take a sync in steps
(read ETag, read Last-Modified, ask, import, store one, store the other), each
of which may fail or be the last one before the process ends. A transaction is
one step. Moderation (upload, approve, reject, clear), packing, publishing,
forced seeding, import and purge come in between.

**Derived.** The semantic index in memory and its table, the search texts and
their indexer, memories and share candidates, beside rows that the exact cache
writes late and deletes at any time. A lookup embeds, searches the index under
its lock and serves the payload that the entry holds, without a look at its row;
the row, the entry of the index and its vector are written in steps of their
own. A restart may come with another embedder. A request has any number of
system messages, with a text of `Wordings` or none, and a conversation before
its last user message; all of it is hashed, so two conversations that end in the
same words have rows of their own. Its scope is what `systemPrompt` takes from
the system messages: a semantic hit may be the reply to another conversation.
The index is the set of its entries: which of several that are as close a search
finds is left open.

## Runs

| Run | Instance | Asks |
|---|---|---|
| `breaker` | 4 requests, thresholds 3 and 2, cooldown 1 to 4 (9,566 states) | `BreakerCoherent`: counters and cooldown fit the state. `QuietAfterTrip`: nothing is let through between a trip and its cooldown's end. `ClosesOnlyAfterProbing`: closing takes the successes since it opened. `OpenRecovers`: an open breaker leaves OPEN in the end, however late quota failures restart its cooldown |
| `catalog` | 2 requests, 2 models, TTL 2 | `OneRecheckPerTTL`: one request per TTL is let through to an inactive model. `RecheckComes`: one is, in the end, though reports come late, writes fail and the process restarts |
| `dispatch` | a live request over two targets and a plain one over an unfit, an excluded and a shared target, 1 continuation, breakers that trip at 1 (81,671 states) | `KeepsContract`: `ReplyContract` with its liveness. `ClaimDelivered`: a claim set aside is not lost. `SkippedMeansUncalled`: "skipped" and "failed" are told apart |
| `streams` | up to 3 chunks, channel of 1, hold-back 1, noise 2 tokens, 4 protocols | `WellFormed`: the wire is a `MessageStream`. `ClientGetsReply`: what the client puts together is the validated reply. `ReplyComplete`: a finished reply has what the upstream sent before its end. `Settles`: it ends |
| `proxy` | 2 streaming requests of one hash, one with a live sink and in-proxy tools and one without either, 2 in-proxy turns (333,131 states) | `OneReply`: one reply in order, comments only before it; a request of which a turn commits is excepted (below). `WaitersServed`: a released waiter finds its leader's reply. `BilledOnce`: one ledger row. `Answered`: everyone is answered |
| `exact_cache` | LRU of 1, queue of 2, 2 hashes, 2 clients (one an administrator), TTL 1, time 2, 2 replies | `ServedWithinTTL`: no copy outlives the TTL of its reply. `QueuedIsWritten`: what is queued in time is written, shutdown included |
| `ledger` | 3 requests, 1 key, budgets 2 a month and 1 a day, months of 2 days, 3 days, queue and batch of 2 (510,304 states) | `SpendMatchesCharges`: the key's counters are what was charged in the period. `ChargedOnlyIfLogged`: no charge without its row. `BlockedOnceSpent`: once a cap is reached, a request whose key is read afterwards is not admitted in that period. `QueuedIsTaken`: records leave the queue |
| `mining` | 2 workers, 2 prompts, 1 insert, 1 retry, 2 sessions (146,375 states) | `StoppableWhileRunning`: what is reported running can be stopped. `SessionAccounted`: each prompt is counted once. `SessionEnds` |
| `conversation` | up to 6 messages, 11 replies, 4 tools, Anthropic and OpenAI clients, 3 upstream formats, 1 recent turn kept | `PayloadWellFormed`: calls are followed by their results and roles alternate where the format wants it. `NothingLost`: words, calls and results of a history reach the upstream. `ContextKept`: pruning keeps what the code says it keeps. `NoCallShown`: no call written as text is shown to the client. `PlanFirst`: plan mode is left only with a plan. `LoopBroken`: the same calls are not delivered three times in a row (an ExitPlanMode excepted) |
| `corpus` | a curated and a private hash, loop and command line, 2 packs, seeding below 1 row, a user's prompt under the curated hash in uploads and imports (322,848 states) | `UpToDateIsMerged`: "up to date" is said only with the newest pack merged. `ShipsOnlyCurated`: what a pack holds has a curated prompt, and is kept under its hash. `RemoteArrives`: a new pack arrives |
| `derived` | 1 client, 2 similar queries under a system prompt, one of them late in a conversation, 1 memory, 2 embedders, 1 reply (88,120 states) | `HitInScope`: a semantic hit is under the same prompt and memories. `TextsFollowRows`: search texts come and go with their rows. `CandidatesFollowGate`: what waits to be shared passed the last scan |
| `conversation_replay` | as `conversation` | the finding below; it ends with a violation |

`TypeOK` is an invariant of the two runs where types bound something, the
queues, the batch and the memory tier (`exact_cache`, `ledger`).

Why these bounds. Two actors are enough for the races here: each is between one
that holds a stale value and one that changes it; the breaker has four requests
so that a full failure threshold and a late report fit into one history. Queues
and the LRU hold one or two so that they are full, evict and drop all the time.
Thresholds above one appear where counting is the point (`breaker`), and are one
where the composition is (`dispatch`). The ledger's three days span a month's
end. Three chunks let a stream hold back, release and break off inside a block;
six messages let a call be made, answered, repeated and pruned. Two packs let
one sync overtake another. `MaxReplies`, `MaxTime`, `MaxSessions`, `MaxPacks`,
`MaxMessages`, `MaxChunks` and `MaxDay` bound what the code leaves unbounded and
are named as bounds in their modules.

TLC looks for deadlocks except in `proxy`, `mining`, `streams` and the two
conversation runs, whose work is finite and ends; there `Answered`, `SessionEnds`
and `Settles` say that nothing ends too early. Every property of a passing
run has a mutant, an operator placed beside the definition it would replace
(`NeverRechecked`, `UsableUnclaimed`, ...), and TLC finds the property violated
when it does.

### Where the code and its comments part

One divergence is checked as a run, `conversation_replay`. `stream_collector.go:229`
says that a streamed OpenAI reply is accumulated into a chat completion, and
`cache/replay.go:65` replays reasoning and calls, but FeedLine (`:273`) reads only
the content: what proxyToTarget caches of a reply that was streamed without the
router (`proxy.go:942`) is its text, and a later hit on the same request lacks the
calls.

Others were met while reading, and are modelled as the code has them:

- `router/circuit_breaker.go:103`: a failure of a request that was sent before
  the breaker opened counts as the probe's when it arrives in HALF_OPEN.
- `router/catalog.go:124`: the write-through follows the unlock, so the table
  can keep the older of two states until the next change.
- `router/continuation.go:82`: a successful continuation does not reactivate a
  model as other successes do.
- `cache/exact/tiered_store.go:107`: an entry deleted while its insert is queued
  is written back.
- `ledger/quota.go:127`: budgets are compared with what is charged, so requests
  in flight overspend a cap that `src/README.md:28` calls hard.
- `proxy/proxy.go:549`: whether the sink has committed (`liveSent`, `:544`) is asked
  before the in-proxy turns, which dispatch under the same context and so with the
  same sink (`inproxy.go:91`). A first reply that only calls in-proxy tools is not
  streamed; if the reply of a turn then commits, it is streamed to its end and,
  as `liveSent` is false, replayed as a whole after that. If two turns commit,
  Commit is called twice, while `router/livestream.go:22` says that it is called
  once. Without the exception of `relived` in `OneReply`, TLC shows a client that
  receives status line, start, stop, start, stop in the ninth step of run `proxy`.
- `miner/miner.go:1049`: Stop cancels "an ongoing mining session", but not one
  that was started while another was stopping: once the other ends, the status
  is idle and the cancel function nil, and the new one runs to its end. Their
  statistics are mixed. `StoppableWhileRunning` speaks of what is reported.
- `router/livestream.go:66`: liveMarkers lacks some tags that the translator
  removes (`<tool_response`, `<tools`, `<scratchpad>`, `<thought>`), so live text
  may contain what a collected reply would not.
- `cache/semantic/vector_index.go:161`: "must match exactly" holds for the first
  text system message, the only one that extractPromptDetails takes; hence the
  condition in `HitInScope`. What was said before the last user message is not
  compared at all.
- `router/router.go:862`: a dispatch whose context was canceled may return a
  truncated reply with no error; an Anthropic body that ends cleanly without
  `message_stop` counts as complete.
- `router/router.go:1189`, `translator.go:1243`, `planmode.go`: the third identical
  ExitPlanMode is not seen as a repetition; one beside a Write of the plan file
  overwrites it; a Write that failed counts as a plan written.
- `cache/sync`: a cache that was purged after a sync is "up to date" while empty;
  rows that exist are not corrected by a newer pack (INSERT OR IGNORE);
  approvals and imports reach the table and not the memory tier.
- `cache/semantic`: a vector whose row is not written yet fails its foreign key
  and stays in memory only; entries of deleted rows stay in the index until a
  restart; an embedder of the same dimension keeps the other's vectors.
- `db/share_candidates.go`: no code writes the statuses approved, rejected and
  exported. FormatMemoriesForPrompt stops at the first memory that is too big.

## Fairness

Nothing is assumed of users, administrators or upstreams' contents; a fairness
condition stands for a goroutine or a timer that the code starts.

| Module | Assumed | Because |
|---|---|---|
| CircuitBreaker | WF of Tick, and of each request's Allow and Report | time passes; an open breaker is asked as long as there is traffic, and every attempt ends by a timeout |
| ModelCatalog | WF of Tick and of each request's own steps, SF of `Usable` for each request and model | a request asks again and again, though it may be busy with other models in between |
| Dispatch | WF of each request's steps | a goroutine per request, and attempt, idle and transport timeouts |
| Streams | WF of the consumer and of the reader's send, and of the body's end once the request is canceled | an upstream owes no further byte, but canceling a request closes its body |
| Proxy | WF of each request's steps | as for Dispatch; a wait ends after 60 s |
| ExactCache | WF of the worker | a goroutine that waits for work only |
| Ledger | WF of the worker | the same |
| Mining | WF of each session's steps | goroutines, a ticker and HTTP timeouts; none for Start and Stop |
| Corpus | WF of the loop's local steps, SF of those that need the network or a statement that may fail | a step may fail, and the process may end before it, but not always |
| Derived | SF of the indexer's steps | as above |
| Conversation | none | only safety is stated |

## Proofs

The theorems hold for every value of the constants that the named assumptions
allow; each assumption is a condition that the code's defaults or constructors
meet (positive thresholds, a cap not below the base cooldown, chains over known
targets, hashes that are either curated or private, and so on). They have the
shape: the invariant holds initially, every step keeps it, one lemma per action,
and it implies the property.

| Proofs | Theorems | The inductive invariant |
|---|---|---|
| RouterProofs, breaker | BreakerTypeCorrect, BreakerAlwaysCoherent, NoRequestSoonAfterTrip, ClosingNeedsProbes, BackoffGrowsOncePerPhase | types, coherence, and `QuietTracksTrip`: the history of the last trip agrees with the breaker's own clock while it is open. Without it the state does not tell that a reset, and not time, opened the way |
| RouterProofs, catalog | CatalogTypeCorrect, OneRecheck | `AgeWithinGrant`: an inactive entry is no older than the time since its recheck was given out. A late report that marks the model again makes it younger only |
| RouterProofs, dispatch | TypeCorrect, ImplementsContract, ClaimsDelivered, SkippedTold | `Placed`: what a task remembers fits where it is, what its client has seen and what it has answered. The contract needs that a turn is continued on an open stream only, and that a request that committed never goes back to the chain |
| StreamsProofs | TypeCorrect, ClientReadsMessages, RepliesComplete, RepliesDelivered | `MessageOK`: each event may follow the one before it, and between two calls of the gate the message can be continued, closed or broken off. `ReadSoFar`: the text taken, queued and pending is what was read, and the calls taken, queued, pending and still collected are those of the fragments read. `ReaderOK`, `ConsumerOK`: what the reader's goroutine and streamAttempt may conclude of each other from a closed channel. `StreamedOK`: what was streamed is the beginning of the text, ends before its first marker, within its words and `HoldBack` tokens behind its end. `FinalOK`: a message that ended carries the reply that passed the checks |
| ProxyProofs | TypeCorrect, WaitersFindTheReply, RowsAreSingle, OneReplyHeard | `Led`: a hash in flight has one leader, for whom its waiters wait. `Waited`: who has been released had a leader that is through. `Recorded`: the row comes with the way out. `Answering`: at each place of the handler, what the client has heard so far (nothing, comments, a reply begun, a whole one), and that the keep-alive goroutine can write only until the first dispatch commits or ends. Without the latter a comment could come after the reply's start |
| MiningProofs | TypeCorrect, RunningIsStoppable, PromptsAddUp | `Accounted`: jobs left, workers with a job and prompts counted make the total, which takes the cardinality of the busy workers through each step. `Managed`: a session that is alone has the manager's status, cancel function and statistics |
| CorpusProofs | TypeCorrect, UpToDateTold, ReleasesAreCurated | `MergedFirst`, `Honest`: validators stored, read or on their way name packs that have been merged, which is why either syncer may trust the other's. `PackedClean`: what this build packed has passed the three checks of the filter, and only that is released |
| LedgerProofs | TypeCorrect, SpendIsCharged, ChargesAreLogged, CappedKeysWait | `HeldOnce`: a record is in the queue or in the batch, once, and not charged yet. `BatchLogged`: what is being charged has been committed. `RowSumsCharges`: a key's row sums the charges of the row's own day and month, and no charge is later than that; reading it on another day gives the sum of that day since days and months only grow. `CapShows`: a cap reached before the key was read shows in what was read |
| ExactCacheProofs | TypeCorrect, ServesWithinTTL | `CopiesGenuine`: every copy of a reply, in memory, in the table, in the queue or in a client's hands, carries the time the reply was made. The checks of either tier would otherwise speak of the copy's age and not of the reply's |
| DerivedProofs | TypeCorrect, HitsStayInScope, NoVectorWithoutRow, CandidatesPassTheGate | `AllDerive`: an entry of the index or of its table has the scope and the words of the prompt it was stored for, whichever embedder, restart or purge came since. `ServedAlike`: the entry a client is served was chosen under its own scope. `VectorsHaveRows`: the foreign key holds, so that no restart brings back the vector of a deleted row. `Gated`: a candidate that waits passed the gate of the last scan |

What a breaker's or the catalog's methods do to a record is stated in lemmas, which
the proofs about Dispatch cite for the breakers it shares. Lemmas about `Without` and
`Added` (removal and insertion keep one entry per hash and add nothing else) carry the
cache's proofs, and lemmas about `Total` (one request more costs its cost more;
requests of other periods count nothing) the ledger's: sums are cardinalities of sets
of units, so that the library's theorems about finite sets apply where a recursive sum
would need an induction over data. For the same reason `OneReply` is stated by the
shape of what was heard (`Hears`) and not by filtering it, and `ReplyComplete` says
what the calls of the fragments are (`AreCallsOf`) and not how to sort them.

Streams does compute over sequences of any length: what text events add up to
(`TextOf`), what is left of a text without its markup (`Prose`), what a client makes of
a message (`Blocks`). The library's induction theorems, whose hypothesis is an operator,
are out of the provers' reach; `Induct` and `InductSeq` of StreamsProofs are the same
facts with a set in its place (a set of numbers that has 0 and is closed under successor
is Nat; a set of sequences that has the empty one and is closed under Append is all of
them), proved from the library's `WFMin`, as `LeastNumber` of DerivedProofs is, which
gives the first text among a prompt's system messages. `FlattenSeq` and `Blocks` are
recursive functions on the sequence's length, and each is characterised once by what
one element more adds to it. RepliesDelivered rests on three such facts: a message that
`Leads` from nothing to its stop is put together into the text of its text deltas and
the calls of its tool deltas; what `Finish` and `Replay` write is such a message; and
the beginning of a text that ends before its first marker and has no other markup is
the beginning of each of its `Translations`, which is why the end of a streamed message
can be what the checks left of it.

ClientReadsMessages is the whole refinement of `MessageStream`. ImplementsContract
is the safety part of `KeepsContract`: every step of Dispatch is a step of the contract
or a stutter. BackoffGrowsOncePerPhase, NoVectorWithoutRow and the TypeCorrect theorems
of modules whose runs state no type invariant are stated for their own sake. TLC checked
each inductive invariant on the instance of its run before it was proved.

With these, every safety property that a run states about CircuitBreaker,
ModelCatalog, Dispatch, Streams, Proxy, ExactCache, Ledger, Mining, Corpus and Derived
is a theorem. Only model-checked: everything about liveness (`OpenRecovers`,
`RecheckComes`, `Settles`, `Answered`, `QueuedIsWritten`, `QueuedIsTaken`, `SessionEnds`,
`RemoteArrives`, `TextsFollowRows` and the fairness conjunct of the contract), and the
properties of Conversation, whose payloads and replies are computed by nested folds over
whole histories: each would need an induction over every fold, for each of the three
formats. No module declares a RECURSIVE operator, so proofs can be added there too.

## Abstractions

- Time is a clock that stops where no comparison can change any more, or at a
  named bound. Durations keep their order, not their length.
- A locked call and a database statement are one step; so is a transaction, as
  the database has a single connection.
- Text is a sequence of tokens or atoms, one for each kind that the code treats
  differently; a reply that only has to be told from others is a number.
- Hashes, models, keys and targets are model values. What a hash is made of
  matters in `Derived`, where a prompt is its system messages, memories, earlier
  conversation and query, and in `Corpus`, where a stored prompt may not have the
  hash it is kept under; similarity is a relation between queries, and eligibility a set.
- Verdicts of checks that look at words (claims, stalls, refusals) are choices in
  `Dispatch`; their order and consequences are not.
- Money is a number of units, tokens of a provider are not counted.
- A process that ends keeps its tables and loses its memory; the single crash
  action of a module ends everything that lives in it at once.

## Not modelled

- **Route resolution and strategies**: lookup in tables and sorting by price,
  latency or score, before the walk begins. Its result is the constant `Chain`.
- **Rate limiter's arithmetic**: buckets hold fractions of tokens in floating
  point. A request may be rejected by it at any time.
- **Token pruner's compactors** (diff, tree, text filters): they rewrite one
  message's text; what they may drop is `filler`.
- **JSON repair, argument parsing, generation parameters, model listings**: the
  translator's and adapters' work on the inside of one value.
- **Word lists** of the claim, stall and repetition checks, and the share gate's
  deny patterns.
- **Prefix cache optimizer**: places `cache_control` marks in one request, keeps
  no state.
- **Guardrails, tokens, pricing**: functions of one text or one table.
- **Telemetry broadcaster, metrics, logging, fixture capture**: output only, and
  the broadcaster may drop.
- **Server wiring, admin guard, session tokens, configuration, crypto,
  migrations**: checks of one request, or done once at start.
- **MCP tools and other commands**: read-only, or calls of operations that are
  modelled where they act.
- **Starter cache builders**: offline tools that run once.

## Plan

In the order of what it would show:

1. A model of the rate limiter over integers, with the refill at a rate per tick,
   in place of the possible rejection.
2. Route resolution as operators with a reference definition, composed with
   `Dispatch` in place of `Chain`.
3. The pruner's compactors over sequences of lines.
4. `PlanFirst` and `PayloadWellFormed` as theorems, beginning with lemmas about the
   folds of `Replies` and `Payloads`, one for each, as StreamsProofs has for `FlattenSeq`.
