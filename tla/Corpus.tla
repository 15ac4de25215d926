------------------------------- MODULE Corpus -------------------------------
(***************************************************************************)
(* How rows come into the cache other than by a miss, and how they leave it *)
(* for other users: the starter pack built into the program, archives that  *)
(* are imported, the pack that the syncer fetches (internal/cache/sync),    *)
(* the candidates that a maintainer uploads, reviews and approves           *)
(* (internal/db/staging.go), and the packing of a new archive               *)
(* (internal/miner).  A transaction is one step; a sync is several, and the *)
(* background loop and the command line may each be in one.                 *)
(*                                                                          *)
(* An entry is the hash it is kept under, the prompt that is stored with it, *)
(* and what was answered: "real", or "filler" for what a starter pack must  *)
(* not carry (no text, a placeholder, a response that cannot be read).  A   *)
(* row that a request leaves has the prompt that was hashed.  Imports and   *)
(* uploads write what their file says, and a sanitized export rewrites      *)
(* prompts and not hashes: in these, any prompt may stand under any hash.   *)
(* The model that an entry names is left out: it can only make the filter   *)
(* reject more.                                                             *)
(*                                                                          *)
(* The n-th pack that the remote publishes has n for its ETag and for its   *)
(* Last-Modified.  Pins are left out: all they do here is to keep a row from *)
(* the purge by size, and a purge takes any rows.                           *)
(***************************************************************************)
EXTENDS Integers, FiniteSets, Sequences

CONSTANTS
  Curated, Private, \* hashes: of the requests the miner makes, and of users' requests
  Prompts,          \* the prompts that may be stored
  NormalizePayload, \* the hash of each prompt, Unreadable for one that cannot be parsed
  Unreadable,
  Syncers,          \* who syncs: the background loop, a command line
  Loop,             \* the one of them that is the background loop
  Replies,          \* the entries that requests leave
  Starter,          \* the entries of the pack that is built into the program
  SeedBelow,        \* a database with fewer rows is seeded when it is opened, 5
  Uploads, Shared,  \* the entries that users submit, and those in archives they import
  MaxPacks          \* bound: packs the remote publishes

Hashes == Curated \cup Private
Entry == [hash : Hashes, prompt : Prompts, answer : {"real", "filler"}]

\* An archive is keyed by hash, as the tables are.
OneEach(entries) == \A x, y \in entries : x.hash = y.hash => x = y

ASSUME CorpusAssumption ==
  /\ Curated \cap Private = {} /\ Unreadable \notin Hashes
  /\ NormalizePayload \in [Prompts -> Hashes \cup {Unreadable}]
  /\ Loop \in Syncers
  /\ Replies \subseteq Entry /\ Starter \subseteq Entry
  /\ Uploads \subseteq Entry /\ Shared \subseteq Entry
  /\ OneEach(Starter) /\ OneEach(Shared)
  /\ SeedBelow \in Nat /\ MaxPacks \in Nat

VARIABLES
  rows,     \* cache_entries, at most one row per hash
  staged,   \* staged_cache_entries, at most one per hash
  archive,  \* the starter pack's file: its entries, and whether this build packed it
  packs,    \* what the remote has published, the newest last
  metadata, \* sync_metadata: the ETag and the Last-Modified, 0 for none
  sync,     \* what each syncer is in the middle of
  merged    \* history: the packs whose import was committed

vars == <<rows, staged, archive, packs, metadata, sync, merged>>

Version == 0 .. MaxPacks
Staged == [entry : Entry, status : {"pending", "approved", "rejected"}]

\* What a syncer remembers between two of its steps.
Task ==
  [pc : {"idle"}] \cup [pc : {"reading"}, etag : Version]
    \cup [pc : {"sent"}, etag : Version, modified : Version]
    \cup [pc : {"upToDate", "import", "etag", "modified"}, pack : 1 .. MaxPacks]

RowsOK == rows \subseteq Entry /\ OneEach(rows)

StagedOK ==
  /\ staged \subseteq Staged
  /\ \A x, y \in staged : x.entry.hash = y.entry.hash => x = y

ArchiveOK ==
  /\ archive \in [entries : SUBSET Entry, built : BOOLEAN]
  /\ OneEach(archive.entries)

PacksOK ==
  /\ packs \in Seq(SUBSET Entry) /\ Len(packs) <= MaxPacks
  /\ \A n \in 1 .. Len(packs) : OneEach(packs[n])

TypeOK ==
  /\ RowsOK /\ StagedOK /\ ArchiveOK /\ PacksOK
  /\ metadata \in [etag : Version, modified : Version]
  /\ sync \in [Syncers -> Task]
  /\ merged \subseteq 1 .. MaxPacks

Idle == [pc |-> "idle"]

\* An archive left by an older build may hold anything that users had asked.
Init ==
  /\ rows = {} /\ staged = {}
  /\ archive \in [entries : {{}, Shared}, built : {FALSE}]
  /\ packs = <<>>
  /\ metadata = [etag |-> 0, modified |-> 0]
  /\ sync = [s \in Syncers |-> Idle]
  /\ merged = {}

-----------------------------------------------------------------------------
(* The rows *)

HashesOf(entries) == {e.hash : e \in entries}

\* INSERT OR IGNORE: an import never replaces a row, and the built-in pack is seeded
\* the same way.
Imported(entries) == rows \cup {e \in entries : e.hash \notin HashesOf(rows)}

\* INSERT OR REPLACE.
Replaced(entries) == {e \in rows : e.hash \notin HashesOf(entries)} \cup entries

\* A reply, to a user or to the miner, is written over the row.
Answer(e) ==
  /\ rows' = Replaced({e})
  /\ UNCHANGED <<staged, archive, packs, metadata, sync, merged>>

\* One row, all of them, a model's, or the unpinned ones whose prompt is too long.
Purge ==
  /\ \E gone \in SUBSET rows : gone # {} /\ rows' = rows \ gone
  /\ UNCHANGED <<staged, archive, packs, metadata, sync, merged>>

\* The command line replaces what the database has by the built-in pack.
ForceSeed ==
  /\ rows' = Replaced(Starter)
  /\ UNCHANGED <<staged, archive, packs, metadata, sync, merged>>

\* "cache import": an archive that another user exported.
Import ==
  /\ rows' = Imported(Shared)
  /\ UNCHANGED <<staged, archive, packs, metadata, sync, merged>>

-----------------------------------------------------------------------------
(* Moderation *)

\* An upload puts an entry back to "pending" under the id it already had, whatever
\* was decided about it, with the answer the upload brings.
InsertStagedEntries(entries) ==
  staged' = {s \in staged : s.entry.hash \notin HashesOf(entries)}
    \cup {[entry |-> e, status |-> "pending"] : e \in entries}

\* A pack that cannot be decrypted, unpacked or parsed is refused and changes nothing.
HandleModerateUpload ==
  /\ \E entries \in SUBSET Uploads :
       /\ entries # {} /\ OneEach(entries)
       /\ InsertStagedEntries(entries)
  /\ UNCHANGED <<rows, archive, packs, metadata, sync, merged>>

WithStatus(chosen, status) ==
  (staged \ chosen) \cup {[s EXCEPT !.status = status] : s \in chosen}

\* The entries are named by id: their status does not matter.
ApproveStagedEntries(chosen) ==
  /\ rows' = Replaced({s.entry : s \in chosen})
  /\ staged' = WithStatus(chosen, "approved")

RejectStagedEntries(chosen) ==
  /\ staged' = WithStatus(chosen, "rejected")
  /\ UNCHANGED rows

HandleModerateApprove ==
  /\ \E chosen \in SUBSET staged : chosen # {} /\ ApproveStagedEntries(chosen)
  /\ UNCHANGED <<archive, packs, metadata, sync, merged>>

HandleModerateReject ==
  /\ \E chosen \in SUBSET staged : chosen # {} /\ RejectStagedEntries(chosen)
  /\ UNCHANGED <<archive, packs, metadata, sync, merged>>

\* Those of one status, or all of them.
ClearStagedEntries ==
  /\ \/ \E s \in staged : staged' = {x \in staged : x.status # s.status}
     \/ staged # {} /\ staged' = {}
  /\ UNCHANGED <<rows, archive, packs, metadata, sync, merged>>

-----------------------------------------------------------------------------
(* Packing *)

\* The hash is that of a request the miner makes for a curated prompt.
allowedHashes(e) == e.hash \in Curated

\* The stored prompt still has the hash that the entry is kept under.
promptMatches(e) == NormalizePayload[e.prompt] = e.hash

\* The answer can be read, and is neither empty nor a placeholder.
responseText(e) == e.answer = "real"

\* Mutant: the hash is trusted to be that of the stored prompt.
PackableByHash(e) == allowedHashes(e) /\ responseText(e)

Packable(e) == allowedHashes(e) /\ promptMatches(e) /\ responseText(e)

\* What is in the file and what was found in the table must both pass; of two
\* entries for one hash the table's is packed.
Repacked(found) ==
  LET passed == {e \in found : Packable(e)}
  IN  {e \in archive.entries : Packable(e) /\ e.hash \notin HashesOf(passed)} \cup passed

PackStarterCache(found) == archive' = [entries |-> Repacked(found), built |-> TRUE]

\* The rows with too few hits or too long a prompt are passed over.
HandlePackStarterCache ==
  /\ \E found \in SUBSET rows : PackStarterCache(found)
  /\ UNCHANGED <<rows, staged, packs, metadata, sync, merged>>

\* The maintainer releases an archive this build has packed.
Publish ==
  /\ Len(packs) < MaxPacks
  /\ archive.built
  /\ packs' = Append(packs, archive.entries)
  /\ UNCHANGED <<rows, staged, archive, metadata, sync, merged>>

-----------------------------------------------------------------------------
(* Sync *)

\* Each process opens the database when it starts, which seeds one that is all but
\* empty; a process may end anywhere.
Open(s) ==
  /\ sync' = [sync EXCEPT ![s] = Idle]
  /\ rows' = IF Cardinality(rows) < SeedBelow THEN Imported(Starter) ELSE rows
  /\ UNCHANGED <<staged, archive, packs, metadata, merged>>

\* The two validators are read by two statements; forced, none is.  The loop never
\* forces.
ReadETag(s) ==
  /\ sync[s].pc = "idle"
  /\ sync' = [sync EXCEPT ![s] = [pc |-> "reading", etag |-> metadata.etag]]
  /\ UNCHANGED <<rows, staged, archive, packs, metadata, merged>>

ReadModified(s) ==
  /\ sync[s].pc = "reading"
  /\ sync' = [sync EXCEPT ![s] =
       [pc |-> "sent", etag |-> sync[s].etag, modified |-> metadata.modified]]
  /\ UNCHANGED <<rows, staged, archive, packs, metadata, merged>>

Forced(s) ==
  /\ s # Loop /\ sync[s].pc = "idle"
  /\ sync' = [sync EXCEPT ![s] = [pc |-> "sent", etag |-> 0, modified |-> 0]]
  /\ UNCHANGED <<rows, staged, archive, packs, metadata, merged>>

\* A server compares the ETag when it is sent one, else the date.
NotModified(request) ==
  IF request.etag # 0 THEN request.etag = Len(packs)
  ELSE request.modified # 0 /\ request.modified >= Len(packs)

\* 304: nothing changes, and the caller is told that all is up to date.
UpToDate(s) ==
  /\ sync[s].pc = "sent"
  /\ packs # <<>> /\ NotModified(sync[s])
  /\ sync' = [sync EXCEPT ![s] = [pc |-> "upToDate", pack |-> Len(packs)]]
  /\ UNCHANGED <<rows, staged, archive, packs, metadata, merged>>

Told(s) ==
  /\ sync[s].pc = "upToDate"
  /\ sync' = [sync EXCEPT ![s] = Idle]
  /\ UNCHANGED <<rows, staged, archive, packs, metadata, merged>>

\* Mutant: what was fetched is written down before it is imported.
FirstTheETag(s) == "etag"

AfterDownload(s) == "import"

Download(s) ==
  /\ sync[s].pc = "sent"
  /\ packs # <<>> /\ ~NotModified(sync[s])
  /\ sync' = [sync EXCEPT ![s] = [pc |-> AfterDownload(s), pack |-> Len(packs)]]
  /\ UNCHANGED <<rows, staged, archive, packs, metadata, merged>>

\* No answer, another status, a body that breaks off, a failed transaction: an
\* error, and nothing has changed.
Failed(s) ==
  /\ sync[s].pc \in {"sent", "import"}
  /\ sync' = [sync EXCEPT ![s] = Idle]
  /\ UNCHANGED <<rows, staged, archive, packs, metadata, merged>>

\* A response without an ETag leaves the stored one as it is.
ImportPack(s) ==
  /\ sync[s].pc = "import"
  /\ rows' = Imported(packs[sync[s].pack])
  /\ merged' = merged \cup {sync[s].pack}
  /\ \E next \in {"etag", "modified"} : sync' = [sync EXCEPT ![s].pc = next]
  /\ UNCHANGED <<staged, archive, packs, metadata>>

\* Mutant: the validators are asked for again.
NewestValidator(s) == Len(packs)

\* Those of the response that was imported.
Validator(s) == sync[s].pack

\* setMetadata ignores an error.
StoreETag(s) ==
  /\ sync[s].pc = "etag"
  /\ metadata' \in {metadata, [metadata EXCEPT !.etag = Validator(s)]}
  /\ sync' = [sync EXCEPT ![s].pc = "modified"]
  /\ UNCHANGED <<rows, staged, archive, packs, merged>>

StoreModified(s) ==
  /\ sync[s].pc = "modified"
  /\ metadata' \in {metadata, [metadata EXCEPT !.modified = Validator(s)]}
  /\ sync' = [sync EXCEPT ![s] = Idle]
  /\ UNCHANGED <<rows, staged, archive, packs, merged>>

Next ==
  \/ \E e \in Replies : Answer(e)
  \/ Purge \/ ForceSeed \/ Import
  \/ HandleModerateUpload \/ HandleModerateApprove \/ HandleModerateReject \/ ClearStagedEntries
  \/ HandlePackStarterCache \/ Publish
  \/ \E s \in Syncers :
       \/ Open(s) \/ ReadETag(s) \/ ReadModified(s) \/ Forced(s)
       \/ UpToDate(s) \/ Told(s) \/ Download(s) \/ Failed(s) \/ ImportPack(s)
       \/ StoreETag(s) \/ StoreModified(s)

Spec == Init /\ [][Next]_vars

\* The loop's goroutine goes on by itself, from tick to tick.  That its process
\* lives, and the network answers, long enough for a step is not always so, but
\* again and again.
FairSpec ==
  /\ Spec
  /\ WF_vars(ReadETag(Loop)) /\ WF_vars(Told(Loop))
  /\ WF_vars(StoreETag(Loop)) /\ WF_vars(StoreModified(Loop))
  /\ SF_vars(ReadModified(Loop)) /\ SF_vars(Download(Loop)) /\ SF_vars(ImportPack(Loop))

-----------------------------------------------------------------------------
\* Whoever is told that the cache is up to date has the newest pack's entries
\* merged: however two syncs mix their validators, and wherever a process ends,
\* what is stored of a pack is stored only once its import is committed.
UpToDateIsMerged ==
  \A s \in Syncers : sync[s].pc = "upToDate" => sync[s].pack \in merged

\* No pack that is published carries the prompt of a user's, whatever hash it is kept
\* under, an entry that no lookup of its prompt would find, or an answer that says
\* nothing: not from the table, where rows are answered, imported and approved, and
\* not from an archive that an older build has left.
ShipsOnlyCurated ==
  \A n \in 1 .. Len(packs) : \A e \in packs[n] :
    /\ NormalizePayload[e.prompt] \in Curated
    /\ e.hash = NormalizePayload[e.prompt]
    /\ e.answer = "real"

Clean(entries) == \A e \in entries : Packable(e)

\* What this build has packed is clean, and only that is released.
PackedClean ==
  /\ archive.built => Clean(archive.entries)
  /\ \A n \in 1 .. Len(packs) : Clean(packs[n])

\* A syncer's validators, and the pack it has the validators of, were imported first.
Honest(t) ==
  /\ t.pc \in {"reading", "sent"} => t.etag \in merged \cup {0}
  /\ t.pc = "sent" => t.modified \in merged \cup {0}
  /\ t.pc \in {"upToDate", "etag", "modified"} => t.pack \in merged
  /\ t.pc = "import" => t.pack <= Len(packs)

MergedFirst ==
  /\ merged \subseteq 1 .. Len(packs)
  /\ {metadata.etag, metadata.modified} \subseteq merged \cup {0}
  /\ \A s \in Syncers : Honest(sync[s])

Inductive == TypeOK /\ PackedClean /\ MergedFirst

\* The newest pack gets to the user, whatever failures and restarts come first.
RemoteArrives ==
  \A n \in 1 .. MaxPacks : <>[](Len(packs) = n) => <>(n \in merged)
=============================================================================
