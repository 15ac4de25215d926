---------------------------- MODULE CorpusProofs ----------------------------
(***************************************************************************)
(* However many syncers, packs, uploads and archives there are: nobody is   *)
(* told that a pack he lacks is up to date, and no pack that is released     *)
(* carries a prompt that only a user has sent.                                       *)
(***************************************************************************)
EXTENDS Corpus, TLAPS

-----------------------------------------------------------------------------
(* What the statements on the tables and the packing return. *)

LEMMA ImportKeepsRows ==
  ASSUME RowsOK, NEW entries \in SUBSET Entry, OneEach(entries)
  PROVE  Imported(entries) \subseteq Entry /\ OneEach(Imported(entries))
BY DEF RowsOK, OneEach, Imported, HashesOf

LEMMA ReplaceKeepsRows ==
  ASSUME RowsOK, NEW entries \in SUBSET Entry, OneEach(entries)
  PROVE  Replaced(entries) \subseteq Entry /\ OneEach(Replaced(entries))
BY DEF RowsOK, OneEach, Replaced, HashesOf

LEMMA RepackedIsClean ==
  ASSUME RowsOK, ArchiveOK, NEW found \in SUBSET rows
  PROVE  /\ Repacked(found) \subseteq Entry
         /\ OneEach(Repacked(found))
         /\ Clean(Repacked(found))
<1> DEFINE passed == {e \in found : Packable(e)}
<1>1. passed \subseteq Entry /\ OneEach(passed) /\ Clean(passed)
  BY DEF RowsOK, OneEach, Clean
<1>2. archive.entries \subseteq Entry /\ OneEach(archive.entries)
  BY DEF ArchiveOK
<1>3. Repacked(found) =
        {e \in archive.entries : Packable(e) /\ e.hash \notin HashesOf(passed)} \cup passed
  BY DEF Repacked
<1> HIDE DEF passed
<1> QED BY <1>1, <1>2, <1>3 DEF OneEach, Clean, HashesOf

\* The fields a task has at its places.
LEMMA TaskShapes ==
  ASSUME NEW t \in Task
  PROVE  /\ t.pc = "reading" => t.etag \in Version
         /\ t.pc = "sent" => t.etag \in Version /\ t.modified \in Version
         /\ t.pc \in {"upToDate", "import", "etag", "modified"} =>
              /\ t.pack \in 1 .. MaxPacks
              /\ t \in [pc : {"upToDate", "import", "etag", "modified"}, pack : 1 .. MaxPacks]
BY DEF Task

LEMMA NextPlace ==
  ASSUME NEW t \in [pc : {"upToDate", "import", "etag", "modified"}, pack : 1 .. MaxPacks],
         NEW pc \in {"etag", "modified"}
  PROVE  [t EXCEPT !.pc = pc] = [pc |-> pc, pack |-> t.pack]
OBVIOUS

LEMMA NewTasks ==
  /\ Idle \in Task
  /\ \A e, m \in Version :
       [pc |-> "reading", etag |-> e] \in Task /\ [pc |-> "sent", etag |-> e, modified |-> m] \in Task
  /\ \A pc \in {"upToDate", "import", "etag", "modified"}, n \in 1 .. MaxPacks :
       [pc |-> pc, pack |-> n] \in Task
BY DEF Task, Idle

-----------------------------------------------------------------------------
(* The inductive invariant. *)

LEMMA InitInductive == Init => Inductive
<1> SUFFICES ASSUME Init PROVE Inductive
  OBVIOUS
<1>1. RowsOK /\ StagedOK
  BY DEF Init, RowsOK, StagedOK, OneEach
<1>2. ArchiveOK
  BY CorpusAssumption DEF Init, ArchiveOK, OneEach
<1>3. PacksOK
  BY CorpusAssumption DEF Init, PacksOK
<1>4. metadata \in [etag : Version, modified : Version] /\ sync \in [Syncers -> Task]
  BY CorpusAssumption, NewTasks DEF Init, Version
<1>5. Len(packs) = 0 /\ ~archive.built
  BY DEF Init
<1>6. \A s \in Syncers : Honest(sync[s])
  BY DEF Init, Honest, Idle
<1>7. PackedClean /\ MergedFirst
  BY <1>5, <1>6 DEF Init, PackedClean, MergedFirst
<1> QED BY <1>1, <1>2, <1>3, <1>4, <1>7 DEF Init, TypeOK, Inductive

\* A step on the cache or the staged entries leaves packs and syncs alone.
LEMMA TablesKeep ==
  ASSUME Inductive, RowsOK', StagedOK', UNCHANGED <<archive, packs, metadata, sync, merged>>
  PROVE  Inductive'
<1>1. TypeOK'
  BY DEF Inductive, TypeOK, ArchiveOK, PacksOK
<1>2. PackedClean' /\ MergedFirst'
  BY DEF Inductive, PackedClean, Clean, Packable, allowedHashes, promptMatches, responseText, MergedFirst, Honest
<1> QED BY <1>1, <1>2 DEF Inductive

\* A step of one sync that only changes what it remembers, and perhaps rows.
LEMMA SyncKeeps ==
  ASSUME Inductive, NEW s \in Syncers, NEW t \in Task, Honest(t),
         sync' = [sync EXCEPT ![s] = t],
         RowsOK', UNCHANGED <<staged, archive, packs, metadata, merged>>
  PROVE  Inductive'
<1>1. TypeOK'
  BY DEF Inductive, TypeOK, StagedOK, ArchiveOK, PacksOK
<1>2. PackedClean'
  BY DEF Inductive, PackedClean, Clean, Packable, allowedHashes, promptMatches, responseText
<1>3. \A u \in Syncers : Honest(sync[u])'
  BY DEF Inductive, TypeOK, MergedFirst, Honest
<1> QED BY <1>1, <1>2, <1>3 DEF Inductive, MergedFirst

LEMMA RowsUnchanged ==
  ASSUME Inductive, UNCHANGED rows
  PROVE  RowsOK'
BY DEF Inductive, TypeOK, RowsOK

LEMMA StagedUnchanged ==
  ASSUME Inductive, UNCHANGED staged
  PROVE  StagedOK'
BY DEF Inductive, TypeOK, StagedOK

\* A 304 comes only to a request whose validator is that of the newest pack.
LEMMA NotModifiedIsMerged ==
  ASSUME Inductive, NEW s \in Syncers, sync[s].pc = "sent", NotModified(sync[s]), packs # <<>>
  PROVE  Len(packs) \in merged
<1>1. Len(packs) \in Nat
  BY DEF Inductive, TypeOK, PacksOK
<1>2. merged \subseteq 1 .. Len(packs)
  BY DEF Inductive, MergedFirst
<1>3. sync[s].etag \in merged \cup {0} /\ sync[s].modified \in merged \cup {0}
  BY DEF Inductive, MergedFirst, Honest
<1>4. CASE sync[s].etag # 0
  <2>1. sync[s].etag = Len(packs)
    BY <1>4 DEF NotModified
  <2> QED BY <1>3, <1>4, <2>1
<1>5. CASE sync[s].etag = 0
  <2> DEFINE m == sync[s].modified
  <2>1. m # 0 /\ m >= Len(packs)
    BY <1>5 DEF NotModified
  <2>2. m \in merged
    BY <1>3, <2>1
  <2> HIDE DEF m
  <2>3. m = Len(packs)
    BY <1>1, <1>2, <2>1, <2>2
  <2> QED BY <2>2, <2>3
<1> QED BY <1>4, <1>5

LEMMA PackCount ==
  ASSUME Inductive
  PROVE  /\ Len(packs) \in 0 .. MaxPacks
         /\ packs # <<>> => Len(packs) \in 1 .. MaxPacks
         /\ \A n \in 1 .. Len(packs) : packs[n] \in SUBSET Entry /\ OneEach(packs[n])
BY CorpusAssumption DEF Inductive, TypeOK, PacksOK

-----------------------------------------------------------------------------
(* The steps on the tables. *)

LEMMA CacheSteps ==
  ASSUME Inductive,
         (\E e \in Replies : Answer(e)) \/ Purge \/ ForceSeed \/ Import
  PROVE  Inductive'
<1>1. RowsOK
  BY DEF Inductive, TypeOK
<1>2. ASSUME NEW e \in Replies, Answer(e) PROVE Inductive'
  <2>1. {e} \in SUBSET Entry /\ OneEach({e})
    BY CorpusAssumption DEF OneEach
  <2>2. RowsOK'
    BY <1>1, <1>2, <2>1, ReplaceKeepsRows DEF Answer, RowsOK
  <2> QED BY <1>2, <2>2, StagedUnchanged, TablesKeep DEF Answer
<1>3. CASE Purge
  <2>1. RowsOK'
    BY <1>1, <1>3 DEF Purge, RowsOK, OneEach
  <2> QED BY <1>3, <2>1, StagedUnchanged, TablesKeep DEF Purge
<1>4. CASE ForceSeed
  <2>1. RowsOK'
    BY <1>1, <1>4, CorpusAssumption, ReplaceKeepsRows DEF ForceSeed, RowsOK
  <2> QED BY <1>4, <2>1, StagedUnchanged, TablesKeep DEF ForceSeed
<1>5. CASE Import
  <2>1. RowsOK'
    BY <1>1, <1>5, CorpusAssumption, ImportKeepsRows DEF Import, RowsOK
  <2> QED BY <1>5, <2>1, StagedUnchanged, TablesKeep DEF Import
<1> QED BY <1>2, <1>3, <1>4, <1>5

LEMMA StatusKeepsStaged ==
  ASSUME StagedOK, NEW chosen \in SUBSET staged,
         NEW status \in {"pending", "approved", "rejected"},
         staged' = WithStatus(chosen, status)
  PROVE  StagedOK'
<1>1. \A x \in staged' : \E y \in staged :
        /\ x.entry = y.entry /\ x \in Staged
        /\ y \in chosen <=> x = [y EXCEPT !.status = status] /\ y \in chosen
        /\ y \notin chosen => x = y
  BY DEF StagedOK, Staged, WithStatus
<1>2. \A x \in staged' : x \in Staged
  BY <1>1
<1>3. ASSUME NEW x \in staged', NEW y \in staged', x.entry.hash = y.entry.hash PROVE x = y
  BY <1>1, <1>3 DEF StagedOK
<1> QED BY <1>2, <1>3 DEF StagedOK

LEMMA ModerationSteps ==
  ASSUME Inductive,
         HandleModerateUpload \/ HandleModerateApprove \/ HandleModerateReject \/ ClearStagedEntries
  PROVE  Inductive'
<1>1. RowsOK /\ StagedOK
  BY DEF Inductive, TypeOK
<1>2. CASE HandleModerateUpload
  <2>1. PICK entries \in SUBSET Uploads : OneEach(entries) /\ InsertStagedEntries(entries)
    BY <1>2 DEF HandleModerateUpload
  <2>2. entries \subseteq Entry
    BY CorpusAssumption
  <2>3. StagedOK'
    BY <1>1, <2>1, <2>2 DEF InsertStagedEntries, StagedOK, Staged, HashesOf, OneEach
  <2> QED BY <1>2, <2>3, RowsUnchanged, TablesKeep DEF HandleModerateUpload
<1>3. CASE HandleModerateApprove
  <2>1. PICK chosen \in SUBSET staged : ApproveStagedEntries(chosen)
    BY <1>3 DEF HandleModerateApprove
  <2>2. {s.entry : s \in chosen} \in SUBSET Entry /\ OneEach({s.entry : s \in chosen})
    BY <1>1 DEF StagedOK, Staged, OneEach
  <2>3. RowsOK'
    BY <1>1, <2>1, <2>2, ReplaceKeepsRows DEF ApproveStagedEntries, RowsOK
  <2>4. StagedOK'
    BY <1>1, <2>1, StatusKeepsStaged DEF ApproveStagedEntries
  <2> QED BY <1>3, <2>3, <2>4, TablesKeep DEF HandleModerateApprove
<1>4. CASE HandleModerateReject
  <2>1. PICK chosen \in SUBSET staged : RejectStagedEntries(chosen)
    BY <1>4 DEF HandleModerateReject
  <2>2. StagedOK'
    BY <1>1, <2>1, StatusKeepsStaged DEF RejectStagedEntries
  <2> QED BY <1>4, <2>1, <2>2, RowsUnchanged, TablesKeep
          DEF HandleModerateReject, RejectStagedEntries
<1>5. CASE ClearStagedEntries
  <2>1. StagedOK'
    BY <1>1, <1>5 DEF ClearStagedEntries, StagedOK
  <2> QED BY <1>5, <2>1, RowsUnchanged, TablesKeep DEF ClearStagedEntries
<1> QED BY <1>2, <1>3, <1>4, <1>5

-----------------------------------------------------------------------------
(* Packing and releasing. *)

LEMMA PackingSteps ==
  ASSUME Inductive, HandlePackStarterCache \/ Publish
  PROVE  Inductive'
<1>1. TypeOK /\ PackedClean /\ MergedFirst
  BY DEF Inductive
<1>2. CASE HandlePackStarterCache
  <2>1. PICK found \in SUBSET rows : archive' = [entries |-> Repacked(found), built |-> TRUE]
    BY <1>2 DEF HandlePackStarterCache, PackStarterCache
  <2>2. /\ Repacked(found) \subseteq Entry
        /\ OneEach(Repacked(found))
        /\ Clean(Repacked(found))
    BY <1>1, RepackedIsClean DEF TypeOK
  <2>3. ArchiveOK'
    BY <2>1, <2>2 DEF ArchiveOK
  <2>4. TypeOK'
    BY <1>1, <1>2, <2>3 DEF HandlePackStarterCache, TypeOK, RowsOK, StagedOK, PacksOK
  <2>5. PackedClean'
    BY <1>1, <1>2, <2>1, <2>2
       DEF HandlePackStarterCache, PackedClean, Clean, Packable, allowedHashes, promptMatches, responseText
  <2>6. MergedFirst'
    BY <1>1, <1>2 DEF HandlePackStarterCache, MergedFirst, Honest
  <2> QED BY <2>4, <2>5, <2>6 DEF Inductive
<1>3. CASE Publish
  <2>1. /\ archive.entries \in SUBSET Entry /\ OneEach(archive.entries)
        /\ Clean(archive.entries)
    BY <1>1, <1>3 DEF Publish, TypeOK, ArchiveOK, PackedClean
  <2>2. packs \in Seq(SUBSET Entry) /\ Len(packs) \in Nat /\ Len(packs) < MaxPacks
    BY <1>1, <1>3 DEF Publish, TypeOK, PacksOK
  <2>3. /\ packs' \in Seq(SUBSET Entry) /\ Len(packs') = Len(packs) + 1
        /\ \A n \in 1 .. Len(packs) : packs'[n] = packs[n]
        /\ packs'[Len(packs) + 1] = archive.entries
    BY <1>3, <2>1, <2>2 DEF Publish
  <2>4. \A n \in 1 .. Len(packs') : n \in 1 .. Len(packs) \/ n = Len(packs) + 1
    BY <2>2, <2>3
  <2>5. PacksOK'
    <3>1. \A n \in 1 .. Len(packs') : OneEach(packs'[n])
      BY <1>1, <2>1, <2>3, <2>4 DEF TypeOK, PacksOK
    <3>2. Len(packs') <= MaxPacks
      BY <2>2, <2>3, CorpusAssumption
    <3> QED BY <2>3, <3>1, <3>2 DEF PacksOK, OneEach
  <2>6. TypeOK'
    BY <1>1, <1>3, <2>5 DEF Publish, TypeOK, RowsOK, StagedOK, ArchiveOK
  <2>7. PackedClean'
    <3>1. \A n \in 1 .. Len(packs') : Clean(packs'[n])
      BY <1>1, <2>1, <2>3, <2>4 DEF PackedClean
    <3>2. UNCHANGED archive
      BY <1>3 DEF Publish
    <3> QED BY <1>1, <3>1, <3>2 DEF PackedClean, Clean, Packable, allowedHashes, promptMatches, responseText
  <2>8. MergedFirst'
    <3>1. merged \subseteq 1 .. Len(packs')
      BY <1>1, <2>2, <2>3 DEF MergedFirst
    <3>2. ASSUME NEW s \in Syncers PROVE Honest(sync[s])'
      <4>1. sync[s].pc = "import" => sync[s].pack \in 1 .. MaxPacks
        BY <1>1, TaskShapes DEF TypeOK
      <4> QED BY <1>1, <1>3, <2>2, <2>3, <4>1 DEF Publish, MergedFirst, Honest
    <3> QED BY <1>1, <1>3, <3>1, <3>2 DEF Publish, MergedFirst
  <2> QED BY <2>6, <2>7, <2>8 DEF Inductive
<1> QED BY <1>2, <1>3

-----------------------------------------------------------------------------
(* The steps of a sync. *)

LEMMA SyncSteps ==
  ASSUME Inductive, NEW s \in Syncers,
         \/ Open(s) \/ ReadETag(s) \/ ReadModified(s) \/ Forced(s)
         \/ UpToDate(s) \/ Told(s) \/ Download(s) \/ Failed(s) \/ ImportPack(s)
         \/ StoreETag(s) \/ StoreModified(s)
  PROVE  Inductive'
<1>1. TypeOK /\ PackedClean /\ MergedFirst
  BY DEF Inductive
<1>2. sync[s] \in Task /\ Honest(sync[s])
  BY <1>1 DEF TypeOK, MergedFirst
<1>3. 0 \in Version
  BY CorpusAssumption DEF Version
<1>4. Idle \in Task /\ Honest(Idle)
  BY NewTasks DEF Idle, Honest
<1>5. CASE Open(s)
  <2>1. RowsOK'
    BY <1>1, <1>5, CorpusAssumption, ImportKeepsRows DEF Open, TypeOK, RowsOK
  <2> QED BY <1>4, <1>5, <2>1, SyncKeeps DEF Open
<1>6. CASE ReadETag(s)
  <2> DEFINE t == [pc |-> "reading", etag |-> metadata.etag]
  <2>1. t \in Task
    BY <1>1, NewTasks, <1>3 DEF TypeOK
  <2>2. Honest(t)
    BY <1>1 DEF MergedFirst, Honest
  <2>3. sync' = [sync EXCEPT ![s] = t] /\ UNCHANGED <<rows, staged, archive, packs, metadata, merged>>
    BY <1>6 DEF ReadETag
  <2> QED BY <2>1, <2>2, <2>3, RowsUnchanged, SyncKeeps
<1>7. CASE ReadModified(s)
  <2> DEFINE t == [pc |-> "sent", etag |-> sync[s].etag, modified |-> metadata.modified]
  <2>1. t \in Task
    BY <1>1, <1>2, <1>7, TaskShapes, NewTasks DEF TypeOK, ReadModified
  <2>2. Honest(t)
    BY <1>1, <1>2, <1>7 DEF MergedFirst, Honest, ReadModified
  <2>3. sync' = [sync EXCEPT ![s] = t] /\ UNCHANGED <<rows, staged, archive, packs, metadata, merged>>
    BY <1>7 DEF ReadModified
  <2> QED BY <2>1, <2>2, <2>3, RowsUnchanged, SyncKeeps
<1>8. CASE Forced(s)
  <2> DEFINE t == [pc |-> "sent", etag |-> 0, modified |-> 0]
  <2>1. t \in Task /\ Honest(t)
    BY <1>3, NewTasks DEF Honest
  <2>2. sync' = [sync EXCEPT ![s] = t] /\ UNCHANGED <<rows, staged, archive, packs, metadata, merged>>
    BY <1>8 DEF Forced
  <2> QED BY <2>1, <2>2, RowsUnchanged, SyncKeeps
<1>9. CASE UpToDate(s)
  <2> DEFINE t == [pc |-> "upToDate", pack |-> Len(packs)]
  <2>1. Len(packs) \in merged /\ Len(packs) \in 1 .. MaxPacks
    BY <1>9, NotModifiedIsMerged, PackCount DEF UpToDate
  <2>2. t \in Task /\ Honest(t)
    BY <2>1, NewTasks DEF Honest
  <2>3. sync' = [sync EXCEPT ![s] = t] /\ UNCHANGED <<rows, staged, archive, packs, metadata, merged>>
    BY <1>9 DEF UpToDate
  <2> QED BY <2>2, <2>3, RowsUnchanged, SyncKeeps
<1>10. CASE Told(s) \/ Failed(s)
  <2>1. sync' = [sync EXCEPT ![s] = Idle] /\ UNCHANGED <<rows, staged, archive, packs, metadata, merged>>
    BY <1>10 DEF Told, Failed
  <2> QED BY <1>4, <2>1, RowsUnchanged, SyncKeeps
<1>11. CASE Download(s)
  <2> DEFINE t == [pc |-> "import", pack |-> Len(packs)]
  <2>1. Len(packs) \in 1 .. MaxPacks
    BY <1>11, PackCount DEF Download
  <2>2. t \in Task /\ Honest(t)
    BY <2>1, NewTasks DEF Honest
  <2>3. sync' = [sync EXCEPT ![s] = t] /\ UNCHANGED <<rows, staged, archive, packs, metadata, merged>>
    BY <1>11 DEF Download, AfterDownload
  <2> QED BY <2>2, <2>3, RowsUnchanged, SyncKeeps
<1>12. CASE ImportPack(s)
  <2>1. PICK next \in {"etag", "modified"} : sync' = [sync EXCEPT ![s].pc = next]
    BY <1>12 DEF ImportPack
  <2> DEFINE n == sync[s].pack
  <2>2. n \in 1 .. MaxPacks /\ n \in 1 .. Len(packs)
    BY <1>2, <1>12, TaskShapes, PackCount DEF ImportPack, Honest
  <2>3. sync' = [sync EXCEPT ![s] = [pc |-> next, pack |-> n]]
    BY <1>2, <1>12, <2>1, TaskShapes, NextPlace DEF ImportPack
  <2>4. [pc |-> next, pack |-> n] \in Task
    BY <2>2, NewTasks
  <2>5. RowsOK'
    BY <1>1, <1>12, <2>2, PackCount, ImportKeepsRows DEF ImportPack, TypeOK, RowsOK
  <2>6. merged' = merged \cup {n} /\ UNCHANGED <<staged, archive, packs, metadata>>
    BY <1>12 DEF ImportPack
  <2>7. TypeOK'
    BY <1>1, <2>2, <2>3, <2>4, <2>5, <2>6 DEF TypeOK, StagedOK, ArchiveOK, PacksOK
  <2>8. PackedClean'
    BY <1>1, <2>6 DEF PackedClean, Clean, Packable, allowedHashes, promptMatches, responseText
  <2>9. \A u \in Syncers : Honest(sync[u])'
    BY <1>1, <2>3, <2>6 DEF TypeOK, MergedFirst, Honest
  <2>10. MergedFirst'
    BY <1>1, <2>2, <2>6, <2>9 DEF MergedFirst
  <2> QED BY <2>7, <2>8, <2>10 DEF Inductive
<1>13. CASE StoreETag(s) \/ StoreModified(s)
  <2> DEFINE n == sync[s].pack
  <2>1. n \in 1 .. MaxPacks /\ n \in merged
    BY <1>2, <1>13, TaskShapes DEF StoreETag, StoreModified, Honest
  <2>2. /\ metadata' \in {metadata, [metadata EXCEPT !.etag = n], [metadata EXCEPT !.modified = n]}
        /\ UNCHANGED <<rows, staged, archive, packs, merged>>
    BY <1>13 DEF StoreETag, StoreModified, Validator
  <2>3. metadata' \in [etag : Version, modified : Version]
    BY <1>1, <2>1, <2>2 DEF TypeOK, Version
  <2>4. PICK t \in Task : Honest(t) /\ sync' = [sync EXCEPT ![s] = t]
    <3>1. CASE StoreETag(s)
      <4>1. sync' = [sync EXCEPT ![s] = [pc |-> "modified", pack |-> n]]
        BY <1>2, <3>1, TaskShapes, NextPlace DEF StoreETag
      <4>2. [pc |-> "modified", pack |-> n] \in Task /\ Honest([pc |-> "modified", pack |-> n])
        BY <2>1, NewTasks DEF Honest
      <4> QED BY <4>1, <4>2
    <3>2. CASE StoreModified(s)
      BY <1>4, <3>2 DEF StoreModified
    <3> QED BY <1>13, <3>1, <3>2
  <2>5. TypeOK'
    BY <1>1, <2>2, <2>3, <2>4 DEF TypeOK, RowsOK, StagedOK, ArchiveOK, PacksOK
  <2>6. PackedClean'
    BY <1>1, <2>2 DEF PackedClean, Clean, Packable, allowedHashes, promptMatches, responseText
  <2>7. {metadata'.etag, metadata'.modified} \subseteq merged \cup {0}
    BY <1>1, <2>1, <2>2 DEF TypeOK, MergedFirst
  <2>8. \A u \in Syncers : Honest(sync[u])'
    BY <1>1, <2>2, <2>4 DEF TypeOK, MergedFirst, Honest
  <2>9. MergedFirst'
    BY <1>1, <2>2, <2>7, <2>8 DEF MergedFirst
  <2> QED BY <2>5, <2>6, <2>9 DEF Inductive
<1> QED BY <1>5, <1>6, <1>7, <1>8, <1>9, <1>10, <1>11, <1>12, <1>13

LEMMA StepInductive == Inductive /\ [Next]_vars => Inductive'
<1> SUFFICES ASSUME Inductive, [Next]_vars PROVE Inductive'
  OBVIOUS
<1>1. CASE Next
  BY <1>1, CacheSteps, ModerationSteps, PackingSteps, SyncSteps DEF Next
<1>2. CASE UNCHANGED vars
  BY <1>2, RowsUnchanged, StagedUnchanged, TablesKeep DEF vars
<1> QED BY <1>1, <1>2

LEMMA AlwaysInductive == Spec => []Inductive
BY InitInductive, StepInductive, PTL DEF Spec

-----------------------------------------------------------------------------
\* The tables keep one row per hash, and every sync its place, through any interleaving
\* of syncs, imports, moderation, packing and restarts.
THEOREM TypeCorrect == Spec => []TypeOK
<1>1. Inductive => TypeOK
  BY DEF Inductive
<1> QED BY <1>1, AlwaysInductive, PTL

\* Whoever is told that the cache is up to date has had the newest pack merged
\* (Sync of internal/cache/sync): for any number of syncers, and wherever they stop.
THEOREM UpToDateTold == Spec => []UpToDateIsMerged
<1>1. Inductive => UpToDateIsMerged
  BY DEF Inductive, MergedFirst, Honest, UpToDateIsMerged
<1> QED BY <1>1, AlwaysInductive, PTL

\* A released pack has answers to curated requests only, and with them the prompts of
\* those requests and of no other (PackStarterCache and StarterFilter.Check): whatever
\* users ask, upload, import and approve, under whatever hash it came.
THEOREM ReleasesAreCurated == Spec => []ShipsOnlyCurated
<1>1. Inductive => ShipsOnlyCurated
  BY DEF Inductive, PackedClean, Clean, Packable, allowedHashes, promptMatches, responseText, ShipsOnlyCurated
<1> QED BY <1>1, AlwaysInductive, PTL
=============================================================================
