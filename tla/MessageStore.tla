--------------------------- MODULE MessageStore ---------------------------
(***************************************************************************)
(* The encrypted message-projection store,                                 *)
(* packages/volna-messaging-client/src/encrypted-message-store.mjs, over   *)
(* the key-value database of expo-storage-adapter.ts.                      *)
(*                                                                         *)
(* A thread's records are cut into chunks of ChunkSize.  The index of a    *)
(* thread lists its chunks; the manifest gives, for each thread, the       *)
(* revision its committed index was written at.  An index or chunk lives   *)
(* under a key derived from (thread, revision[, position]); a save writes  *)
(* the chunks and index of the next revision beside the committed ones,    *)
(* then the manifest, which is the commit, then removes what the manifest  *)
(* no longer reaches.  Every database call is a step of its own: it may    *)
(* fail, and the process may die, before or after each of them.            *)
(*                                                                         *)
(* Encryption and hashing are abstracted: what is read back is what was    *)
(* written, a content hash is the content, distinct (thread, revision,     *)
(* position) triples have distinct keys.                                   *)
(***************************************************************************)
EXTENDS Integers, Sequences

CONSTANTS
    Stores,         \* store objects over one database: tabs, or a released
                    \* client whose calls still run beside its successor
    Threads,        \* thread identifiers, visited in increasing order
    Records,        \* message records
    Contents,       \* record sequences a caller may save for a thread
    ChunkSize,      \* RECORDS_PER_CHUNK
    Exclusive,      \* withLock excludes the other stores (Web Locks)
    HonestCallers,  \* the save hints describe the difference truly
    MaxRevision,    \* bound on a thread's revision
    Absent, Nothing, Torn

ASSUME ThreadsAssumption == Threads \subseteq Nat
ASSUME ContentsAssumption == Contents \subseteq Seq(Records)
ASSUME ChunkSizeAssumption == ChunkSize \in Nat \ {0}
ASSUME ExclusiveAssumption == Exclusive \in BOOLEAN
ASSUME NothingAssumption == Nothing \notin [Threads -> Nat]
ASSUME AbsentAssumption == Absent \notin Contents

VARIABLES
    disk,   \* the database: a function from the keys present to values
    op,     \* the operation each store is running
    torn    \* a clear has begun and none has completed since

vars == <<disk, op, torn>>
-----------------------------------------------------------------------------
(* Keys and values.                                                        *)

Key == [kind : {"manifest", "index", "chunk"}, thread : Nat, rev : Nat, pos : Nat]

ManifestKey == [kind |-> "manifest", thread |-> 0, rev |-> 0, pos |-> 0]
IndexKey(t, r) == [kind |-> "index", thread |-> t, rev |-> r, pos |-> 0]
ChunkKey(t, r, i) == [kind |-> "chunk", thread |-> t, rev |-> r, pos |-> i]

ChunkDescriptor == [rev : Nat, records : Seq(Records)]

ValueOf(k) ==
    CASE k.kind = "manifest" -> [Threads -> Nat]
      [] k.kind = "index" -> Seq(ChunkDescriptor)
      [] k.kind = "chunk" -> Seq(Records)

NoThreads == [t \in Threads |-> 0]
Empty == [k \in {} |-> 0]

\* readManifest: revision 0 stands for a thread that is not in the manifest.
Manifest == IF ManifestKey \in DOMAIN disk THEN disk[ManifestKey] ELSE NoThreads

\* descriptorStorageKeys, for an index idx committed at revision r.
KeysOf(t, r, idx) ==
    {IndexKey(t, r)} \union {ChunkKey(t, idx[i].rev, i) : i \in DOMAIN idx}

\* What readThread demands of database d for manifest m: the index is there,
\* and each chunk it names is there with the content the index hashes.
ReadableIn(d, m, t) ==
    m[t] # 0 =>
        /\ IndexKey(t, m[t]) \in DOMAIN d
        /\ LET idx == d[IndexKey(t, m[t])]
           IN \A i \in DOMAIN idx :
                /\ ChunkKey(t, idx[i].rev, i) \in DOMAIN d
                /\ d[ChunkKey(t, idx[i].rev, i)] = idx[i].records

Readable == \A t \in Threads : ReadableIn(disk, Manifest, t)

\* The keys manifest m reaches in database d, for one thread; all of them.
KeysIn(d, m, t) ==
    IF m[t] = 0 THEN {} ELSE KeysOf(t, m[t], d[IndexKey(t, m[t])])
LiveKeys == UNION {KeysIn(disk, Manifest, t) : t \in Threads}
-----------------------------------------------------------------------------
(* writeThread: the index the next revision of a thread will have.  p is   *)
(* the committed index, r its revision (0: none), s the records to save.   *)

Chunked(s) ==
    [i \in 1 .. ((Len(s) + ChunkSize - 1) \div ChunkSize) |->
        SubSeq(s, (i - 1) * ChunkSize + 1,
                  IF i * ChunkSize < Len(s) THEN i * ChunkSize ELSE Len(s))]

\* The sentinels are no histories and no projections.
ASSUME WantAssumption == Nothing \notin [Threads -> Contents \union {Absent}]
ASSUME ProjectionAssumption ==
    {Nothing, Torn} \intersect [Threads -> {Chunked(s) : s \in Contents} \union {Absent}] = {}

RecordCount(p) ==
    IF p = <<>> THEN 0 ELSE (Len(p) - 1) * ChunkSize + Len(p[Len(p)].records)
\* The chunks an append-only save keeps: all, or all but a partial last one.
FullChunks(p) == IF RecordCount(p) % ChunkSize = 0 THEN Len(p) ELSE Len(p) - 1

\* The append-only checks: no rollback, and the records of the partial last
\* chunk are the ones saved before.  Complete chunks are not compared.
AppendAccepted(p, s) ==
    /\ Len(s) >= RecordCount(p)
    /\ RecordCount(p) % ChunkSize # 0 =>
        p[Len(p)].records = SubSeq(s, FullChunks(p) * ChunkSize + 1, RecordCount(p))

NewChunk(r, s, i) == [rev |-> r + 1, records |-> Chunked(s)[i]]

\* Mutant: an append-only save keeps a partial last chunk too.
MutKeepPartialChunk(p, r, s, append) ==
    [i \in DOMAIN Chunked(s) |->
        IF i \in DOMAIN p /\ (append \/ p[i].records = Chunked(s)[i])
        THEN p[i] ELSE NewChunk(r, s, i)]

NextIndex(p, r, s, append) ==
    IF append /\ r # 0
    THEN IF Len(s) = RecordCount(p) THEN p
         ELSE [i \in DOMAIN Chunked(s) |->
                IF i <= FullChunks(p) THEN p[i] ELSE NewChunk(r, s, i)]
    ELSE [i \in DOMAIN Chunked(s) |->
            IF i \in DOMAIN p /\ p[i].records = Chunked(s)[i]
            THEN p[i] ELSE NewChunk(r, s, i)]

\* The hints tell the truth: a thread not named as changed is as committed,
\* and one named as append-only extends what is committed.
Truthful(p, s, isChanged, append) ==
    /\ ~isChanged => Chunked(s) = [i \in DOMAIN p |-> p[i].records]
    /\ append => /\ AppendAccepted(p, s)
                 /\ \A i \in 1 .. FullChunks(p) : p[i].records = Chunked(s)[i]
-----------------------------------------------------------------------------
Idle == [phase |-> "idle", want |-> Nothing, puts |-> Empty,
         next |-> Nothing, stale |-> {}]

Init ==
    /\ disk = Empty
    /\ op = [s \in Stores |-> Idle]
    /\ torn = FALSE

\* runExclusive: a store runs one operation at a time; withLock, where the
\* platform has it, lets one store at a time in.
MayEnter(s) ==
    /\ op[s] = Idle
    /\ Exclusive => \A r \in Stores : op[r] = Idle

\* The pieces of saveAllThreads(want, {changed, append}), as they are settled
\* before its first write.

PrevIndex(t) ==
    IF Manifest[t] = 0 THEN <<>> ELSE disk[IndexKey(t, Manifest[t])]

Present(want) == {t \in Threads : want[t] # Absent}
Touched(want, changed) ==
    {t \in Present(want) : t \in changed \/ Manifest[t] = 0}
\* Committed threads whose parts the new manifest may stop using.
Replaced(want, changed) ==
    {t \in Threads : /\ Manifest[t] # 0
                     /\ t \in Touched(want, changed) \/ t \notin Present(want)}

\* Threads whose append-only checks throw: the save stops at the first.
Refused(want, changed, append) ==
    {t \in Touched(want, changed) \intersect append :
        Manifest[t] # 0 /\ ~AppendAccepted(PrevIndex(t), want[t])}

IndexFor(t, want, append) ==
    NextIndex(PrevIndex(t), Manifest[t], want[t], t \in append)

Rewritten(want, changed, append) ==
    {t \in Touched(want, changed) :
        /\ Manifest[t] = 0 \/ IndexFor(t, want, append) # PrevIndex(t)
        /\ \A b \in Refused(want, changed, append) : t < b}

\* Mutant: a thread the caller left out stays in the manifest.
MutKeepRemovedThread(want, changed, append) ==
    [t \in Threads |->
        IF t \in Rewritten(want, changed, append) THEN Manifest[t] + 1 ELSE Manifest[t]]

NextManifest(want, changed, append) ==
    [t \in Threads |->
        IF t \notin Present(want) THEN 0
        ELSE IF t \in Rewritten(want, changed, append) THEN Manifest[t] + 1
        ELSE Manifest[t]]

\* The index of a rewritten thread, and those of its chunks that are new.
NewKeys(t, idx) ==
    {IndexKey(t, Manifest[t] + 1)} \union
    {ChunkKey(t, Manifest[t] + 1, i) :
        i \in {j \in DOMAIN idx : idx[j].rev = Manifest[t] + 1}}

Puts(want, changed, append) ==
    [k \in UNION {NewKeys(t, IndexFor(t, want, append)) :
                    t \in Rewritten(want, changed, append)} |->
        IF k.kind = "index" THEN IndexFor(k.thread, want, append)
        ELSE IndexFor(k.thread, want, append)[k.pos].records]

\* Mutant: the keys the new index still uses are not kept out of the sweep.
MutSweepReusedChunks(want, changed, append) ==
    UNION {KeysOf(t, Manifest[t], PrevIndex(t)) : t \in Replaced(want, changed)}

\* Mutant: the sweep is for the index two revisions back, also when there is none.
MutSweepOlder(want, changed, append) ==
    UNION {KeysOf(t, Manifest[t] - 2, <<>>) : t \in Replaced(want, changed)}

Stale(want, changed, append) ==
    (UNION {KeysOf(t, Manifest[t], PrevIndex(t)) : t \in Replaced(want, changed)})
    \ (UNION {KeysOf(t, NextManifest(want, changed, append)[t],
                     IndexFor(t, want, append)) : t \in Touched(want, changed)})

\* saveAllThreads up to its first write.  Reads of the manifest and of
\* committed indexes come first and are taken together; a missing index fails
\* the call before it writes anything.  A client saves only after it has
\* loaded, so over a half-cleared database there is a save only where a load
\* still succeeds.  A save with nothing to change returns without a write.
BeginSave(s, want, changed, append) ==
    LET refused == Refused(want, changed, append)
        next == NextManifest(want, changed, append)
    IN  /\ MayEnter(s)
        /\ torn => Readable
        /\ \A t \in Replaced(want, changed) : IndexKey(t, Manifest[t]) \in DOMAIN disk
        /\ HonestCallers =>
            \A t \in Present(want) : Manifest[t] # 0 =>
                Truthful(PrevIndex(t), want[t], t \in changed, t \in append)
        /\ next # Manifest \/ refused # {}
        /\ \A t \in Threads : next[t] <= MaxRevision
        /\ op' = [op EXCEPT ![s] =
             [phase |-> "writing",
              want  |-> want,
              puts  |-> Puts(want, changed, append),
              next  |-> IF refused = {} THEN next ELSE Nothing,
              stale |-> Stale(want, changed, append)]]
        /\ UNCHANGED <<disk, torn>>

\* Threads in order; in a thread the chunks in order, then the index.
Precedes(k, l) ==
    \/ k.thread < l.thread
    \/ k.thread = l.thread /\ k.kind = "chunk" /\ (l.kind = "index" \/ k.pos < l.pos)

\* databaseSet of one chunk (writeChunk) or of one index (writeThread).
WriteOne(s) ==
    /\ op[s].phase = "writing"
    /\ \E k \in DOMAIN op[s].puts :
        /\ \A l \in DOMAIN op[s].puts \ {k} : Precedes(k, l)
        /\ disk' = [x \in DOMAIN disk \union {k} |->
                        IF x = k THEN op[s].puts[k] ELSE disk[x]]
        /\ op' = [op EXCEPT ![s].puts =
                        [x \in DOMAIN op[s].puts \ {k} |-> op[s].puts[x]]]
    /\ UNCHANGED torn

\* Mutant: the manifest is written before the chunks and indexes are.
MutCommitEarly(s) ==
    /\ op[s].phase = "writing"
    /\ op[s].next # Nothing
    /\ disk' = [x \in DOMAIN disk \union {ManifestKey} |->
                    IF x = ManifestKey THEN op[s].next ELSE disk[x]]
    /\ op' = [op EXCEPT ![s].next = Nothing]
    /\ UNCHANGED torn

\* databaseSet of the manifest: the commit.
CommitManifest(s) ==
    /\ op[s].phase = "writing"
    /\ DOMAIN op[s].puts = {}
    /\ op[s].next # Nothing
    /\ disk' = [x \in DOMAIN disk \union {ManifestKey} |->
                    IF x = ManifestKey THEN op[s].next ELSE disk[x]]
    /\ op' = [op EXCEPT ![s] = [Idle EXCEPT !.phase = "sweeping", !.stale = op[s].stale]]
    /\ UNCHANGED torn

\* Mutant: the sweep that follows a load looks for orphaned indexes only.
MutSweepIndexesOnly(s) ==
    /\ MayEnter(s)
    /\ Readable
    /\ op' = [op EXCEPT ![s] = [Idle EXCEPT
                !.phase = "cleaning",
                !.stale = {k \in DOMAIN disk \ LiveKeys : k.kind = "index"}]]
    /\ UNCHANGED <<disk, torn>>

\* loadAllThreads: every committed thread is read and verified (a missing or
\* different part fails the call), then cleanupOrphans lists the database.
BeginLoad(s) ==
    /\ MayEnter(s)
    /\ Readable
    /\ op' = [op EXCEPT ![s] = [Idle EXCEPT
                !.phase = "cleaning",
                !.stale = DOMAIN disk \ (LiveKeys \union {ManifestKey})]]
    /\ UNCHANGED <<disk, torn>>

\* clear: lists every key of the scope, the manifest among them.
BeginClear(s) ==
    /\ MayEnter(s)
    /\ op' = [op EXCEPT ![s] = [Idle EXCEPT !.phase = "clearing", !.stale = DOMAIN disk]]
    /\ torn' = TRUE
    /\ UNCHANGED disk

\* databaseRemove of one key on the list of a save, a load or a clear.
RemoveOne(s) ==
    /\ op[s].phase \in {"sweeping", "cleaning", "clearing"}
    /\ \E k \in op[s].stale :
        /\ disk' = [x \in DOMAIN disk \ {k} |-> disk[x]]
        /\ op' = [op EXCEPT ![s].stale = op[s].stale \ {k}]
    /\ UNCHANGED torn

Finish(s) ==
    /\ op[s].phase \in {"sweeping", "cleaning", "clearing"}
    /\ op[s].stale = {}
    /\ op' = [op EXCEPT ![s] = Idle]
    /\ torn' = (torn /\ op[s].phase # "clearing")
    /\ UNCHANGED disk

\* A database call is rejected, an append-only check throws, or the process
\* or tab dies: the operation ends where it is and nothing undoes its steps.
Abort(s) ==
    /\ op[s].phase # "idle"
    /\ op' = [op EXCEPT ![s] = Idle]
    /\ UNCHANGED <<disk, torn>>

Next ==
    \E s \in Stores :
        \/ \E want \in [Threads -> Contents \union {Absent}] :
            \E changed \in SUBSET {t \in Threads : want[t] # Absent} :
                \E append \in SUBSET changed : BeginSave(s, want, changed, append)
        \/ WriteOne(s)
        \/ CommitManifest(s)
        \/ BeginLoad(s)
        \/ BeginClear(s)
        \/ RemoveOne(s)
        \/ Finish(s)
        \/ Abort(s)

Spec == Init /\ [][Next]_vars
-----------------------------------------------------------------------------
Phases == {"idle", "writing", "sweeping", "cleaning", "clearing"}

OperationOK(o) ==
    /\ DOMAIN o = {"phase", "want", "puts", "next", "stale"}
    /\ o.phase \in Phases
    /\ o.next \in [Threads -> Nat] \union {Nothing}
    /\ o.stale \subseteq Key
    /\ DOMAIN o.puts \subseteq Key
    /\ \A k \in DOMAIN o.puts : o.puts[k] \in ValueOf(k)

\* Every key present has a value of its kind, and a running operation holds
\* only writes and removals of well-formed keys.
TypeOK ==
    /\ DOMAIN disk \subseteq Key
    /\ \A k \in DOMAIN disk : disk[k] \in ValueOf(k)
    /\ DOMAIN op = Stores
    /\ \A s \in Stores : OperationOK(op[s])
    /\ torn \in BOOLEAN

\* Whatever was interrupted, every thread the committed manifest names can
\* still be read back whole (loadAllThreads never fails on its own writes),
\* unless a clear was begun and not completed.
CommittedReadable == torn \/ Readable

\* The database once the writes p are made.
After(d, p) ==
    [k \in DOMAIN d \union DOMAIN p |-> IF k \in DOMAIN p THEN p[k] ELSE d[k]]

\* No committed chunk was written at a later revision than its index.
RevisionsIn(d, m, t) ==
    m[t] # 0 => \A i \in DOMAIN d[IndexKey(t, m[t])] : d[IndexKey(t, m[t])][i].rev <= m[t]

Sound(d, m) == \A t \in Threads : ReadableIn(d, m, t) /\ RevisionsIn(d, m, t)

\* Operations do not overlap.
OneAtATime ==
    \A r, s \in Stores : op[r].phase # "idle" /\ op[s].phase # "idle" => r = s

\* A save writes only beside what is committed; its manifest is readable once
\* its writes are made, and what it will remove is not part of that.
WritingSafe(s) ==
    op[s].phase = "writing" =>
        /\ DOMAIN op[s].puts \intersect (LiveKeys \union {ManifestKey}) = {}
        /\ op[s].next # Nothing =>
            LET d == After(disk, op[s].puts)
            IN  /\ Sound(d, op[s].next)
                /\ \A t \in Threads : op[s].stale \intersect KeysIn(d, op[s].next, t) = {}
                /\ ManifestKey \notin op[s].stale

\* What is being removed is not part of what is committed.
SweepingSafe(s) ==
    op[s].phase \in {"sweeping", "cleaning"} =>
        op[s].stale \intersect (LiveKeys \union {ManifestKey}) = {}

ClearingSafe(s) ==
    op[s].phase = "clearing" => torn /\ DOMAIN disk \subseteq op[s].stale

\* The inductive invariant behind CommittedReadable, under the lock.
StoreInv ==
    /\ TypeOK
    /\ OneAtATime
    /\ ~torn => Sound(disk, Manifest)
    /\ \A s \in Stores : ~torn => WritingSafe(s) /\ SweepingSafe(s)
    /\ \A s \in Stores : ClearingSafe(s)

\* A completed load leaves nothing behind but the manifest and what it
\* reaches: what interrupted saves and sweeps left is gone.
LoadSweepsOrphans ==
    \A s \in Stores : op[s].phase = "cleaning" /\ op[s].stale = {} =>
        DOMAIN disk \subseteq LiveKeys \union {ManifestKey}

\* The projection a load would return, chunk by chunk.
Stored(t) ==
    IF Manifest[t] = 0 THEN Absent
    ELSE LET idx == disk[IndexKey(t, Manifest[t])]
         IN [i \in DOMAIN idx |-> disk[ChunkKey(t, idx[i].rev, i)]]

Wanted(want) ==
    IF want = Nothing THEN Nothing
    ELSE [t \in Threads |-> IF want[t] = Absent THEN Absent ELSE Chunked(want[t])]

Atomic == INSTANCE AtomicMessageStore WITH
    Values  <- {Chunked(s) : s \in Contents},
    content <- IF torn THEN Torn ELSE [t \in Threads |-> Stored(t)],
    asked   <- [s \in Stores |-> Wanted(op[s].want)]

\* With truthful hints the store implements the atomic store: a save commits
\* exactly the projection it was given, all threads at once, or nothing.
ImplementsAtomic == Atomic!Spec
=============================================================================
