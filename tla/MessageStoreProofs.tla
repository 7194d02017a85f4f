------------------------ MODULE MessageStoreProofs ------------------------
(***************************************************************************)
(* Proofs about MessageStore, for any stores, threads, contents, chunk     *)
(* size and revision bound.                                                *)
(***************************************************************************)
EXTENDS MessageStore, TLAPS

-----------------------------------------------------------------------------
(* Operators.                                                              *)

\* The chunks of a record sequence are record sequences.
LEMMA ChunkedType ==
    ASSUME NEW s \in Seq(Records)
    PROVE  Chunked(s) \in Seq(Seq(Records))
<1> DEFINE n == (Len(s) + ChunkSize - 1) \div ChunkSize
<1>1. Len(s) \in Nat /\ ChunkSize \in Nat /\ ChunkSize > 0
  BY ChunkSizeAssumption
<1>2. n \in Nat
  BY <1>1
<1>3. ASSUME NEW i \in 1 .. n
      PROVE  Chunked(s)[i] \in Seq(Records)
  <2>1. (i - 1) * ChunkSize + 1 \in Int /\ (i - 1) * ChunkSize + 1 >= 1
    BY <1>1, <1>2
  <2> QED
    BY <2>1, <1>1, <1>2 DEF Chunked
<1>4. Chunked(s) \in [1 .. n -> Seq(Records)]
  BY <1>3 DEF Chunked
<1> QED
  BY <1>2, <1>4

\* An index of the next revision is made of chunk descriptors: those of the
\* committed index, in place, and new ones.
LEMMA NextIndexParts ==
    ASSUME NEW p \in Seq(ChunkDescriptor), NEW r \in Nat,
           NEW s \in Seq(Records), NEW append \in BOOLEAN
    PROVE  /\ NextIndex(p, r, s, append) \in Seq(ChunkDescriptor)
           /\ \A i \in DOMAIN NextIndex(p, r, s, append) :
                \/ i \in DOMAIN p /\ NextIndex(p, r, s, append)[i] = p[i]
                \/ NextIndex(p, r, s, append)[i].rev = r + 1
<1> DEFINE n == Len(Chunked(s))
           x == NextIndex(p, r, s, append)
<1>1. Chunked(s) \in Seq(Seq(Records)) /\ n \in Nat /\ DOMAIN Chunked(s) = 1 .. n
  BY ChunkedType
<1>2. \A i \in 1 .. n :
        NewChunk(r, s, i) \in ChunkDescriptor /\ NewChunk(r, s, i).rev = r + 1
  BY <1>1 DEF NewChunk, ChunkDescriptor
<1>3. Len(p) \in Nat /\ DOMAIN p = 1 .. Len(p) /\ \A i \in 1 .. Len(p) : p[i] \in ChunkDescriptor
  OBVIOUS
<1>4. \A i \in 1 .. n : i <= FullChunks(p) => i \in DOMAIN p
  BY <1>1, <1>3 DEF FullChunks
<1> HIDE DEF n
<1>5. CASE x = p
  BY <1>5, <1>3
<1>6. CASE x # p
  <2>1. CASE append /\ r # 0
    <3>1. x = [i \in 1 .. n |-> IF i <= FullChunks(p) THEN p[i] ELSE NewChunk(r, s, i)]
      BY <1>1, <1>6, <2>1 DEF NextIndex
    <3>2. x \in [1 .. n -> ChunkDescriptor]
      BY <3>1, <1>2, <1>3, <1>4
    <3>3. x \in Seq(ChunkDescriptor)
      BY <3>2, <1>1
    <3> QED
      BY <3>1, <3>3, <1>2, <1>4
  <2>2. CASE ~(append /\ r # 0)
    <3>1. x = [i \in 1 .. n |-> IF i \in DOMAIN p /\ p[i].records = Chunked(s)[i]
                                THEN p[i] ELSE NewChunk(r, s, i)]
      BY <1>1, <2>2 DEF NextIndex
    <3>2. x \in [1 .. n -> ChunkDescriptor]
      BY <3>1, <1>2, <1>3
    <3>3. x \in Seq(ChunkDescriptor)
      BY <3>2, <1>1
    <3> QED
      BY <3>1, <3>3, <1>2
  <2> QED
    BY <2>1, <2>2
<1> QED
  BY <1>5, <1>6
-----------------------------------------------------------------------------
(* Type correctness.                                                       *)

\* The committed manifest and indexes have their types.
LEMMA CommittedType ==
    ASSUME TypeOK
    PROVE  /\ Manifest \in [Threads -> Nat]
           /\ \A t \in Threads :
                IndexKey(t, Manifest[t]) \in DOMAIN disk \/ Manifest[t] = 0 =>
                    PrevIndex(t) \in Seq(ChunkDescriptor)
<1>1. Manifest \in [Threads -> Nat]
  <2>1. CASE ManifestKey \in DOMAIN disk
    <3>1. ManifestKey.kind = "manifest"
      BY DEF ManifestKey
    <3> QED
      BY <2>1, <3>1 DEF TypeOK, ValueOf, Manifest
  <2>2. CASE ManifestKey \notin DOMAIN disk
    BY <2>2 DEF Manifest, NoThreads
  <2> QED
    BY <2>1, <2>2
<1>2. ASSUME NEW t \in Threads,
             IndexKey(t, Manifest[t]) \in DOMAIN disk \/ Manifest[t] = 0
      PROVE  PrevIndex(t) \in Seq(ChunkDescriptor)
  <2>1. CASE Manifest[t] = 0
    BY <2>1 DEF PrevIndex
  <2>2. CASE Manifest[t] # 0
    <3>1. IndexKey(t, Manifest[t]).kind = "index"
      BY DEF IndexKey
    <3> QED
      BY <1>2, <2>2, <3>1 DEF TypeOK, ValueOf, PrevIndex
  <2> QED
    BY <2>1, <2>2
<1> QED
  BY <1>1, <1>2

\* Everything a save settles before its first write is of the right kind.
LEMMA SaveType ==
    ASSUME TypeOK,
           NEW s \in Stores,
           NEW want \in [Threads -> Contents \union {Absent}],
           NEW changed \in SUBSET {t \in Threads : want[t] # Absent},
           NEW append \in SUBSET changed,
           BeginSave(s, want, changed, append)
    PROVE  /\ \A t \in Touched(want, changed) :
                /\ t \in Threads /\ want[t] \in Seq(Records)
                /\ Manifest[t] \in Nat
                /\ PrevIndex(t) \in Seq(ChunkDescriptor)
                /\ IndexFor(t, want, append) \in Seq(ChunkDescriptor)
                /\ \A i \in DOMAIN IndexFor(t, want, append) :
                    \/ /\ i \in DOMAIN PrevIndex(t)
                       /\ IndexFor(t, want, append)[i] = PrevIndex(t)[i]
                    \/ IndexFor(t, want, append)[i].rev = Manifest[t] + 1
           /\ NextManifest(want, changed, append) \in [Threads -> Nat]
           /\ DOMAIN Puts(want, changed, append) \subseteq Key
           /\ \A k \in DOMAIN Puts(want, changed, append) :
                Puts(want, changed, append)[k] \in ValueOf(k)
           /\ Stale(want, changed, append) \subseteq Key
<1>1. Manifest \in [Threads -> Nat]
  BY CommittedType
<1>2. \A t \in Replaced(want, changed) : IndexKey(t, Manifest[t]) \in DOMAIN disk
  BY DEF BeginSave
<1>3. ASSUME NEW t \in Touched(want, changed)
      PROVE  /\ t \in Threads /\ want[t] \in Seq(Records)
             /\ Manifest[t] \in Nat
             /\ PrevIndex(t) \in Seq(ChunkDescriptor)
  <2>1. t \in Threads /\ want[t] \in Contents
    BY DEF Touched, Present
  <2>2. Manifest[t] = 0 \/ t \in Replaced(want, changed)
    BY <2>1 DEF Replaced
  <2> QED
    BY <1>1, <1>2, <2>1, <2>2, CommittedType, ContentsAssumption
<1>4. ASSUME NEW t \in Touched(want, changed)
      PROVE  /\ IndexFor(t, want, append) \in Seq(ChunkDescriptor)
             /\ \A i \in DOMAIN IndexFor(t, want, append) :
                    \/ /\ i \in DOMAIN PrevIndex(t)
                       /\ IndexFor(t, want, append)[i] = PrevIndex(t)[i]
                    \/ IndexFor(t, want, append)[i].rev = Manifest[t] + 1
  <2> DEFINE x(b) == NextIndex(PrevIndex(t), Manifest[t], want[t], b)
  <2>1. ASSUME NEW b \in BOOLEAN
        PROVE  /\ x(b) \in Seq(ChunkDescriptor)
               /\ \A i \in DOMAIN x(b) :
                    \/ i \in DOMAIN PrevIndex(t) /\ x(b)[i] = PrevIndex(t)[i]
                    \/ x(b)[i].rev = Manifest[t] + 1
    BY <1>3, NextIndexParts
  <2>2. IndexFor(t, want, append) = x(TRUE) \/ IndexFor(t, want, append) = x(FALSE)
    BY DEF IndexFor, NextIndex
  <2> HIDE DEF x
  <2> QED
    BY <2>1, <2>2
<1>5. NextManifest(want, changed, append) \in [Threads -> Nat]
  BY <1>1 DEF NextManifest
<1>6. ASSUME NEW k \in DOMAIN Puts(want, changed, append)
      PROVE  k \in Key /\ Puts(want, changed, append)[k] \in ValueOf(k)
  <2>1. PICK t \in Rewritten(want, changed, append) :
            k \in NewKeys(t, IndexFor(t, want, append))
    BY DEF Puts
  <2>2. t \in Touched(want, changed) /\ t \in Nat /\ Manifest[t] + 1 \in Nat
    <3>1. t \in Touched(want, changed)
      BY DEF Rewritten
    <3>2. t \in Threads
      BY <3>1, <1>3
    <3>3. Manifest[t] \in Nat
      BY <1>1, <3>2
    <3> QED
      BY <3>1, <3>2, <3>3, ThreadsAssumption
  <2>3. Puts(want, changed, append)[k] =
            IF k.kind = "index" THEN IndexFor(k.thread, want, append)
            ELSE IndexFor(k.thread, want, append)[k.pos].records
    BY DEF Puts
  <2>4. CASE k = IndexKey(t, Manifest[t] + 1)
    <3>1. k.kind = "index" /\ k.thread = t /\ k \in Key
      BY <2>4, <2>2 DEF IndexKey, Key
    <3> QED
      BY <3>1, <2>3, <2>2, <1>4 DEF ValueOf
  <2>5. CASE \E i \in DOMAIN IndexFor(t, want, append) : k = ChunkKey(t, Manifest[t] + 1, i)
    <3>1. PICK i \in DOMAIN IndexFor(t, want, append) : k = ChunkKey(t, Manifest[t] + 1, i)
      BY <2>5
    <3>2. i \in Nat /\ IndexFor(t, want, append)[i] \in ChunkDescriptor
      BY <2>2, <1>4
    <3>3. k.kind = "chunk" /\ k.thread = t /\ k.pos = i /\ k \in Key
      BY <3>1, <3>2, <2>2 DEF ChunkKey, Key
    <3>4. IndexFor(t, want, append)[i].records \in Seq(Records)
      BY <3>2 DEF ChunkDescriptor
    <3> QED
      BY <3>3, <3>4, <2>3 DEF ValueOf
  <2> QED
    BY <2>1, <2>4, <2>5 DEF NewKeys
<1>7. Stale(want, changed, append) \subseteq Key
  <2>1. ASSUME NEW t \in Replaced(want, changed)
        PROVE  KeysOf(t, Manifest[t], PrevIndex(t)) \subseteq Key
    <3>1. t \in Threads /\ t \in Nat /\ Manifest[t] \in Nat
      BY <1>1, ThreadsAssumption DEF Replaced
    <3>2. PrevIndex(t) \in Seq(ChunkDescriptor)
      BY <3>1, <1>2, CommittedType
    <3>3. \A i \in DOMAIN PrevIndex(t) : i \in Nat /\ PrevIndex(t)[i].rev \in Nat
      <4>1. \A i \in DOMAIN PrevIndex(t) : i \in Nat /\ PrevIndex(t)[i] \in ChunkDescriptor
        BY <3>2
      <4> QED
        BY <4>1 DEF ChunkDescriptor
    <3> QED
      BY <3>1, <3>3 DEF KeysOf, IndexKey, ChunkKey, Key
  <2> QED
    BY <2>1 DEF Stale
<1> QED
  BY <1>3, <1>4, <1>5, <1>6, <1>7

LEMMA IdleOK == OperationOK(Idle)
  BY DEF OperationOK, Idle, Phases, Empty

\* Every step of a store keeps the types.
LEMMA TypeStep == TypeOK /\ [Next]_vars => TypeOK'
<1> SUFFICES ASSUME TypeOK, [Next]_vars
             PROVE  TypeOK'
  OBVIOUS
<1> USE DEF TypeOK
<1>1. ASSUME NEW s \in Stores,
             NEW want \in [Threads -> Contents \union {Absent}],
             NEW changed \in SUBSET {t \in Threads : want[t] # Absent},
             NEW append \in SUBSET changed,
             BeginSave(s, want, changed, append)
      PROVE  TypeOK'
  <2> DEFINE o == [phase |-> "writing",
                   want  |-> want,
                   puts  |-> Puts(want, changed, append),
                   next  |-> IF Refused(want, changed, append) = {}
                             THEN NextManifest(want, changed, append) ELSE Nothing,
                   stale |-> Stale(want, changed, append)]
  <2>1. /\ NextManifest(want, changed, append) \in [Threads -> Nat]
        /\ DOMAIN Puts(want, changed, append) \subseteq Key
        /\ \A k \in DOMAIN Puts(want, changed, append) :
             Puts(want, changed, append)[k] \in ValueOf(k)
        /\ Stale(want, changed, append) \subseteq Key
    BY <1>1, SaveType
  <2>2. OperationOK(o)
    BY <2>1 DEF OperationOK, Phases
  <2>3. op' = [op EXCEPT ![s] = o] /\ UNCHANGED <<disk, torn>>
    BY <1>1 DEF BeginSave
  <2> HIDE DEF o
  <2> QED
    BY <2>2, <2>3
<1>2. ASSUME NEW s \in Stores, WriteOne(s)
      PROVE  TypeOK'
  <2>1. PICK k \in DOMAIN op[s].puts :
            /\ disk' = [x \in DOMAIN disk \union {k} |->
                            IF x = k THEN op[s].puts[k] ELSE disk[x]]
            /\ op' = [op EXCEPT ![s].puts =
                            [x \in DOMAIN op[s].puts \ {k} |-> op[s].puts[x]]]
    BY <1>2 DEF WriteOne
  <2>2. torn' = torn
    BY <1>2 DEF WriteOne
  <2>3. k \in Key /\ op[s].puts[k] \in ValueOf(k)
    BY DEF OperationOK
  <2>4. \A x \in DOMAIN disk' : x \in Key /\ disk'[x] \in ValueOf(x)
    BY <2>1, <2>3
  <2>5. OperationOK(op'[s])
    BY <2>1 DEF OperationOK
  <2> QED
    BY <2>1, <2>2, <2>4, <2>5 DEF ValueOf
<1>3. ASSUME NEW s \in Stores, CommitManifest(s)
      PROVE  TypeOK'
  <2>1. op[s].next \in [Threads -> Nat]
    BY <1>3 DEF CommitManifest, OperationOK
  <2>2. ManifestKey \in Key /\ ValueOf(ManifestKey) = [Threads -> Nat]
    BY DEF ManifestKey, Key, ValueOf
  <2>3. \A x \in DOMAIN disk' : x \in Key /\ disk'[x] \in ValueOf(x)
    BY <1>3, <2>1, <2>2 DEF CommitManifest
  <2>4. OperationOK([Idle EXCEPT !.phase = "sweeping", !.stale = op[s].stale])
    BY IdleOK DEF OperationOK, Idle, Phases
  <2> QED
    BY <1>3, <2>3, <2>4 DEF CommitManifest, ValueOf
<1>4. ASSUME NEW s \in Stores, BeginLoad(s)
      PROVE  TypeOK'
  <2>1. OperationOK([Idle EXCEPT !.phase = "cleaning",
                        !.stale = DOMAIN disk \ (LiveKeys \union {ManifestKey})])
    BY IdleOK DEF OperationOK, Idle, Phases
  <2> QED
    BY <1>4, <2>1 DEF BeginLoad
<1>5. ASSUME NEW s \in Stores, BeginClear(s)
      PROVE  TypeOK'
  <2>1. OperationOK([Idle EXCEPT !.phase = "clearing", !.stale = DOMAIN disk])
    BY IdleOK DEF OperationOK, Idle, Phases
  <2> QED
    BY <1>5, <2>1 DEF BeginClear
<1>6. ASSUME NEW s \in Stores, RemoveOne(s)
      PROVE  TypeOK'
  <2>1. PICK k \in op[s].stale :
            /\ disk' = [x \in DOMAIN disk \ {k} |-> disk[x]]
            /\ op' = [op EXCEPT ![s].stale = op[s].stale \ {k}]
    BY <1>6 DEF RemoveOne
  <2>2. OperationOK(op'[s])
    BY <2>1 DEF OperationOK
  <2> QED
    BY <1>6, <2>1, <2>2 DEF RemoveOne, ValueOf
<1>7. ASSUME NEW s \in Stores, Finish(s)
      PROVE  TypeOK'
  BY <1>7, IdleOK DEF Finish
<1>8. ASSUME NEW s \in Stores, Abort(s)
      PROVE  TypeOK'
  BY <1>8, IdleOK DEF Abort
<1>9. CASE UNCHANGED vars
  BY <1>9 DEF vars, ValueOf
<1> QED
  BY <1>1, <1>2, <1>3, <1>4, <1>5, <1>6, <1>7, <1>8, <1>9 DEF Next

\* The database holds values of the kind of their key, whatever the stores do
\* and whether or not they exclude each other.
THEOREM TypeCorrect == Spec => []TypeOK
<1>1. Init => TypeOK
  BY IdleOK DEF Init, TypeOK, Empty
<1> QED
  BY <1>1, TypeStep, PTL DEF Spec
-----------------------------------------------------------------------------
(* Committed content stays readable.                                       *)

\* The parts of a thread carry its identifier, and none is the manifest.
LEMMA KeysOfThread ==
    ASSUME NEW d, NEW m, NEW t, NEW k \in KeysIn(d, m, t)
    PROVE  k.thread = t /\ k.kind \in {"index", "chunk"} /\ k # ManifestKey
  BY DEF KeysIn, KeysOf, IndexKey, ChunkKey, ManifestKey

\* What a thread's readability rests on is what its keys hold.
LEMMA SameParts ==
    ASSUME NEW d, NEW e, NEW m, NEW t,
           ReadableIn(d, m, t), RevisionsIn(d, m, t),
           \A k \in KeysIn(d, m, t) : k \in DOMAIN d => k \in DOMAIN e /\ e[k] = d[k]
    PROVE  /\ ReadableIn(e, m, t)
           /\ RevisionsIn(e, m, t)
           /\ KeysIn(e, m, t) = KeysIn(d, m, t)
<1>1. CASE m[t] = 0
  BY <1>1 DEF ReadableIn, RevisionsIn, KeysIn
<1>2. CASE m[t] # 0
  <2> DEFINE idx == d[IndexKey(t, m[t])]
  <2>1. /\ IndexKey(t, m[t]) \in DOMAIN d
        /\ \A i \in DOMAIN idx : /\ ChunkKey(t, idx[i].rev, i) \in DOMAIN d
                                 /\ d[ChunkKey(t, idx[i].rev, i)] = idx[i].records
    BY <1>2 DEF ReadableIn
  <2>2. KeysIn(d, m, t) = {IndexKey(t, m[t])} \union {ChunkKey(t, idx[i].rev, i) : i \in DOMAIN idx}
    BY <1>2 DEF KeysIn, KeysOf
  <2>3. IndexKey(t, m[t]) \in DOMAIN e /\ e[IndexKey(t, m[t])] = idx
    BY <2>1, <2>2
  <2>4. \A i \in DOMAIN idx : /\ ChunkKey(t, idx[i].rev, i) \in DOMAIN e
                              /\ e[ChunkKey(t, idx[i].rev, i)] = idx[i].records
    BY <2>1, <2>2
  <2> QED
    BY <1>2, <2>3, <2>4 DEF ReadableIn, RevisionsIn, KeysIn
<1> QED
  BY <1>1, <1>2

\* Committed parts are no newer than the revision their thread is committed at.
LEMMA CommittedRevisions ==
    ASSUME TypeOK, Sound(disk, Manifest), NEW t \in Threads,
           NEW k \in KeysIn(disk, Manifest, t)
    PROVE  k.rev <= Manifest[t] /\ Manifest[t] \in Nat
<1>1. Manifest[t] \in Nat /\ Manifest[t] # 0
  BY CommittedType DEF KeysIn
<1>2. \A i \in DOMAIN disk[IndexKey(t, Manifest[t])] :
        disk[IndexKey(t, Manifest[t])][i].rev <= Manifest[t]
  BY <1>1 DEF Sound, RevisionsIn
<1> QED
  BY <1>1, <1>2 DEF KeysIn, KeysOf, IndexKey, ChunkKey

\* A save plans writes beside the committed parts; the database they lead to
\* holds every thread of the new manifest whole, and none of it is stale.
LEMMA SaveSafe ==
    ASSUME TypeOK, Sound(disk, Manifest),
           NEW s \in Stores,
           NEW want \in [Threads -> Contents \union {Absent}],
           NEW changed \in SUBSET {t \in Threads : want[t] # Absent},
           NEW append \in SUBSET changed,
           BeginSave(s, want, changed, append)
    PROVE  /\ DOMAIN Puts(want, changed, append) \intersect (LiveKeys \union {ManifestKey}) = {}
           /\ Refused(want, changed, append) = {} =>
                /\ Sound(After(disk, Puts(want, changed, append)), NextManifest(want, changed, append))
                /\ \A t \in Threads :
                     Stale(want, changed, append) \intersect
                        KeysIn(After(disk, Puts(want, changed, append)),
                               NextManifest(want, changed, append), t) = {}
                /\ ManifestKey \notin Stale(want, changed, append)
<1> DEFINE P == Puts(want, changed, append)
           N == NextManifest(want, changed, append)
           S == Stale(want, changed, append)
           d == After(disk, P)
           X(t) == IndexFor(t, want, append)
<1>1. Manifest \in [Threads -> Nat]
  BY CommittedType
<1>2. ASSUME NEW t \in Rewritten(want, changed, append)
      PROVE  t \in Touched(want, changed) /\ t \in Threads /\ Manifest[t] \in Nat
  <2>1. t \in Touched(want, changed)
    BY DEF Rewritten
  <2>2. t \in Threads
    BY <2>1, SaveType
  <2> QED
    BY <2>1, <2>2, <1>1
<1>3. ASSUME NEW k \in DOMAIN P
      PROVE  /\ k.thread \in Threads /\ k.rev = Manifest[k.thread] + 1
             /\ k # ManifestKey
  <2>1. PICK t \in Rewritten(want, changed, append) : k \in NewKeys(t, X(t))
    BY DEF Puts
  <2>2. k.thread = t /\ k.rev = Manifest[t] + 1 /\ k.kind # "manifest"
    BY <2>1 DEF NewKeys, IndexKey, ChunkKey
  <2> QED
    BY <2>1, <2>2, <1>2 DEF ManifestKey
<1>4. ASSUME NEW t \in Threads, NEW k \in KeysIn(disk, Manifest, t)
      PROVE  k \notin DOMAIN P
  <2>1. k.thread = t /\ k.rev <= Manifest[t] /\ Manifest[t] \in Nat
    BY KeysOfThread, CommittedRevisions
  <2> QED
    BY <2>1, <1>3, <1>1
<1>5. DOMAIN P \intersect (LiveKeys \union {ManifestKey}) = {}
  BY <1>3, <1>4 DEF LiveKeys
<1>6. ASSUME NEW t \in Threads, N[t] = Manifest[t]
      PROVE  /\ ReadableIn(d, N, t) /\ RevisionsIn(d, N, t)
             /\ KeysIn(d, N, t) = KeysIn(disk, Manifest, t)
  <2>1. ReadableIn(disk, Manifest, t) /\ RevisionsIn(disk, Manifest, t)
    BY DEF Sound
  <2>2. \A k \in KeysIn(disk, Manifest, t) :
            k \in DOMAIN disk => k \in DOMAIN d /\ d[k] = disk[k]
    BY <1>4 DEF After
  <2>3. /\ ReadableIn(d, Manifest, t) /\ RevisionsIn(d, Manifest, t)
        /\ KeysIn(d, Manifest, t) = KeysIn(disk, Manifest, t)
    BY <2>1, <2>2, SameParts
  <2> QED
    BY <2>3, <1>6 DEF ReadableIn, RevisionsIn, KeysIn
<1>7. ASSUME NEW t \in Rewritten(want, changed, append)
      PROVE  /\ ReadableIn(d, N, t) /\ RevisionsIn(d, N, t)
             /\ KeysIn(d, N, t) = KeysOf(t, N[t], X(t))
  <2>1. t \in Touched(want, changed) /\ t \in Threads /\ Manifest[t] \in Nat
    BY <1>2
  <2>2. N[t] = Manifest[t] + 1
    <3>1. t \in Present(want)
      BY <2>1 DEF Touched
    <3> QED
      BY <3>1, <2>1 DEF NextManifest
  <2>3. IndexKey(t, N[t]) \in DOMAIN P /\ P[IndexKey(t, N[t])] = X(t)
    <3>1. IndexKey(t, N[t]) \in NewKeys(t, X(t))
      BY <2>2 DEF NewKeys
    <3>2. IndexKey(t, N[t]).kind = "index" /\ IndexKey(t, N[t]).thread = t
      BY DEF IndexKey
    <3> QED
      BY <3>1, <3>2 DEF Puts
  <2>4. d[IndexKey(t, N[t])] = X(t) /\ IndexKey(t, N[t]) \in DOMAIN d
    BY <2>3 DEF After
  <2>5. ASSUME NEW i \in DOMAIN X(t)
        PROVE  /\ ChunkKey(t, X(t)[i].rev, i) \in DOMAIN d
               /\ d[ChunkKey(t, X(t)[i].rev, i)] = X(t)[i].records
               /\ X(t)[i].rev <= N[t]
    <3>1. CASE X(t)[i].rev = Manifest[t] + 1
      <4> DEFINE k == ChunkKey(t, Manifest[t] + 1, i)
      <4>1. k \in NewKeys(t, X(t))
        BY <3>1 DEF NewKeys
      <4>2. k.kind = "chunk" /\ k.thread = t /\ k.pos = i
        BY DEF ChunkKey
      <4>3. k \in DOMAIN P /\ P[k] = X(t)[i].records
        BY <4>1, <4>2 DEF Puts
      <4> QED
        BY <4>3, <3>1, <2>1, <2>2 DEF After
    <3>2. CASE X(t)[i].rev # Manifest[t] + 1
      <4>1. i \in DOMAIN PrevIndex(t) /\ X(t)[i] = PrevIndex(t)[i]
        BY <3>2, <2>1, SaveType
      <4>2. Manifest[t] # 0 /\ PrevIndex(t) = disk[IndexKey(t, Manifest[t])]
        BY <4>1 DEF PrevIndex
      <4> DEFINE k == ChunkKey(t, X(t)[i].rev, i)
      <4>3. /\ k \in DOMAIN disk /\ disk[k] = X(t)[i].records
            /\ X(t)[i].rev <= Manifest[t]
        BY <4>1, <4>2, <2>1 DEF Sound, ReadableIn, RevisionsIn
      <4>4. k \in KeysIn(disk, Manifest, t)
        BY <4>1, <4>2 DEF KeysIn, KeysOf
      <4>5. k \notin DOMAIN P
        BY <4>4, <2>1, <1>4
      <4>6. X(t)[i].rev \in Nat
        <5>1. X(t) \in Seq(ChunkDescriptor)
          BY <2>1, SaveType
        <5>2. X(t)[i] \in ChunkDescriptor
          BY <5>1
        <5> QED
          BY <5>2 DEF ChunkDescriptor
      <4> QED
        BY <4>3, <4>5, <4>6, <2>1, <2>2 DEF After
    <3> QED
      BY <3>1, <3>2
  <2>6. N[t] # 0
    BY <2>1, <2>2
  <2> QED
    BY <2>4, <2>5, <2>6 DEF ReadableIn, RevisionsIn, KeysIn
<1>8. ASSUME Refused(want, changed, append) = {}, NEW t \in Threads
      PROVE  /\ ReadableIn(d, N, t) /\ RevisionsIn(d, N, t)
             /\ S \intersect KeysIn(d, N, t) = {}
  <2>1. CASE t \notin Present(want)
    <3>1. N[t] = 0
      BY <2>1 DEF NextManifest
    <3> QED
      BY <3>1 DEF ReadableIn, RevisionsIn, KeysIn
  <2>2. CASE t \in Present(want) /\ t \notin Touched(want, changed)
    <3>1. t \notin Rewritten(want, changed, append)
      BY <2>2 DEF Rewritten
    <3>2. N[t] = Manifest[t]
      BY <2>2, <3>1 DEF NextManifest
    <3>3. ASSUME NEW k \in S
          PROVE  k.thread # t
      <4>1. PICK u \in Replaced(want, changed) : k \in KeysOf(u, Manifest[u], PrevIndex(u))
        BY DEF Stale
      <4>2. k.thread = u /\ u # t
        BY <4>1, <2>2 DEF KeysOf, IndexKey, ChunkKey, Replaced
      <4> QED
        BY <4>2
    <3> QED
      BY <3>2, <3>3, <1>6, KeysOfThread
  <2>3. CASE t \in Touched(want, changed) /\ t \notin Rewritten(want, changed, append)
    <3>1. Manifest[t] # 0 /\ X(t) = PrevIndex(t)
      BY <2>3, <1>8 DEF Rewritten
    <3>2. N[t] = Manifest[t]
      BY <2>3 DEF NextManifest, Touched
    <3>3. KeysIn(disk, Manifest, t) = KeysOf(t, N[t], X(t))
      BY <3>1, <3>2 DEF KeysIn, PrevIndex
    <3> QED
      BY <3>2, <3>3, <2>3, <1>6 DEF Stale
  <2>4. CASE t \in Rewritten(want, changed, append)
    BY <2>4, <1>2, <1>7 DEF Stale
  <2> QED
    BY <2>1, <2>2, <2>3, <2>4
<1>9. ManifestKey \notin S
  <2>1. \A t \in Replaced(want, changed) : ManifestKey \notin KeysOf(t, Manifest[t], PrevIndex(t))
    BY DEF KeysOf, IndexKey, ChunkKey, ManifestKey
  <2> QED
    BY <2>1 DEF Stale
<1> QED
  BY <1>5, <1>8, <1>9 DEF Sound

\* Changing only keys that are neither the manifest nor live changes nothing
\* of what is committed.
LEMMA SameCommitted ==
    ASSUME Sound(disk, Manifest),
           \A k \in LiveKeys \union {ManifestKey} :
             /\ k \in DOMAIN disk => k \in DOMAIN disk' /\ disk'[k] = disk[k]
             /\ k \in DOMAIN disk' => k \in DOMAIN disk
    PROVE  /\ Manifest' = Manifest
           /\ Sound(disk, Manifest)'
           /\ LiveKeys' = LiveKeys
<1>1. Manifest' = Manifest
  BY DEF Manifest
<1>2. ASSUME NEW t \in Threads
      PROVE  /\ ReadableIn(disk', Manifest, t) /\ RevisionsIn(disk', Manifest, t)
             /\ KeysIn(disk', Manifest, t) = KeysIn(disk, Manifest, t)
  <2>1. ReadableIn(disk, Manifest, t) /\ RevisionsIn(disk, Manifest, t)
    BY DEF Sound
  <2>2. \A k \in KeysIn(disk, Manifest, t) :
            k \in DOMAIN disk => k \in DOMAIN disk' /\ disk'[k] = disk[k]
    BY DEF LiveKeys
  <2> QED
    BY <2>1, <2>2, SameParts
<1>3. Sound(disk', Manifest')
  BY <1>1, <1>2 DEF Sound
<1>4. LiveKeys' = UNION {KeysIn(disk', Manifest', t) : t \in Threads}
  BY DEF LiveKeys
<1>5. LiveKeys' = UNION {KeysIn(disk, Manifest, t) : t \in Threads}
  BY <1>1, <1>2, <1>4
<1> QED
  BY <1>1, <1>3, <1>5 DEF LiveKeys

\* Under the lock, a store that is running an operation is alone.
LEMMA LockExcludes ==
    ASSUME TypeOK, Exclusive, NEW s \in Stores, MayEnter(s), NEW o,
           op' = [op EXCEPT ![s] = o]
    PROVE  /\ op'[s] = o
           /\ \A r \in Stores : r # s => op'[r].phase = "idle"
           /\ OneAtATime'
<1>1. \A r \in Stores : op[r].phase = "idle"
  BY DEF MayEnter, Idle
<1> QED
  BY <1>1 DEF TypeOK, OneAtATime

\* A step of a running store leaves the others idle.
LEMMA OthersIdle ==
    ASSUME TypeOK, OneAtATime, NEW s \in Stores, op[s].phase # "idle", NEW o,
           op' = [op EXCEPT ![s] = o]
    PROVE  /\ op'[s] = o
           /\ \A r \in Stores : r # s => op'[r].phase = "idle"
           /\ OneAtATime'
<1>1. \A r \in Stores : r # s => op[r].phase = "idle"
  BY DEF OneAtATime
<1> QED
  BY <1>1 DEF TypeOK, OneAtATime

\* Every step of a store keeps the invariant, where the lock excludes others.
LEMMA StoreStep == Exclusive /\ StoreInv /\ [Next]_vars => StoreInv'
<1> SUFFICES ASSUME Exclusive, StoreInv, [Next]_vars
             PROVE  StoreInv'
  OBVIOUS
<1>0. TypeOK /\ OneAtATime /\ TypeOK'
  BY TypeStep DEF StoreInv
<1>1. ASSUME NEW s \in Stores,
             NEW want \in [Threads -> Contents \union {Absent}],
             NEW changed \in SUBSET {t \in Threads : want[t] # Absent},
             NEW append \in SUBSET changed,
             BeginSave(s, want, changed, append)
      PROVE  StoreInv'
  <2> DEFINE o == [phase |-> "writing",
                   want  |-> want,
                   puts  |-> Puts(want, changed, append),
                   next  |-> IF Refused(want, changed, append) = {}
                             THEN NextManifest(want, changed, append) ELSE Nothing,
                   stale |-> Stale(want, changed, append)]
  <2>1. MayEnter(s) /\ op' = [op EXCEPT ![s] = o] /\ disk' = disk /\ torn' = torn
    BY <1>1 DEF BeginSave
  <2>2. /\ o.phase = "writing"
        /\ o.puts = Puts(want, changed, append)
        /\ o.next # Nothing => /\ Refused(want, changed, append) = {}
                               /\ o.next = NextManifest(want, changed, append)
        /\ o.stale = Stale(want, changed, append)
    OBVIOUS
  <2> HIDE DEF o
  <2>3. /\ op'[s] = o
        /\ \A r \in Stores : r # s => op'[r].phase = "idle"
        /\ OneAtATime'
    BY <1>0, <2>1, LockExcludes
  <2>4. Manifest' = Manifest /\ LiveKeys' = LiveKeys
    BY <2>1 DEF Manifest, LiveKeys
  <2>5. ~torn' => Sound(disk', Manifest')
    BY <2>1, <2>4 DEF StoreInv
  <2>6. ASSUME ~torn'
        PROVE  WritingSafe(s)'
    <3>1. Sound(disk, Manifest)
      BY <2>1, <2>6 DEF StoreInv
    <3>2. /\ DOMAIN o.puts \intersect (LiveKeys \union {ManifestKey}) = {}
          /\ o.next # Nothing =>
                /\ Sound(After(disk, o.puts), o.next)
                /\ \A t \in Threads : o.stale \intersect KeysIn(After(disk, o.puts), o.next, t) = {}
                /\ ManifestKey \notin o.stale
      BY <1>0, <1>1, <2>2, <3>1, SaveSafe
    <3> QED
      BY <2>1, <2>3, <2>4, <3>2 DEF WritingSafe
  <2>7. \A r \in Stores : /\ ~torn' => WritingSafe(r)' /\ SweepingSafe(r)'
                          /\ ClearingSafe(r)'
    BY <2>2, <2>3, <2>6 DEF WritingSafe, SweepingSafe, ClearingSafe
  <2> QED
    BY <1>0, <2>3, <2>5, <2>7 DEF StoreInv
<1>2. ASSUME NEW s \in Stores, WriteOne(s)
      PROVE  StoreInv'
  <2>1. PICK k \in DOMAIN op[s].puts :
            /\ disk' = [x \in DOMAIN disk \union {k} |->
                            IF x = k THEN op[s].puts[k] ELSE disk[x]]
            /\ op' = [op EXCEPT ![s].puts =
                            [x \in DOMAIN op[s].puts \ {k} |-> op[s].puts[x]]]
    BY <1>2 DEF WriteOne
  <2> DEFINE o == [op[s] EXCEPT !.puts = [x \in DOMAIN op[s].puts \ {k} |-> op[s].puts[x]]]
  <2>2. /\ o.phase = "writing" /\ op[s].phase = "writing"
        /\ o.puts = [x \in DOMAIN op[s].puts \ {k} |-> op[s].puts[x]]
        /\ o.next = op[s].next /\ o.stale = op[s].stale
    BY <1>0, <1>2 DEF WriteOne, TypeOK, OperationOK
  <2>3. op' = [op EXCEPT ![s] = o] /\ torn' = torn
    BY <1>2, <2>1 DEF WriteOne
  <2> HIDE DEF o
  <2>4. /\ op'[s] = o
        /\ \A r \in Stores : r # s => op'[r].phase = "idle"
        /\ OneAtATime'
    BY <1>0, <2>2, <2>3, OthersIdle
  <2>5. CASE torn
    BY <1>0, <2>2, <2>3, <2>4, <2>5 DEF StoreInv, ClearingSafe
  <2>6. CASE ~torn
    <3>1. Sound(disk, Manifest) /\ WritingSafe(s)
      BY <2>6 DEF StoreInv
    <3>2. k \notin LiveKeys \union {ManifestKey}
      BY <2>2, <3>1 DEF WritingSafe
    <3>3. Manifest' = Manifest /\ Sound(disk, Manifest)' /\ LiveKeys' = LiveKeys
      BY <2>1, <3>1, <3>2, SameCommitted
    <3>4. After(disk', o.puts) = After(disk, op[s].puts)
      BY <2>1, <2>2 DEF After
    <3>5. WritingSafe(s)'
      BY <2>2, <2>4, <3>1, <3>3, <3>4 DEF WritingSafe
    <3>6. \A r \in Stores : /\ ~torn' => WritingSafe(r)' /\ SweepingSafe(r)'
                            /\ ClearingSafe(r)'
      BY <2>2, <2>4, <3>5 DEF WritingSafe, SweepingSafe, ClearingSafe
    <3> QED
      BY <1>0, <2>4, <3>3, <3>6 DEF StoreInv
  <2> QED
    BY <2>5, <2>6
<1>3. ASSUME NEW s \in Stores, CommitManifest(s)
      PROVE  StoreInv'
  <2> DEFINE o == [Idle EXCEPT !.phase = "sweeping", !.stale = op[s].stale]
  <2>1. /\ op[s].phase = "writing" /\ DOMAIN op[s].puts = {} /\ op[s].next # Nothing
        /\ disk' = [x \in DOMAIN disk \union {ManifestKey} |->
                        IF x = ManifestKey THEN op[s].next ELSE disk[x]]
        /\ op' = [op EXCEPT ![s] = o]
        /\ torn' = torn
    BY <1>3 DEF CommitManifest
  <2>2. o.phase = "sweeping" /\ o.stale = op[s].stale
    BY DEF Idle
  <2> HIDE DEF o
  <2>3. /\ op'[s] = o
        /\ \A r \in Stores : r # s => op'[r].phase = "idle"
        /\ OneAtATime'
    BY <1>0, <2>1, OthersIdle
  <2>4. CASE torn
    BY <1>0, <2>1, <2>2, <2>3, <2>4 DEF StoreInv, ClearingSafe
  <2>5. CASE ~torn
    <3> DEFINE m == op[s].next
               d == After(disk, op[s].puts)
    <3>1. Sound(d, m) /\ (\A t \in Threads : op[s].stale \intersect KeysIn(d, m, t) = {})
                      /\ ManifestKey \notin op[s].stale
      BY <2>1, <2>5 DEF StoreInv, WritingSafe
    <3>2. Manifest' = m
      BY <2>1 DEF Manifest
    <3>3. ASSUME NEW t \in Threads
          PROVE  /\ ReadableIn(disk', m, t) /\ RevisionsIn(disk', m, t)
                 /\ KeysIn(disk', m, t) = KeysIn(d, m, t)
      <4>1. ReadableIn(d, m, t) /\ RevisionsIn(d, m, t)
        BY <3>1 DEF Sound
      <4>2. \A k \in KeysIn(d, m, t) : k # ManifestKey
        BY KeysOfThread
      <4>3. \A k \in KeysIn(d, m, t) : k \in DOMAIN d => k \in DOMAIN disk' /\ disk'[k] = d[k]
        BY <2>1, <4>2 DEF After
      <4> HIDE DEF m, d
      <4> QED
        BY <4>1, <4>3, SameParts
    <3>4. Sound(disk, Manifest)'
      BY <3>2, <3>3 DEF Sound
    <3>5. LiveKeys' = UNION {KeysIn(disk', m, t) : t \in Threads}
      BY <3>2 DEF LiveKeys
    <3>6. SweepingSafe(s)'
      BY <2>2, <2>3, <3>1, <3>3, <3>5 DEF SweepingSafe
    <3>7. \A r \in Stores : /\ ~torn' => WritingSafe(r)' /\ SweepingSafe(r)'
                            /\ ClearingSafe(r)'
      BY <2>2, <2>3, <3>6 DEF WritingSafe, SweepingSafe, ClearingSafe
    <3> QED
      BY <1>0, <2>3, <3>4, <3>7 DEF StoreInv
  <2> QED
    BY <2>4, <2>5
<1>4. ASSUME NEW s \in Stores, BeginLoad(s)
      PROVE  StoreInv'
  <2> DEFINE o == [Idle EXCEPT !.phase = "cleaning",
                               !.stale = DOMAIN disk \ (LiveKeys \union {ManifestKey})]
  <2>1. MayEnter(s) /\ op' = [op EXCEPT ![s] = o] /\ disk' = disk /\ torn' = torn
    BY <1>4 DEF BeginLoad
  <2>2. o.phase = "cleaning" /\ o.stale = DOMAIN disk \ (LiveKeys \union {ManifestKey})
    BY DEF Idle
  <2> HIDE DEF o
  <2>3. /\ op'[s] = o
        /\ \A r \in Stores : r # s => op'[r].phase = "idle"
        /\ OneAtATime'
    BY <1>0, <2>1, LockExcludes
  <2>4. Manifest' = Manifest /\ LiveKeys' = LiveKeys
    BY <2>1 DEF Manifest, LiveKeys
  <2>5. ~torn' => Sound(disk', Manifest')
    BY <2>1, <2>4 DEF StoreInv
  <2>6. SweepingSafe(s)'
    BY <2>2, <2>3, <2>4 DEF SweepingSafe
  <2>7. \A r \in Stores : /\ ~torn' => WritingSafe(r)' /\ SweepingSafe(r)'
                          /\ ClearingSafe(r)'
    BY <2>2, <2>3, <2>6 DEF WritingSafe, SweepingSafe, ClearingSafe
  <2> QED
    BY <1>0, <2>3, <2>5, <2>7 DEF StoreInv
<1>5. ASSUME NEW s \in Stores, BeginClear(s)
      PROVE  StoreInv'
  <2> DEFINE o == [Idle EXCEPT !.phase = "clearing", !.stale = DOMAIN disk]
  <2>1. MayEnter(s) /\ op' = [op EXCEPT ![s] = o] /\ disk' = disk /\ torn' = TRUE
    BY <1>5 DEF BeginClear
  <2>2. o.phase = "clearing" /\ o.stale = DOMAIN disk
    BY DEF Idle
  <2> HIDE DEF o
  <2>3. /\ op'[s] = o
        /\ \A r \in Stores : r # s => op'[r].phase = "idle"
        /\ OneAtATime'
    BY <1>0, <2>1, LockExcludes
  <2> QED
    BY <1>0, <2>1, <2>2, <2>3 DEF StoreInv, ClearingSafe
<1>6. ASSUME NEW s \in Stores, RemoveOne(s)
      PROVE  StoreInv'
  <2>1. PICK k \in op[s].stale :
            /\ disk' = [x \in DOMAIN disk \ {k} |-> disk[x]]
            /\ op' = [op EXCEPT ![s].stale = op[s].stale \ {k}]
    BY <1>6 DEF RemoveOne
  <2> DEFINE o == [op[s] EXCEPT !.stale = op[s].stale \ {k}]
  <2>2. /\ o.phase = op[s].phase /\ o.stale = op[s].stale \ {k}
        /\ op[s].phase \in {"sweeping", "cleaning", "clearing"}
    BY <1>0, <1>6 DEF RemoveOne, TypeOK, OperationOK
  <2>3. op' = [op EXCEPT ![s] = o] /\ torn' = torn
    BY <1>6, <2>1 DEF RemoveOne
  <2> HIDE DEF o
  <2>4. /\ op'[s] = o
        /\ \A r \in Stores : r # s => op'[r].phase = "idle"
        /\ OneAtATime'
    BY <1>0, <2>2, <2>3, OthersIdle
  <2>5. \A r \in Stores : ClearingSafe(r)'
    BY <2>1, <2>2, <2>3, <2>4 DEF StoreInv, ClearingSafe
  <2>6. CASE torn
    BY <1>0, <2>3, <2>4, <2>5, <2>6 DEF StoreInv
  <2>7. CASE ~torn
    <3>1. op[s].phase \in {"sweeping", "cleaning"}
      BY <2>2, <2>7 DEF StoreInv, ClearingSafe
    <3>2. Sound(disk, Manifest) /\ k \notin LiveKeys \union {ManifestKey}
      BY <2>7, <3>1 DEF StoreInv, SweepingSafe
    <3>3. Manifest' = Manifest /\ Sound(disk, Manifest)' /\ LiveKeys' = LiveKeys
      BY <2>1, <3>2, SameCommitted
    <3>4. SweepingSafe(s)'
      BY <2>2, <2>4, <2>7, <3>1, <3>3 DEF StoreInv, SweepingSafe
    <3>5. \A r \in Stores : ~torn' => WritingSafe(r)' /\ SweepingSafe(r)'
      BY <2>2, <2>4, <3>4 DEF WritingSafe, SweepingSafe
    <3> QED
      BY <1>0, <2>4, <2>5, <3>3, <3>5 DEF StoreInv
  <2> QED
    BY <2>6, <2>7
<1>7. ASSUME NEW s \in Stores, Finish(s)
      PROVE  StoreInv'
  <2>1. /\ op[s].phase \in {"sweeping", "cleaning", "clearing"} /\ op[s].stale = {}
        /\ op' = [op EXCEPT ![s] = Idle] /\ disk' = disk
        /\ torn' = (torn /\ op[s].phase # "clearing")
    BY <1>7 DEF Finish
  <2>2. /\ op'[s] = Idle
        /\ \A r \in Stores : r # s => op'[r].phase = "idle"
        /\ OneAtATime'
    BY <1>0, <2>1, OthersIdle
  <2>3. \A r \in Stores : op'[r].phase = "idle"
    BY <2>2 DEF Idle
  <2>4. Manifest' = Manifest
    BY <2>1 DEF Manifest
  <2>5. ASSUME ~torn'
        PROVE  Sound(disk, Manifest)'
    <3>1. CASE op[s].phase = "clearing"
      <4>1. Manifest' = NoThreads
        BY <2>1, <2>4, <3>1 DEF StoreInv, ClearingSafe, Manifest
      <4> QED
        BY <4>1 DEF Sound, ReadableIn, RevisionsIn, NoThreads
    <3>2. CASE op[s].phase # "clearing"
      BY <2>1, <2>4, <2>5, <3>2 DEF StoreInv
    <3> QED
      BY <3>1, <3>2
  <2> QED
    BY <1>0, <2>2, <2>3, <2>5 DEF StoreInv, WritingSafe, SweepingSafe, ClearingSafe
<1>8. ASSUME NEW s \in Stores, Abort(s)
      PROVE  StoreInv'
  <2>1. /\ op[s].phase # "idle" /\ op' = [op EXCEPT ![s] = Idle]
        /\ disk' = disk /\ torn' = torn
    BY <1>8 DEF Abort
  <2>2. /\ op'[s] = Idle
        /\ \A r \in Stores : r # s => op'[r].phase = "idle"
        /\ OneAtATime'
    BY <1>0, <2>1, OthersIdle
  <2>3. \A r \in Stores : op'[r].phase = "idle"
    BY <2>2 DEF Idle
  <2>4. Manifest' = Manifest
    BY <2>1 DEF Manifest
  <2>5. ~torn' => Sound(disk, Manifest)'
    BY <2>1, <2>4 DEF StoreInv
  <2> QED
    BY <1>0, <2>2, <2>3, <2>5 DEF StoreInv, WritingSafe, SweepingSafe, ClearingSafe
<1>9. CASE UNCHANGED vars
  BY <1>9 DEF vars, StoreInv, TypeOK, OneAtATime, Manifest, LiveKeys,
              WritingSafe, SweepingSafe, ClearingSafe
<1> QED
  BY <1>1, <1>2, <1>3, <1>4, <1>5, <1>6, <1>7, <1>8, <1>9 DEF Next

\* The invariant holds throughout, where the platform's lock excludes other
\* stores of the same scope.
THEOREM StoreInvariant ==
    ASSUME Exclusive
    PROVE  Spec => []StoreInv
<1>1. Init => StoreInv
  <2> SUFFICES ASSUME Init
               PROVE  StoreInv
    OBVIOUS
  <2>1. TypeOK
    BY IdleOK DEF Init, TypeOK, Empty
  <2>2. \A s \in Stores : op[s].phase = "idle"
    BY DEF Init, Idle
  <2>3. Sound(disk, Manifest)
    BY DEF Init, Empty, Manifest, NoThreads, Sound, ReadableIn, RevisionsIn
  <2> QED
    BY <2>1, <2>2, <2>3 DEF StoreInv, OneAtATime, WritingSafe, SweepingSafe, ClearingSafe
<1>2. StoreInv /\ [Next]_vars => StoreInv'
  BY StoreStep
<1> QED
  BY <1>1, <1>2, PTL DEF Spec

\* Crash consistency: whatever calls fail and wherever the process dies, every
\* thread the committed manifest names can be read back whole, until a clear
\* is begun.
THEOREM CrashConsistency ==
    ASSUME Exclusive
    PROVE  Spec => []CommittedReadable
<1>1. StoreInv => CommittedReadable
  BY DEF StoreInv, CommittedReadable, Sound, Readable
<1>2. Spec => []StoreInv
  BY StoreInvariant
<1> QED
  BY <1>1, <1>2, PTL
-----------------------------------------------------------------------------
(* A completed load leaves no orphan.                                      *)

\* What lies in the database while a load cleans up is live or on its list.
CleaningCovers(s) ==
    op[s].phase = "cleaning" =>
        /\ Readable
        /\ op[s].stale \intersect (LiveKeys \union {ManifestKey}) = {}
        /\ DOMAIN disk \subseteq LiveKeys \union {ManifestKey} \union op[s].stale

CleaningInv == TypeOK /\ OneAtATime /\ \A s \in Stores : CleaningCovers(s)

\* Keys outside what is committed may go without a change to what is.
LEMMA ReadableKept ==
    ASSUME Readable,
           \A k \in LiveKeys \union {ManifestKey} :
             /\ k \in DOMAIN disk => k \in DOMAIN disk' /\ disk'[k] = disk[k]
             /\ k \in DOMAIN disk' => k \in DOMAIN disk
    PROVE  Manifest' = Manifest /\ Readable' /\ LiveKeys' = LiveKeys
<1>1. Manifest' = Manifest
  BY DEF Manifest
<1>2. ASSUME NEW t \in Threads
      PROVE  /\ ReadableIn(disk', Manifest, t)
             /\ KeysIn(disk', Manifest, t) = KeysIn(disk, Manifest, t)
  <2>1. CASE Manifest[t] = 0
    BY <2>1 DEF ReadableIn, KeysIn
  <2>2. CASE Manifest[t] # 0
    <3> DEFINE idx == disk[IndexKey(t, Manifest[t])]
    <3>1. /\ IndexKey(t, Manifest[t]) \in DOMAIN disk
          /\ \A i \in DOMAIN idx : /\ ChunkKey(t, idx[i].rev, i) \in DOMAIN disk
                                   /\ disk[ChunkKey(t, idx[i].rev, i)] = idx[i].records
      BY <2>2 DEF Readable, ReadableIn
    <3>2. KeysIn(disk, Manifest, t) \subseteq LiveKeys
      BY DEF LiveKeys
    <3>3. /\ IndexKey(t, Manifest[t]) \in KeysIn(disk, Manifest, t)
          /\ \A i \in DOMAIN idx : ChunkKey(t, idx[i].rev, i) \in KeysIn(disk, Manifest, t)
      BY <2>2 DEF KeysIn, KeysOf
    <3>4. IndexKey(t, Manifest[t]) \in DOMAIN disk' /\ disk'[IndexKey(t, Manifest[t])] = idx
      BY <3>1, <3>2, <3>3
    <3>5. \A i \in DOMAIN idx : /\ ChunkKey(t, idx[i].rev, i) \in DOMAIN disk'
                                /\ disk'[ChunkKey(t, idx[i].rev, i)] = idx[i].records
      BY <3>1, <3>2, <3>3
    <3> QED
      BY <2>2, <3>4, <3>5 DEF ReadableIn, KeysIn
  <2> QED
    BY <2>1, <2>2
<1>3. Readable'
  BY <1>1, <1>2 DEF Readable
<1>4. LiveKeys' = UNION {KeysIn(disk', Manifest', t) : t \in Threads}
  BY DEF LiveKeys
<1>5. LiveKeys' = UNION {KeysIn(disk, Manifest, t) : t \in Threads}
  BY <1>1, <1>2, <1>4
<1> QED
  BY <1>1, <1>3, <1>5 DEF LiveKeys

LEMMA CleaningStep == Exclusive /\ CleaningInv /\ [Next]_vars => CleaningInv'
<1> SUFFICES ASSUME Exclusive, CleaningInv, [Next]_vars
             PROVE  CleaningInv'
  OBVIOUS
<1>0. TypeOK /\ OneAtATime /\ TypeOK'
  BY TypeStep DEF CleaningInv
\* An operation begun by s, which is no load.
<1>1. ASSUME NEW s \in Stores, NEW o, MayEnter(s), op' = [op EXCEPT ![s] = o],
             o.phase # "cleaning"
      PROVE  CleaningInv'
  <2>1. /\ op'[s] = o
        /\ \A r \in Stores : r # s => op'[r].phase = "idle"
        /\ OneAtATime'
    BY <1>0, <1>1, LockExcludes
  <2> QED
    BY <1>0, <1>1, <2>1 DEF CleaningInv, CleaningCovers
\* A step of s, which is not loading.
<1>2. ASSUME NEW s \in Stores, NEW o, op[s].phase # "idle", op' = [op EXCEPT ![s] = o],
             o.phase # "cleaning"
      PROVE  CleaningInv'
  <2>1. /\ op'[s] = o
        /\ \A r \in Stores : r # s => op'[r].phase = "idle"
        /\ OneAtATime'
    BY <1>0, <1>2, OthersIdle
  <2> QED
    BY <1>0, <1>2, <2>1 DEF CleaningInv, CleaningCovers
<1>3. ASSUME NEW s \in Stores,
             NEW want \in [Threads -> Contents \union {Absent}],
             NEW changed \in SUBSET {t \in Threads : want[t] # Absent},
             NEW append \in SUBSET changed,
             BeginSave(s, want, changed, append)
      PROVE  CleaningInv'
  <2> DEFINE o == [phase |-> "writing",
                   want  |-> want,
                   puts  |-> Puts(want, changed, append),
                   next  |-> IF Refused(want, changed, append) = {}
                             THEN NextManifest(want, changed, append) ELSE Nothing,
                   stale |-> Stale(want, changed, append)]
  <2>1. MayEnter(s) /\ op' = [op EXCEPT ![s] = o]
    BY <1>3 DEF BeginSave
  <2>2. o.phase = "writing"
    OBVIOUS
  <2> HIDE DEF o
  <2> QED
    BY <2>1, <2>2, <1>1
<1>4. ASSUME NEW s \in Stores, WriteOne(s)
      PROVE  CleaningInv'
  <2>1. PICK k \in DOMAIN op[s].puts :
            op' = [op EXCEPT ![s].puts = [x \in DOMAIN op[s].puts \ {k} |-> op[s].puts[x]]]
    BY <1>4 DEF WriteOne
  <2> DEFINE o == [op[s] EXCEPT !.puts = [x \in DOMAIN op[s].puts \ {k} |-> op[s].puts[x]]]
  <2>2. o.phase = "writing" /\ op[s].phase = "writing"
    BY <1>0, <1>4 DEF WriteOne, TypeOK, OperationOK
  <2>3. op' = [op EXCEPT ![s] = o]
    BY <2>1
  <2> HIDE DEF o
  <2> QED
    BY <2>2, <2>3, <1>2
<1>5. ASSUME NEW s \in Stores, CommitManifest(s)
      PROVE  CleaningInv'
  <2> DEFINE o == [Idle EXCEPT !.phase = "sweeping", !.stale = op[s].stale]
  <2>1. op[s].phase = "writing" /\ op' = [op EXCEPT ![s] = o]
    BY <1>5 DEF CommitManifest
  <2>2. o.phase = "sweeping"
    BY DEF Idle
  <2> HIDE DEF o
  <2> QED
    BY <2>1, <2>2, <1>2
<1>6. ASSUME NEW s \in Stores, BeginLoad(s)
      PROVE  CleaningInv'
  <2> DEFINE o == [Idle EXCEPT !.phase = "cleaning",
                               !.stale = DOMAIN disk \ (LiveKeys \union {ManifestKey})]
  <2>1. MayEnter(s) /\ Readable /\ op' = [op EXCEPT ![s] = o] /\ disk' = disk
    BY <1>6 DEF BeginLoad
  <2>2. o.stale = DOMAIN disk \ (LiveKeys \union {ManifestKey})
    BY DEF Idle
  <2> HIDE DEF o
  <2>3. /\ op'[s] = o
        /\ \A r \in Stores : r # s => op'[r].phase = "idle"
        /\ OneAtATime'
    BY <1>0, <2>1, LockExcludes
  <2>4. Manifest' = Manifest /\ LiveKeys' = LiveKeys /\ Readable'
    BY <2>1 DEF Manifest, LiveKeys, Readable
  <2>5. \A r \in Stores : CleaningCovers(r)'
    BY <2>1, <2>2, <2>3, <2>4 DEF CleaningCovers
  <2> QED
    BY <1>0, <2>3, <2>5 DEF CleaningInv
<1>7. ASSUME NEW s \in Stores, BeginClear(s)
      PROVE  CleaningInv'
  <2> DEFINE o == [Idle EXCEPT !.phase = "clearing", !.stale = DOMAIN disk]
  <2>1. MayEnter(s) /\ op' = [op EXCEPT ![s] = o]
    BY <1>7 DEF BeginClear
  <2>2. o.phase = "clearing"
    BY DEF Idle
  <2> HIDE DEF o
  <2> QED
    BY <2>1, <2>2, <1>1
<1>8. ASSUME NEW s \in Stores, RemoveOne(s)
      PROVE  CleaningInv'
  <2>1. PICK k \in op[s].stale :
            /\ disk' = [x \in DOMAIN disk \ {k} |-> disk[x]]
            /\ op' = [op EXCEPT ![s].stale = op[s].stale \ {k}]
    BY <1>8 DEF RemoveOne
  <2> DEFINE o == [op[s] EXCEPT !.stale = op[s].stale \ {k}]
  <2>2. /\ o.phase = op[s].phase /\ o.stale = op[s].stale \ {k}
        /\ op[s].phase \in {"sweeping", "cleaning", "clearing"}
    BY <1>0, <1>8 DEF RemoveOne, TypeOK, OperationOK
  <2>3. op' = [op EXCEPT ![s] = o]
    BY <2>1
  <2> HIDE DEF o
  <2>4. CASE op[s].phase # "cleaning"
    BY <2>2, <2>3, <2>4, <1>2
  <2>5. CASE op[s].phase = "cleaning"
    <3>1. /\ op'[s] = o
          /\ \A r \in Stores : r # s => op'[r].phase = "idle"
          /\ OneAtATime'
      BY <1>0, <2>2, <2>3, OthersIdle
    <3>2. /\ Readable
          /\ op[s].stale \intersect (LiveKeys \union {ManifestKey}) = {}
          /\ DOMAIN disk \subseteq LiveKeys \union {ManifestKey} \union op[s].stale
      BY <2>5 DEF CleaningInv, CleaningCovers
    <3>3. Manifest' = Manifest /\ Readable' /\ LiveKeys' = LiveKeys
      BY <2>1, <3>2, ReadableKept
    <3>4. CleaningCovers(s)'
      BY <2>1, <2>2, <3>1, <3>2, <3>3 DEF CleaningCovers
    <3>5. \A r \in Stores : CleaningCovers(r)'
      BY <3>1, <3>4 DEF CleaningCovers
    <3> QED
      BY <1>0, <3>1, <3>5 DEF CleaningInv
  <2> QED
    BY <2>4, <2>5
<1>9. ASSUME NEW s \in Stores, op[s].phase # "idle", op' = [op EXCEPT ![s] = Idle]
      PROVE  CleaningInv'
  <2>1. Idle.phase # "cleaning"
    BY DEF Idle
  <2> QED
    BY <1>9, <2>1, <1>2
<1>10. CASE UNCHANGED vars
  BY <1>10 DEF vars, CleaningInv, CleaningCovers, TypeOK, OneAtATime, Manifest,
               LiveKeys, Readable
<1> QED
  BY <1>3, <1>4, <1>5, <1>6, <1>7, <1>8, <1>9, <1>10 DEF Next, Finish, Abort

\* Where the lock excludes other stores, a load that completed leaves only the
\* manifest and what it reaches, whatever interrupted saves, sweeps and clears
\* left before it, and whatever their callers' hints were.
THEOREM LoadsLeaveNoOrphan ==
    ASSUME Exclusive
    PROVE  Spec => []LoadSweepsOrphans
<1>1. Init => CleaningInv
  <2> SUFFICES ASSUME Init
               PROVE  CleaningInv
    OBVIOUS
  <2>1. TypeOK
    BY IdleOK DEF Init, TypeOK, Empty
  <2>2. \A s \in Stores : op[s].phase = "idle"
    BY DEF Init, Idle
  <2> QED
    BY <2>1, <2>2 DEF CleaningInv, OneAtATime, CleaningCovers
<1>2. CleaningInv /\ [Next]_vars => CleaningInv'
  BY CleaningStep
<1>3. CleaningInv => LoadSweepsOrphans
  BY DEF CleaningInv, CleaningCovers, LoadSweepsOrphans
<1> QED
  BY <1>1, <1>2, <1>3, PTL DEF Spec
-----------------------------------------------------------------------------
(* The store implements the atomic store.                                  *)

\* How many chunks a sequence of l records takes.
LEMMA ChunkCount ==
    ASSUME NEW l \in Nat
    PROVE  LET n == (l + ChunkSize - 1) \div ChunkSize
           IN  /\ n \in Nat
               /\ n = 0 <=> l = 0
               /\ n # 0 => (n - 1) * ChunkSize < l /\ l <= n * ChunkSize
<1> DEFINE n == (l + ChunkSize - 1) \div ChunkSize
<1>1. ChunkSize \in Nat /\ ChunkSize > 0
  BY ChunkSizeAssumption
<1>2. n \in Nat /\ n * ChunkSize <= l + ChunkSize - 1 /\ l + ChunkSize - 1 < n * ChunkSize + ChunkSize
  BY <1>1
<1> HIDE DEF n
<1>3. n # 0 => n * ChunkSize >= ChunkSize /\ (n - 1) * ChunkSize = n * ChunkSize - ChunkSize
  BY <1>1, <1>2
<1>4. n = 0 <=> l = 0
  <2>1. CASE n = 0
    BY <2>1, <1>1, <1>2
  <2>2. CASE n # 0
    BY <2>2, <1>1, <1>2, <1>3
  <2> QED
    BY <2>1, <2>2
<1> QED
  BY <1>1, <1>2, <1>3, <1>4 DEF n

\* The records an index names, chunk by chunk.
Parts(idx) == [i \in DOMAIN idx |-> idx[i].records]

\* An index that names a sequence's chunks counts its records.
LEMMA RecordsCounted ==
    ASSUME NEW p \in Seq(ChunkDescriptor), NEW c \in Seq(Records), Parts(p) = Chunked(c)
    PROVE  /\ Len(p) = (Len(c) + ChunkSize - 1) \div ChunkSize
           /\ RecordCount(p) = Len(c)
<1> DEFINE n == (Len(c) + ChunkSize - 1) \div ChunkSize
<1>1. Len(c) \in Nat /\ ChunkSize \in Nat /\ ChunkSize > 0
  BY ChunkSizeAssumption
<1>2. /\ n \in Nat
      /\ n = 0 <=> Len(c) = 0
      /\ n # 0 => (n - 1) * ChunkSize < Len(c) /\ Len(c) <= n * ChunkSize
  BY <1>1, ChunkCount
<1>3. DOMAIN p = 1 .. n /\ Len(p) \in Nat /\ DOMAIN p = 1 .. Len(p)
  BY DEF Parts, Chunked
<1>4. Len(p) = n
  BY <1>2, <1>3
<1> HIDE DEF n
<1>5. CASE n = 0
  <2>1. p = <<>>
    BY <1>4, <1>5
  <2> QED
    BY <2>1, <1>2, <1>4, <1>5 DEF RecordCount, n
<1>6. CASE n # 0
  <2>1. n \in 1 .. n /\ p # <<>>
    BY <1>2, <1>3, <1>4, <1>6
  <2>2. p[n].records = Chunked(c)[n]
    BY <1>3, <2>1 DEF Parts
  <2>3. Chunked(c)[n] = SubSeq(c, (n - 1) * ChunkSize + 1,
                            IF n * ChunkSize < Len(c) THEN n * ChunkSize ELSE Len(c))
    BY <2>1 DEF Chunked, n
  <2>4. p[n].records = SubSeq(c, (n - 1) * ChunkSize + 1, Len(c))
    <3>1. n * ChunkSize \in Int
      BY <1>1, <1>2
    <3>2. (IF n * ChunkSize < Len(c) THEN n * ChunkSize ELSE Len(c)) = Len(c)
      BY <1>1, <1>2, <1>6, <3>1
    <3> QED
      BY <2>2, <2>3, <3>2
  <2>5. /\ (n - 1) * ChunkSize \in Nat
        /\ (n - 1) * ChunkSize + 1 \in Nat /\ (n - 1) * ChunkSize + 1 >= 1
    BY <1>1, <1>2, <1>6
  <2>6. Len(p[n].records) = Len(c) - (n - 1) * ChunkSize
    <3> DEFINE k == (n - 1) * ChunkSize
    <3>1. k \in Nat /\ k < Len(c)
      BY <1>2, <1>6, <2>5
    <3> HIDE DEF k
    <3>2. Len(SubSeq(c, k + 1, Len(c))) = Len(c) - k
      BY <3>1, <1>1
    <3> QED
      BY <2>4, <3>2 DEF k
  <2>7. RecordCount(p) = (n - 1) * ChunkSize + Len(p[n].records)
    BY <1>4, <2>1 DEF RecordCount
  <2>8. (n - 1) * ChunkSize + (Len(c) - (n - 1) * ChunkSize) = Len(c)
    <3> DEFINE k == (n - 1) * ChunkSize
    <3>1. k \in Nat
      BY <2>5
    <3> HIDE DEF k
    <3>2. k + (Len(c) - k) = Len(c)
      BY <3>1, <1>1
    <3> QED
      BY <3>2 DEF k
  <2> QED
    BY <1>4, <2>6, <2>7, <2>8 DEF n
<1> QED
  BY <1>5, <1>6

\* With truthful hints an index names the chunks of what it was made for: those
\* kept from the committed index are the same.
LEMMA IndexNames ==
    ASSUME NEW p \in Seq(ChunkDescriptor), NEW r \in Nat, NEW s \in Seq(Records),
           NEW append,
           r # 0 => \E c \in Seq(Records) : Parts(p) = Chunked(c),
           append /\ r # 0 => Truthful(p, s, TRUE, append)
    PROVE  Parts(NextIndex(p, r, s, append)) = Chunked(s)
<1> DEFINE n == (Len(s) + ChunkSize - 1) \div ChunkSize
           x == NextIndex(p, r, s, append)
<1>1. Chunked(s) \in Seq(Seq(Records)) /\ DOMAIN Chunked(s) = 1 .. n /\ n \in Nat
  <2>1. Len(s) \in Nat
    OBVIOUS
  <2> QED
    BY <2>1, ChunkedType, ChunkCount DEF Chunked
<1>2. \A i \in 1 .. n : NewChunk(r, s, i).records = Chunked(s)[i]
  BY DEF NewChunk
<1> HIDE DEF n
<1>3. CASE ~(append /\ r # 0)
  <2>1. x = [i \in 1 .. n |-> IF i \in DOMAIN p /\ p[i].records = Chunked(s)[i]
                              THEN p[i] ELSE NewChunk(r, s, i)]
    BY <1>1, <1>3 DEF NextIndex
  <2>2. DOMAIN x = 1 .. n /\ \A i \in 1 .. n : x[i].records = Chunked(s)[i]
    BY <2>1, <1>2
  <2>3. Parts(x) = [i \in 1 .. n |-> Chunked(s)[i]]
    BY <2>2 DEF Parts
  <2> QED
    BY <2>3, <1>1
<1>4. CASE append /\ r # 0
  <2>1. /\ AppendAccepted(p, s)
        /\ \A i \in 1 .. FullChunks(p) : p[i].records = Chunked(s)[i]
    BY <1>4 DEF Truthful
  <2>2. PICK c \in Seq(Records) : Parts(p) = Chunked(c)
    BY <1>4
  <2>3. /\ Len(p) = (Len(c) + ChunkSize - 1) \div ChunkSize
        /\ RecordCount(p) = Len(c)
    BY <2>2, RecordsCounted
  <2>4. Len(p) \in Nat /\ DOMAIN p = 1 .. Len(p) /\ FullChunks(p) \in Int
    BY DEF FullChunks
  <2>5. CASE Len(s) = RecordCount(p)
    <3>1. x = p /\ n = Len(p)
      BY <1>4, <2>3, <2>5 DEF NextIndex, n
    <3>2. ASSUME NEW i \in 1 .. n
          PROVE  p[i].records = Chunked(s)[i]
      <4>1. CASE i \in 1 .. FullChunks(p)
        BY <2>1, <4>1
      <4>2. CASE i \notin 1 .. FullChunks(p)
        <5>1. RecordCount(p) % ChunkSize # 0 /\ FullChunks(p) = n - 1 /\ i = n /\ n # 0
          <6>1. \/ FullChunks(p) = n
                \/ RecordCount(p) % ChunkSize # 0 /\ FullChunks(p) = n - 1
            BY <3>1 DEF FullChunks
          <6>2. FullChunks(p) # n
            BY <4>2
          <6>3. FullChunks(p) = n - 1
            BY <6>1, <6>2
          <6>4. i = n /\ n # 0
            BY <6>3, <4>2, <1>1
          <6> QED
            BY <6>1, <6>2, <6>4
        <5>2. p[n].records = SubSeq(s, (n - 1) * ChunkSize + 1, Len(s))
          BY <2>1, <2>5, <3>1, <5>1 DEF AppendAccepted
        <5>3. Chunked(s)[n] = SubSeq(s, (n - 1) * ChunkSize + 1,
                                IF n * ChunkSize < Len(s) THEN n * ChunkSize ELSE Len(s))
          BY <1>1, <5>1 DEF Chunked, n
        <5>4. (IF n * ChunkSize < Len(s) THEN n * ChunkSize ELSE Len(s)) = Len(s)
          <6>1. Len(s) \in Nat
            OBVIOUS
          <6>2. Len(s) <= n * ChunkSize
            BY <6>1, <5>1, ChunkCount DEF n
          <6>3. n * ChunkSize \in Int
            BY <1>1, ChunkSizeAssumption
          <6> QED
            BY <6>1, <6>2, <6>3
        <5> QED
          BY <5>1, <5>2, <5>3, <5>4
      <4> QED
        BY <4>1, <4>2
    <3>3. Parts(x) = [i \in 1 .. n |-> Chunked(s)[i]]
      BY <3>1, <3>2, <2>4 DEF Parts
    <3> QED
      BY <3>3, <1>1
  <2>6. CASE Len(s) # RecordCount(p)
    <3>1. x = [i \in 1 .. n |-> IF i <= FullChunks(p) THEN p[i] ELSE NewChunk(r, s, i)]
      BY <1>1, <1>4, <2>6 DEF NextIndex
    <3>2. \A i \in 1 .. n : i <= FullChunks(p) => i \in 1 .. FullChunks(p)
      BY <1>1, <2>4
    <3>3. DOMAIN x = 1 .. n /\ \A i \in 1 .. n : x[i].records = Chunked(s)[i]
      BY <3>1, <3>2, <2>1, <1>2
    <3>4. Parts(x) = [i \in 1 .. n |-> Chunked(s)[i]]
      BY <3>3 DEF Parts
    <3> QED
      BY <3>4, <1>1
  <2> QED
    BY <2>5, <2>6
<1> QED
  BY <1>3, <1>4

\* A save is under way with what it was asked for, and only then.
AskedWhileWriting(s) ==
    IF op[s].phase = "writing"
    THEN op[s].want \in [Threads -> Contents \union {Absent}]
    ELSE op[s].want = Nothing

\* What is committed for a thread is a history a caller may save.
HistoriesCommitted ==
    \A t \in Threads : Manifest[t] # 0 =>
        \E c \in Contents : Parts(disk[IndexKey(t, Manifest[t])]) = Chunked(c)

\* Manifest m over database d names the projection want, and nothing more.
Names(d, m, want) ==
    \A t \in Threads :
        IF want[t] = Absent THEN m[t] = 0
        ELSE m[t] # 0 /\ Parts(d[IndexKey(t, m[t])]) = Chunked(want[t])

WritesWhatIsAsked(s) ==
    op[s].phase = "writing" /\ op[s].next # Nothing =>
        Names(After(disk, op[s].puts), op[s].next, op[s].want)

\* The invariant of the refinement.
AtomicInv ==
    /\ StoreInv
    /\ \A s \in Stores : AskedWhileWriting(s)
    /\ ~torn => HistoriesCommitted
    /\ \A s \in Stores : ~torn => WritesWhatIsAsked(s)

\* An honest save that is not refused leads to a manifest that names what it was
\* asked to save.
LEMMA SaveNames ==
    ASSUME TypeOK, Sound(disk, Manifest), HistoriesCommitted, HonestCallers,
           NEW s \in Stores,
           NEW want \in [Threads -> Contents \union {Absent}],
           NEW changed \in SUBSET {t \in Threads : want[t] # Absent},
           NEW append \in SUBSET changed,
           BeginSave(s, want, changed, append),
           Refused(want, changed, append) = {}
    PROVE  Names(After(disk, Puts(want, changed, append)),
                 NextManifest(want, changed, append), want)
<1> DEFINE P == Puts(want, changed, append)
           N == NextManifest(want, changed, append)
           d == After(disk, P)
           X(t) == IndexFor(t, want, append)
<1>1. Manifest \in [Threads -> Nat]
  BY CommittedType
<1>2. ASSUME NEW t \in Threads, Manifest[t] # 0
      PROVE  /\ PrevIndex(t) = disk[IndexKey(t, Manifest[t])]
             /\ PrevIndex(t) \in Seq(ChunkDescriptor)
             /\ IndexKey(t, Manifest[t]) \in DOMAIN disk
             /\ IndexKey(t, Manifest[t]) \notin DOMAIN P
             /\ \E c \in Seq(Records) : Parts(PrevIndex(t)) = Chunked(c)
  <2>1. IndexKey(t, Manifest[t]) \in LiveKeys
    <3>1. IndexKey(t, Manifest[t]) \in KeysIn(disk, Manifest, t)
      BY <1>2 DEF KeysIn, KeysOf
    <3> QED
      BY <3>1 DEF LiveKeys
  <2>2. DOMAIN P \intersect LiveKeys = {}
    BY SaveSafe
  <2>3. PrevIndex(t) = disk[IndexKey(t, Manifest[t])]
    BY <1>2 DEF PrevIndex
  <2>4. \E c \in Contents : Parts(PrevIndex(t)) = Chunked(c)
    BY <1>2, <2>3 DEF HistoriesCommitted
  <2>5. IndexKey(t, Manifest[t]) \in DOMAIN disk
    BY <1>2 DEF Sound, ReadableIn
  <2> QED
    BY <2>1, <2>2, <2>3, <2>4, <2>5, CommittedType, ContentsAssumption
<1>3. ASSUME NEW t \in Present(want), Manifest[t] # 0
      PROVE  Truthful(PrevIndex(t), want[t], t \in changed, t \in append)
  BY <1>3 DEF BeginSave
<1>4. ASSUME NEW t \in Touched(want, changed)
      PROVE  Parts(X(t)) = Chunked(want[t])
  <2>1. /\ t \in Threads /\ t \in Present(want) /\ want[t] \in Seq(Records)
        /\ Manifest[t] \in Nat /\ PrevIndex(t) \in Seq(ChunkDescriptor)
    BY SaveType DEF Touched
  <2>2. Manifest[t] # 0 => \E c \in Seq(Records) : Parts(PrevIndex(t)) = Chunked(c)
    BY <2>1, <1>2
  <2>3. t \in append /\ Manifest[t] # 0 => Truthful(PrevIndex(t), want[t], TRUE, t \in append)
    BY <2>1, <1>3 DEF Truthful
  <2>4. Parts(NextIndex(PrevIndex(t), Manifest[t], want[t], t \in append)) = Chunked(want[t])
    BY <2>1, <2>2, <2>3, IndexNames
  <2> QED
    BY <2>4 DEF IndexFor
<1>5. ASSUME NEW t \in Threads
      PROVE  IF want[t] = Absent THEN N[t] = 0
             ELSE N[t] # 0 /\ Parts(d[IndexKey(t, N[t])]) = Chunked(want[t])
  <2>1. CASE want[t] = Absent
    BY <2>1 DEF NextManifest, Present
  <2>2. CASE want[t] # Absent /\ t \in Rewritten(want, changed, append)
    <3>1. t \in Touched(want, changed) /\ t \in Present(want) /\ Manifest[t] \in Nat
      BY <2>2, <1>1 DEF Rewritten, Touched
    <3>2. N[t] = Manifest[t] + 1 /\ N[t] # 0
      BY <2>2, <3>1 DEF NextManifest
    <3>3. IndexKey(t, N[t]) \in DOMAIN P /\ P[IndexKey(t, N[t])] = X(t)
      <4>1. IndexKey(t, N[t]) \in NewKeys(t, X(t))
        BY <3>2 DEF NewKeys
      <4>2. IndexKey(t, N[t]).kind = "index" /\ IndexKey(t, N[t]).thread = t
        BY DEF IndexKey
      <4> QED
        BY <2>2, <4>1, <4>2 DEF Puts
    <3>4. d[IndexKey(t, N[t])] = X(t)
      BY <3>3 DEF After
    <3> QED
      BY <2>2, <3>1, <3>2, <3>4, <1>4
  <2>3. CASE want[t] # Absent /\ t \notin Rewritten(want, changed, append)
    <3>1. t \in Present(want)
      BY <2>3 DEF Present
    <3>2. N[t] = Manifest[t]
      BY <2>3, <3>1 DEF NextManifest
    <3>3. Manifest[t] # 0 /\ Parts(PrevIndex(t)) = Chunked(want[t])
      <4>1. CASE t \in Touched(want, changed)
        <5>1. Manifest[t] # 0 /\ X(t) = PrevIndex(t)
          BY <2>3, <4>1 DEF Rewritten
        <5> QED
          BY <5>1, <4>1, <1>4
      <4>2. CASE t \notin Touched(want, changed)
        <5>1. Manifest[t] # 0 /\ t \notin changed
          BY <3>1, <4>2 DEF Touched
        <5> QED
          BY <5>1, <3>1, <1>3 DEF Truthful, Parts
      <4> QED
        BY <4>1, <4>2
    <3>4. IndexKey(t, N[t]) \in DOMAIN disk /\ IndexKey(t, N[t]) \notin DOMAIN P
      BY <3>2, <3>3, <1>2 DEF Sound, ReadableIn
    <3>5. d[IndexKey(t, N[t])] = PrevIndex(t)
      BY <3>2, <3>3, <3>4, <1>2 DEF After
    <3> QED
      BY <2>3, <3>2, <3>3, <3>5
  <2> QED
    BY <2>1, <2>2, <2>3
<1> QED
  BY <1>5 DEF Names

\* What a load would return of a thread is what its index names.
LEMMA StoredNamed ==
    ASSUME NEW t \in Threads, Manifest[t] # 0, ReadableIn(disk, Manifest, t)
    PROVE  Stored(t) = Parts(disk[IndexKey(t, Manifest[t])])
  BY DEF ReadableIn, Stored, Parts

\* Keys that are neither the manifest nor live may change: what a load would
\* return does not, nor that it was saved.
LEMMA StoredKept ==
    ASSUME Sound(disk, Manifest), HistoriesCommitted,
           \A k \in LiveKeys \union {ManifestKey} :
             /\ k \in DOMAIN disk => k \in DOMAIN disk' /\ disk'[k] = disk[k]
             /\ k \in DOMAIN disk' => k \in DOMAIN disk
    PROVE  HistoriesCommitted' /\ \A t \in Threads : Stored(t)' = Stored(t)
<1>1. Manifest' = Manifest /\ Sound(disk, Manifest)'
  BY SameCommitted
<1>2. ASSUME NEW t \in Threads, Manifest[t] # 0
      PROVE  disk'[IndexKey(t, Manifest[t])] = disk[IndexKey(t, Manifest[t])]
  <2>1. IndexKey(t, Manifest[t]) \in DOMAIN disk
    BY <1>2 DEF Sound, ReadableIn
  <2>2. IndexKey(t, Manifest[t]) \in LiveKeys
    BY <1>2 DEF LiveKeys, KeysIn, KeysOf
  <2> QED
    BY <2>1, <2>2
<1>3. HistoriesCommitted'
  BY <1>1, <1>2 DEF HistoriesCommitted
<1>4. ASSUME NEW t \in Threads
      PROVE  Stored(t)' = Stored(t)
  <2>1. CASE Manifest[t] = 0
    BY <1>1, <2>1 DEF Stored
  <2>2. CASE Manifest[t] # 0
    <3>1. Stored(t) = Parts(disk[IndexKey(t, Manifest[t])])
      BY <2>2, StoredNamed DEF Sound
    <3>2. Stored(t)' = Parts(disk'[IndexKey(t, Manifest'[t])])
      <4>1. ReadableIn(disk', Manifest', t) /\ Manifest'[t] # 0
        BY <1>1, <2>2 DEF Sound
      <4> QED
        BY <4>1 DEF ReadableIn, Stored, Parts
    <3> QED
      BY <1>1, <1>2, <2>2, <3>1, <3>2
  <2> QED
    BY <2>1, <2>2
<1> QED
  BY <1>3, <1>4

\* The variables of the atomic store, as the stored ones represent them.
Content == IF torn THEN Torn ELSE [t \in Threads |-> Stored(t)]
Asked == [s \in Stores |-> Wanted(op[s].want)]

\* What a store is asked to save is a projection, and no projection is a sentinel.
LEMMA WantedType ==
    /\ Wanted(Nothing) = Nothing
    /\ \A want \in [Threads -> Contents \union {Absent}] :
        /\ want # Nothing
        /\ Wanted(want) = [t \in Threads |-> IF want[t] = Absent THEN Absent ELSE Chunked(want[t])]
        /\ Wanted(want) \in Atomic!Projections
        /\ Wanted(want) # Nothing
<1>1. Wanted(Nothing) = Nothing
  BY DEF Wanted
<1>2. ASSUME NEW want \in [Threads -> Contents \union {Absent}]
      PROVE  /\ want # Nothing
             /\ Wanted(want) = [t \in Threads |-> IF want[t] = Absent THEN Absent ELSE Chunked(want[t])]
             /\ Wanted(want) \in Atomic!Projections
             /\ Wanted(want) # Nothing
  <2>1. want # Nothing
    BY WantAssumption
  <2>2. Wanted(want) = [t \in Threads |-> IF want[t] = Absent THEN Absent ELSE Chunked(want[t])]
    BY <2>1 DEF Wanted
  <2>3. \A t \in Threads : (IF want[t] = Absent THEN Absent ELSE Chunked(want[t]))
                                \in {Chunked(s) : s \in Contents} \union {Absent}
    OBVIOUS
  <2>4. Wanted(want) \in [Threads -> {Chunked(s) : s \in Contents} \union {Absent}]
    BY <2>2, <2>3
  <2> QED
    BY <2>1, <2>2, <2>4, ProjectionAssumption DEF Atomic!Projections
<1> QED
  BY <1>1, <1>2

\* What is committed is a projection.
LEMMA ContentType ==
    ASSUME AtomicInv, ~torn
    PROVE  Content # Torn
<1>1. \A t \in Threads : Stored(t) \in {Chunked(s) : s \in Contents} \union {Absent}
  <2> TAKE t \in Threads
  <2>1. CASE Manifest[t] = 0
    BY <2>1 DEF Stored
  <2>2. CASE Manifest[t] # 0
    <3>1. Stored(t) = Parts(disk[IndexKey(t, Manifest[t])])
      BY <2>2, StoredNamed DEF AtomicInv, StoreInv, Sound
    <3>2. PICK c \in Contents : Parts(disk[IndexKey(t, Manifest[t])]) = Chunked(c)
      BY <2>2 DEF AtomicInv, HistoriesCommitted
    <3> QED
      BY <3>1, <3>2
  <2> QED
    BY <2>1, <2>2
<1>2. [t \in Threads |-> Stored(t)] \in [Threads -> {Chunked(s) : s \in Contents} \union {Absent}]
  BY <1>1
<1> QED
  BY <1>2, ProjectionAssumption DEF Content

\* One store's operation is replaced, and so is what it asks for.
LEMMA AskedStep ==
    ASSUME TypeOK, NEW s \in Stores, NEW o, op' = [op EXCEPT ![s] = o]
    PROVE  /\ Asked' = [Asked EXCEPT ![s] = Wanted(o.want)]
           /\ Asked[s] = Wanted(op[s].want)
           /\ o.want = Nothing => Asked' = [Asked EXCEPT ![s] = Nothing]
           /\ o.want = op[s].want => Asked' = Asked
<1>1. Asked' = [Asked EXCEPT ![s] = Wanted(o.want)] /\ Asked[s] = Wanted(op[s].want)
  BY DEF TypeOK, Asked
<1>2. ASSUME o.want = op[s].want
      PROVE  Asked' = Asked
  <2>1. Wanted(o.want) = Asked[s]
    BY <1>1, <1>2
  <2> QED
    BY <1>1, <2>1 DEF Asked
<1>3. ASSUME o.want = Nothing
      PROVE  Asked' = [Asked EXCEPT ![s] = Nothing]
  <2>1. Wanted(o.want) = Nothing
    BY <1>3, WantedType
  <2> QED
    BY <1>1, <2>1
<1> QED
  BY <1>1, <1>2, <1>3

\* A step that keeps the content and what is asked for is a stutter.
LEMMA StutterStep ==
    ASSUME Content' = Content, Asked' = Asked
    PROVE  UNCHANGED Atomic!vars
  BY DEF Content, Asked, Atomic!vars

LEMMA SameContent ==
    ASSUME disk' = disk
    PROVE  /\ Manifest' = Manifest
           /\ HistoriesCommitted => HistoriesCommitted'
           /\ torn' = torn => Content' = Content
  BY DEF Manifest, HistoriesCommitted, Content, Stored

\* A store that runs an operation is the only one whose part of the invariant
\* a step of its own can disturb.
LEMMA AloneKept ==
    ASSUME StoreInv', \A r \in Stores : AskedWhileWriting(r),
           NEW s \in Stores, NEW o, op' = [op EXCEPT ![s] = o], op'[s] = o,
           \A r \in Stores : r # s => op'[r].phase = "idle",
           AskedWhileWriting(s)', ~torn' => HistoriesCommitted',
           ~torn' => WritesWhatIsAsked(s)'
    PROVE  AtomicInv'
<1>1. ASSUME NEW r \in Stores, r # s
      PROVE  AskedWhileWriting(r)' /\ WritesWhatIsAsked(r)'
  <2>1. op'[r] = op[r] /\ op'[r].phase = "idle"
    BY <1>1 DEF StoreInv, TypeOK
  <2> QED
    BY <2>1 DEF AskedWhileWriting, WritesWhatIsAsked
<1> QED
  BY <1>1 DEF AtomicInv

\* Every step of the store is a step of the atomic one, or none that it sees.
LEMMA AtomicStep ==
    ASSUME Exclusive, HonestCallers, AtomicInv, [Next]_vars
    PROVE  AtomicInv' /\ [Atomic!Next]_(Atomic!vars)
<1>0. /\ StoreInv /\ StoreInv' /\ TypeOK /\ OneAtATime
      /\ \A s \in Stores : AskedWhileWriting(s)
  BY StoreStep DEF AtomicInv, StoreInv
<1>1. ASSUME NEW s \in Stores,
             NEW want \in [Threads -> Contents \union {Absent}],
             NEW changed \in SUBSET {t \in Threads : want[t] # Absent},
             NEW append \in SUBSET changed,
             BeginSave(s, want, changed, append)
      PROVE  AtomicInv' /\ Atomic!Next
  <2> DEFINE o == [phase |-> "writing",
                   want  |-> want,
                   puts  |-> Puts(want, changed, append),
                   next  |-> IF Refused(want, changed, append) = {}
                             THEN NextManifest(want, changed, append) ELSE Nothing,
                   stale |-> Stale(want, changed, append)]
  <2>1. MayEnter(s) /\ op' = [op EXCEPT ![s] = o] /\ disk' = disk /\ torn' = torn
    BY <1>1 DEF BeginSave
  <2>2. /\ o.phase = "writing" /\ o.want = want
        /\ o.puts = Puts(want, changed, append)
        /\ o.next # Nothing => /\ Refused(want, changed, append) = {}
                               /\ o.next = NextManifest(want, changed, append)
    OBVIOUS
  <2> HIDE DEF o
  <2>3. /\ op'[s] = o
        /\ \A r \in Stores : r # s => op'[r].phase = "idle"
    BY <1>0, <2>1, LockExcludes
  <2>4. ~torn' => HistoriesCommitted'
    BY <2>1, SameContent DEF AtomicInv
  <2>5. ASSUME ~torn'
        PROVE  WritesWhatIsAsked(s)'
    <3>1. Sound(disk, Manifest) /\ HistoriesCommitted
      BY <2>1, <2>5 DEF AtomicInv, StoreInv
    <3>2. o.next # Nothing => Names(After(disk, o.puts), o.next, want)
      BY <1>0, <1>1, <2>2, <3>1, SaveNames
    <3> QED
      BY <2>1, <2>2, <2>3, <3>2 DEF WritesWhatIsAsked
  <2>6. AskedWhileWriting(s)'
    BY <2>2, <2>3 DEF AskedWhileWriting
  <2>7. AtomicInv'
    BY <1>0, <2>1, <2>3, <2>4, <2>5, <2>6, AloneKept
  <2>8. Content' = Content
    BY <2>1, SameContent
  <2>9. Asked[s] = Nothing /\ Asked' = [Asked EXCEPT ![s] = Wanted(want)]
    <3>1. op[s].want = Nothing
      BY <2>1 DEF MayEnter, Idle
    <3> QED
      BY <1>0, <2>1, <2>2, <3>1, AskedStep, WantedType
  <2>10. Wanted(want) \in Atomic!Projections
    BY WantedType
  <2>11. Atomic!Ask(s, Wanted(want))
    BY <2>8, <2>9 DEF Atomic!Ask, Content, Asked
  <2> QED
    BY <2>7, <2>10, <2>11 DEF Atomic!Next
<1>2. ASSUME NEW s \in Stores, WriteOne(s)
      PROVE  AtomicInv' /\ UNCHANGED Atomic!vars
  <2>1. PICK k \in DOMAIN op[s].puts :
            /\ disk' = [x \in DOMAIN disk \union {k} |->
                            IF x = k THEN op[s].puts[k] ELSE disk[x]]
            /\ op' = [op EXCEPT ![s].puts =
                            [x \in DOMAIN op[s].puts \ {k} |-> op[s].puts[x]]]
    BY <1>2 DEF WriteOne
  <2> DEFINE o == [op[s] EXCEPT !.puts = [x \in DOMAIN op[s].puts \ {k} |-> op[s].puts[x]]]
  <2>2. /\ o.phase = "writing" /\ op[s].phase = "writing"
        /\ o.puts = [x \in DOMAIN op[s].puts \ {k} |-> op[s].puts[x]]
        /\ o.next = op[s].next /\ o.want = op[s].want
    BY <1>0, <1>2 DEF WriteOne, TypeOK, OperationOK
  <2>3. op' = [op EXCEPT ![s] = o] /\ torn' = torn
    BY <1>2, <2>1 DEF WriteOne
  <2> HIDE DEF o
  <2>4. /\ op'[s] = o
        /\ \A r \in Stores : r # s => op'[r].phase = "idle"
    BY <1>0, <2>2, <2>3, OthersIdle
  <2>5. ASSUME ~torn
        PROVE  HistoriesCommitted' /\ \A t \in Threads : Stored(t)' = Stored(t)
    <3>1. Sound(disk, Manifest) /\ WritingSafe(s) /\ HistoriesCommitted
      BY <2>5 DEF AtomicInv, StoreInv
    <3>2. k \notin LiveKeys \union {ManifestKey}
      BY <2>2, <3>1 DEF WritingSafe
    <3> QED
      BY <2>1, <3>1, <3>2, StoredKept
  <2>6. Content' = Content
    BY <2>3, <2>5 DEF Content
  <2>7. After(disk', o.puts) = After(disk, op[s].puts)
    BY <2>1, <2>2 DEF After
  <2>8. AtomicInv'
    <3>1. AskedWhileWriting(s)'
      BY <1>0, <2>2, <2>4 DEF AskedWhileWriting
    <3>2. ~torn' => WritesWhatIsAsked(s)'
      BY <2>2, <2>3, <2>4, <2>7 DEF AtomicInv, WritesWhatIsAsked
    <3> QED
      BY <1>0, <2>3, <2>4, <2>5, <3>1, <3>2, AloneKept
  <2>9. Asked' = Asked
    BY <1>0, <2>2, <2>3, AskedStep
  <2> QED
    BY <2>6, <2>8, <2>9, StutterStep
<1>3. ASSUME NEW s \in Stores, CommitManifest(s)
      PROVE  AtomicInv' /\ Atomic!Next
  <2> DEFINE o == [Idle EXCEPT !.phase = "sweeping", !.stale = op[s].stale]
  <2>1. /\ op[s].phase = "writing" /\ DOMAIN op[s].puts = {} /\ op[s].next # Nothing
        /\ disk' = [x \in DOMAIN disk \union {ManifestKey} |->
                        IF x = ManifestKey THEN op[s].next ELSE disk[x]]
        /\ op' = [op EXCEPT ![s] = o]
        /\ torn' = torn
    BY <1>3 DEF CommitManifest
  <2>2. o.phase = "sweeping" /\ o.want = Nothing
    BY DEF Idle
  <2> HIDE DEF o
  <2>3. /\ op'[s] = o
        /\ \A r \in Stores : r # s => op'[r].phase = "idle"
    BY <1>0, <2>1, OthersIdle
  <2> DEFINE want == op[s].want
             m == op[s].next
  <2>4. want \in [Threads -> Contents \union {Absent}]
    BY <1>0, <2>1 DEF AskedWhileWriting
  <2>5. Asked[s] = Wanted(want) /\ Asked[s] # Nothing
    BY <1>0, <2>1, <2>4, AskedStep, WantedType
  <2>6. Asked' = [Asked EXCEPT ![s] = Nothing]
    BY <1>0, <2>1, <2>2, AskedStep, WantedType
  <2>7. ASSUME ~torn
        PROVE  /\ HistoriesCommitted'
               /\ [t \in Threads |-> Stored(t)'] = Wanted(want)
    <3>1. Names(After(disk, op[s].puts), m, want)
      BY <2>1, <2>7 DEF AtomicInv, WritesWhatIsAsked
    <3>2. Manifest' = m
      BY <2>1 DEF Manifest
    <3>3. \A t \in Threads : IndexKey(t, m[t]) # ManifestKey
      BY DEF IndexKey, ManifestKey
    <3>4. ASSUME NEW t \in Threads, m[t] # 0
          PROVE  /\ IndexKey(t, m[t]) \in DOMAIN disk'
                 /\ disk'[IndexKey(t, m[t])] = After(disk, op[s].puts)[IndexKey(t, m[t])]
                 /\ ReadableIn(disk', Manifest', t)
      <4>1. ReadableIn(disk', Manifest', t)
        BY <1>0, <2>1, <2>7 DEF StoreInv, Sound
      <4>2. IndexKey(t, m[t]) \in DOMAIN disk'
        BY <3>2, <3>4, <4>1 DEF ReadableIn
      <4>3. IndexKey(t, m[t]) \in DOMAIN disk
        BY <2>1, <3>3, <4>2
      <4>4. disk'[IndexKey(t, m[t])] = disk[IndexKey(t, m[t])]
        BY <2>1, <3>3, <4>3
      <4>5. After(disk, op[s].puts)[IndexKey(t, m[t])] = disk[IndexKey(t, m[t])]
        BY <2>1, <4>3 DEF After
      <4> QED
        BY <4>1, <4>2, <4>4, <4>5
    <3>5. ASSUME NEW t \in Threads
          PROVE  Stored(t)' = IF want[t] = Absent THEN Absent ELSE Chunked(want[t])
      <4>1. CASE want[t] = Absent
        <5>1. m[t] = 0
          BY <3>1, <4>1 DEF Names
        <5> QED
          BY <3>2, <4>1, <5>1 DEF Stored
      <4>2. CASE want[t] # Absent
        <5>1. m[t] # 0 /\ Parts(After(disk, op[s].puts)[IndexKey(t, m[t])]) = Chunked(want[t])
          BY <3>1, <4>2 DEF Names
        <5>2. Parts(disk'[IndexKey(t, m[t])]) = Chunked(want[t])
          BY <3>4, <5>1
        <5>3. Stored(t)' = Parts(disk'[IndexKey(t, m[t])])
          BY <3>2, <3>4, <5>1 DEF ReadableIn, Stored, Parts
        <5> QED
          BY <4>2, <5>2, <5>3
      <4> QED
        BY <4>1, <4>2
    <3>6. HistoriesCommitted'
      <4> SUFFICES ASSUME NEW t \in Threads, m[t] # 0
                   PROVE  \E c \in Contents : Parts(disk'[IndexKey(t, m[t])]) = Chunked(c)
        BY <3>2 DEF HistoriesCommitted
      <4>1. want[t] # Absent /\ Parts(After(disk, op[s].puts)[IndexKey(t, m[t])]) = Chunked(want[t])
        BY <3>1 DEF Names
      <4>2. want[t] \in Contents
        BY <2>4, <4>1
      <4> QED
        BY <3>4, <4>1, <4>2
    <3>7. [t \in Threads |-> Stored(t)'] = Wanted(want)
      BY <2>4, <3>5, WantedType
    <3> QED
      BY <3>6, <3>7
  <2>8. Content' = IF Content = Torn THEN Torn ELSE Asked[s]
    <3>1. CASE torn
      BY <2>1, <3>1 DEF Content
    <3>2. CASE ~torn
      <4>1. Content # Torn
        BY <3>2, ContentType
      <4>2. Content' = [t \in Threads |-> Stored(t)']
        BY <2>1, <3>2 DEF Content
      <4> QED
        BY <2>5, <2>7, <3>2, <4>1, <4>2
    <3> QED
      BY <3>1, <3>2
  <2>9. AtomicInv'
    <3>1. AskedWhileWriting(s)' /\ WritesWhatIsAsked(s)'
      BY <2>2, <2>3 DEF AskedWhileWriting, WritesWhatIsAsked
    <3> QED
      BY <1>0, <2>1, <2>3, <2>7, <3>1, AloneKept
  <2>10. Atomic!Commit(s)
    BY <2>5, <2>6, <2>8 DEF Atomic!Commit, Content, Asked
  <2> QED
    BY <2>9, <2>10 DEF Atomic!Next
\* A load begins; an operation that is no save ends without a change.
<1>4. ASSUME NEW s \in Stores, NEW o, op' = [op EXCEPT ![s] = o],
             o.phase # "writing", o.want = Nothing, op[s].want = Nothing,
             op'[s] = o, \A r \in Stores : r # s => op'[r].phase = "idle",
             disk' = disk, torn' = torn
      PROVE  AtomicInv' /\ UNCHANGED Atomic!vars
  <2>1. AskedWhileWriting(s)' /\ WritesWhatIsAsked(s)'
    BY <1>4 DEF AskedWhileWriting, WritesWhatIsAsked
  <2>2. AtomicInv'
    BY <1>0, <1>4, <2>1, SameContent, AloneKept DEF AtomicInv
  <2>3. Asked' = Asked
    <3>1. o.want = op[s].want
      BY <1>4
    <3> QED
      BY <1>0, <1>4, <3>1, AskedStep
  <2> QED
    BY <1>4, <2>2, <2>3, SameContent, StutterStep
<1>5. ASSUME NEW s \in Stores, BeginLoad(s)
      PROVE  AtomicInv' /\ UNCHANGED Atomic!vars
  <2> DEFINE o == [Idle EXCEPT !.phase = "cleaning",
                               !.stale = DOMAIN disk \ (LiveKeys \union {ManifestKey})]
  <2>1. MayEnter(s) /\ op' = [op EXCEPT ![s] = o] /\ disk' = disk /\ torn' = torn
    BY <1>5 DEF BeginLoad
  <2>2. o.phase # "writing" /\ o.want = Nothing /\ op[s].want = Nothing
    BY <2>1 DEF Idle, MayEnter
  <2> HIDE DEF o
  <2>3. op'[s] = o /\ \A r \in Stores : r # s => op'[r].phase = "idle"
    BY <1>0, <2>1, LockExcludes
  <2> QED
    BY <2>1, <2>2, <2>3, <1>4
<1>6. ASSUME NEW s \in Stores, BeginClear(s)
      PROVE  AtomicInv' /\ Atomic!Next
  <2> DEFINE o == [Idle EXCEPT !.phase = "clearing", !.stale = DOMAIN disk]
  <2>1. MayEnter(s) /\ op' = [op EXCEPT ![s] = o] /\ disk' = disk /\ torn' = TRUE
    BY <1>6 DEF BeginClear
  <2>2. o.phase = "clearing" /\ o.want = Nothing /\ op[s].want = Nothing
    BY <2>1 DEF Idle, MayEnter
  <2> HIDE DEF o
  <2>3. op'[s] = o /\ \A r \in Stores : r # s => op'[r].phase = "idle"
    BY <1>0, <2>1, LockExcludes
  <2>4. AskedWhileWriting(s)'
    BY <2>2, <2>3 DEF AskedWhileWriting
  <2>5. AtomicInv'
    BY <1>0, <2>1, <2>3, <2>4, AloneKept
  <2>6. Content' = Torn /\ Asked' = Asked
    BY <1>0, <2>1, <2>2, AskedStep DEF Content
  <2>7. Atomic!BeginClear
    BY <2>6 DEF Atomic!BeginClear, Content, Asked
  <2> QED
    BY <2>5, <2>7 DEF Atomic!Next
<1>7. ASSUME NEW s \in Stores, RemoveOne(s)
      PROVE  AtomicInv' /\ UNCHANGED Atomic!vars
  <2>1. PICK k \in op[s].stale :
            /\ disk' = [x \in DOMAIN disk \ {k} |-> disk[x]]
            /\ op' = [op EXCEPT ![s].stale = op[s].stale \ {k}]
    BY <1>7 DEF RemoveOne
  <2> DEFINE o == [op[s] EXCEPT !.stale = op[s].stale \ {k}]
  <2>2. /\ o.phase = op[s].phase /\ o.want = op[s].want
        /\ op[s].phase \in {"sweeping", "cleaning", "clearing"}
    BY <1>0, <1>7 DEF RemoveOne, TypeOK, OperationOK
  <2>3. op' = [op EXCEPT ![s] = o] /\ torn' = torn
    BY <1>7, <2>1 DEF RemoveOne
  <2> HIDE DEF o
  <2>4. /\ op'[s] = o
        /\ \A r \in Stores : r # s => op'[r].phase = "idle"
    BY <1>0, <2>2, <2>3, OthersIdle
  <2>5. ASSUME ~torn
        PROVE  HistoriesCommitted' /\ \A t \in Threads : Stored(t)' = Stored(t)
    <3>1. op[s].phase \in {"sweeping", "cleaning"}
      BY <1>0, <2>2, <2>5 DEF StoreInv, ClearingSafe
    <3>2. Sound(disk, Manifest) /\ k \notin LiveKeys \union {ManifestKey} /\ HistoriesCommitted
      BY <1>0, <2>5, <3>1 DEF AtomicInv, StoreInv, SweepingSafe
    <3> QED
      BY <2>1, <3>2, StoredKept
  <2>6. Content' = Content
    BY <2>3, <2>5 DEF Content
  <2>7. AskedWhileWriting(s)' /\ WritesWhatIsAsked(s)'
    BY <1>0, <2>2, <2>4 DEF AskedWhileWriting, WritesWhatIsAsked
  <2>8. AtomicInv'
    BY <1>0, <2>3, <2>4, <2>5, <2>7, AloneKept
  <2>9. Asked' = Asked
    BY <1>0, <2>2, <2>3, AskedStep
  <2> QED
    BY <2>6, <2>8, <2>9, StutterStep
<1>8. ASSUME NEW s \in Stores, Finish(s)
      PROVE  AtomicInv' /\ [Atomic!Next]_(Atomic!vars)
  <2>1. /\ op[s].phase \in {"sweeping", "cleaning", "clearing"} /\ op[s].stale = {}
        /\ op' = [op EXCEPT ![s] = Idle] /\ disk' = disk
        /\ torn' = (torn /\ op[s].phase # "clearing")
    BY <1>8 DEF Finish
  <2>2. op'[s] = Idle /\ \A r \in Stores : r # s => op'[r].phase = "idle"
    BY <1>0, <2>1, OthersIdle
  <2>3. Idle.phase # "writing" /\ Idle.want = Nothing /\ op[s].want = Nothing
    BY <1>0, <2>1 DEF Idle, AskedWhileWriting
  <2>4. CASE op[s].phase # "clearing"
    <3>1. torn' = torn
      BY <1>0, <2>1, <2>4 DEF TypeOK
    <3> QED
      BY <2>1, <2>2, <2>3, <3>1, <1>4
  <2>5. CASE op[s].phase = "clearing"
    <3>1. torn /\ ~torn'
      BY <1>0, <2>1, <2>5 DEF StoreInv, ClearingSafe
    <3>2. DOMAIN disk = {}
      BY <1>0, <2>1, <2>5 DEF StoreInv, ClearingSafe
    <3>3. Manifest' = NoThreads
      BY <2>1, <3>2 DEF Manifest
    <3>4. HistoriesCommitted'
      BY <3>3 DEF HistoriesCommitted, NoThreads
    <3>5. AskedWhileWriting(s)' /\ WritesWhatIsAsked(s)'
      BY <2>2, <2>3 DEF AskedWhileWriting, WritesWhatIsAsked
    <3>6. AtomicInv'
      BY <1>0, <2>1, <2>2, <3>4, <3>5, AloneKept
    <3>7. Content = Torn /\ Content' = Atomic!Empty
      BY <3>1, <3>3 DEF Content, Atomic!Empty, Stored, NoThreads
    <3>8. Asked' = Asked
      <4>1. Idle.want = op[s].want
        BY <2>3
      <4> QED
        BY <1>0, <2>1, <4>1, AskedStep
    <3>9. Atomic!EndClear
      BY <3>7, <3>8 DEF Atomic!EndClear, Content, Asked
    <3> QED
      BY <3>6, <3>9 DEF Atomic!Next
  <2> QED
    BY <2>4, <2>5
<1>9. ASSUME NEW s \in Stores, Abort(s)
      PROVE  AtomicInv' /\ [Atomic!Next]_(Atomic!vars)
  <2>1. /\ op[s].phase # "idle" /\ op' = [op EXCEPT ![s] = Idle]
        /\ disk' = disk /\ torn' = torn
    BY <1>9 DEF Abort
  <2>2. op'[s] = Idle /\ \A r \in Stores : r # s => op'[r].phase = "idle"
    BY <1>0, <2>1, OthersIdle
  <2>3. Idle.phase # "writing" /\ Idle.want = Nothing
    BY DEF Idle
  <2>4. CASE op[s].phase # "writing"
    <3>1. op[s].want = Nothing
      BY <1>0, <2>4 DEF AskedWhileWriting
    <3> QED
      BY <2>1, <2>2, <2>3, <3>1, <1>4
  <2>5. CASE op[s].phase = "writing"
    <3>1. AskedWhileWriting(s)' /\ WritesWhatIsAsked(s)'
      BY <2>2, <2>3 DEF AskedWhileWriting, WritesWhatIsAsked
    <3>2. AtomicInv'
      BY <1>0, <2>1, <2>2, <3>1, SameContent, AloneKept DEF AtomicInv
    <3>3. op[s].want \in [Threads -> Contents \union {Absent}]
      BY <1>0, <2>5 DEF AskedWhileWriting
    <3>4. Asked[s] # Nothing /\ Asked' = [Asked EXCEPT ![s] = Nothing]
      BY <1>0, <2>1, <2>3, <3>3, AskedStep, WantedType
    <3>5. Content' = Content
      BY <2>1, SameContent
    <3>6. Atomic!GiveUp(s)
      BY <3>4, <3>5 DEF Atomic!GiveUp, Content, Asked
    <3> QED
      BY <3>2, <3>6 DEF Atomic!Next
  <2> QED
    BY <2>4, <2>5
<1>10. CASE UNCHANGED vars
  <2>1. op' = op /\ disk' = disk /\ torn' = torn
    BY <1>10 DEF vars
  <2>2. AtomicInv'
    BY <1>0, <2>1, SameContent DEF AtomicInv, AskedWhileWriting, WritesWhatIsAsked
  <2>3. Asked' = Asked
    BY <2>1 DEF Asked
  <2> QED
    BY <2>1, <2>2, <2>3, SameContent, StutterStep
<1> QED
  BY <1>1, <1>2, <1>3, <1>5, <1>6, <1>7, <1>8, <1>9, <1>10 DEF Next

\* With truthful hints, and where the lock excludes other stores, the chunked
\* store implements the atomic one: a save commits exactly the projection it
\* was given, all conversations at one instant, or nothing, wherever it fails.
THEOREM AtomicSaves ==
    ASSUME Exclusive, HonestCallers
    PROVE  Spec => ImplementsAtomic
<1>1. Init => AtomicInv /\ Atomic!Init
  <2> SUFFICES ASSUME Init
               PROVE  AtomicInv /\ Atomic!Init
    OBVIOUS
  <2>1. TypeOK
    BY IdleOK DEF Init, TypeOK, Empty
  <2>2. \A s \in Stores : op[s].phase = "idle" /\ op[s].want = Nothing
    BY DEF Init, Idle
  <2>3. Manifest = NoThreads
    BY DEF Init, Empty, Manifest
  <2>4. StoreInv
    BY <2>1, <2>2, <2>3 DEF StoreInv, OneAtATime, WritingSafe, SweepingSafe, ClearingSafe,
        NoThreads, Sound, ReadableIn, RevisionsIn
  <2>5. AtomicInv
    BY <2>2, <2>3, <2>4 DEF AtomicInv, AskedWhileWriting, HistoriesCommitted,
        WritesWhatIsAsked, NoThreads
  <2>6. Content = Atomic!Empty
    BY <2>3 DEF Init, Content, Stored, NoThreads, Atomic!Empty
  <2>7. Asked = [s \in Stores |-> Nothing]
    BY <2>2, WantedType DEF Asked
  <2> QED
    BY <2>5, <2>6, <2>7 DEF Atomic!Init, Content, Asked
<1>2. AtomicInv /\ [Next]_vars => AtomicInv' /\ [Atomic!Next]_(Atomic!vars)
  BY AtomicStep
<1> QED
  BY <1>1, <1>2, PTL DEF Spec, ImplementsAtomic, Atomic!Spec
=============================================================================
