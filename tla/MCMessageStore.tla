-------------------------- MODULE MCMessageStore --------------------------
(***************************************************************************)
(* The store refines the atomic one on two threads with chunks of one      *)
(* record, and on one thread with chunks of two and more histories.  A     *)
(* behaviour moves one of the two instances, chosen at its start.          *)
(***************************************************************************)
EXTENDS MessageStore, TLC

CONSTANTS a, b, s1

VARIABLES longer, disk2, op2, torn2

TwoThreads == {1, 2}
\* No record, and one chunk of one record.
FewContents == {<<>>, <<a>>}

\* Empty, a partial chunk, a full chunk, a full chunk and its extension, and
\* the same lengths with other records: reuse, rewrite, growth and shrinking.
ManyContents == {<<>>, <<a>>, <<a, a>>, <<a, a, b>>, <<b, a, b>>}

Long == INSTANCE MessageStore WITH
    Threads <- {1}, Records <- {a, b}, Contents <- ManyContents, ChunkSize <- 2,
    disk <- disk2, op <- op2, torn <- torn2

BothInit == longer \in BOOLEAN /\ Init /\ Long!Init

BothNext ==
    /\ UNCHANGED longer
    /\ \/ ~longer /\ Next /\ UNCHANGED <<disk2, op2, torn2>>
       \/ longer /\ Long!Next /\ UNCHANGED vars

BothSpec == BothInit /\ [][BothNext]_<<longer, vars, disk2, op2, torn2>>

\* The store of one thread and long histories is the atomic one, too: chunks
\* are reused, rewritten and appended to as if a save was one step.
LongImplementsAtomic == Long!ImplementsAtomic
=============================================================================
