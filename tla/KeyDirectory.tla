-------------------------- MODULE KeyDirectory --------------------------
(***************************************************************************)
(* The directory of one account's devices as its clients come to trust it: *)
(* getDirectory of                                                         *)
(* packages/volna-messaging-client/src/opaque-transport.mjs with its       *)
(* quorum of semantic witnesses, observe of key-directory-witness.mjs over *)
(* the store of packages/volna-key-directory-witness, and                  *)
(* pinDirectoryVerification of mls-runtime.mjs.                            *)
(*                                                                         *)
(* The service is external and may present any of a set of directories to  *)
(* anybody at any time.  A witness runs in several instances over one      *)
(* store; an observation reads the store, signs, and compares and swaps.   *)
(* An entry's hash covers all entries before it, so that a head stands for *)
(* the list that leads there, and signatures hold what they say.  The age  *)
(* of a statement is abstracted: a client may refuse any for it.           *)
(***************************************************************************)
EXTENDS Integers, Sequences, FiniteSets

CONSTANTS
    Witnesses,
    Clients,
    Identities,     \* account identity keys
    Entries,        \* hashes of directory entries
    Directories,    \* the directories the service may present
    NoDirectory,
    Threshold,      \* statements a client needs
    MaxAttempts,    \* compare-and-swaps of an observation (16 in the code)
    MaxFetches      \* bound on the fetches of all clients

Directory == [identity : Identities, entries : Seq(Entries)]

ASSUME DirectoriesAssumption == Directories \subseteq Directory /\ NoDirectory \notin Directory
ASSUME LimitsAssumption ==
    Threshold \in Nat \ {0} /\ MaxAttempts \in Nat \ {0} /\ MaxFetches \in Nat

VARIABLES
    witnessed,  \* each witness's store: a revision and the directory it has signed last
    signed,     \* the directories whose statement each witness has stored, ever
    observing,  \* each client's observation at each witness
    fetch,      \* each client's getDirectory
    fetches,    \* how many there were
    pinned,     \* each client's chain in memory ...
    storedPin,  \* ... and in its stored state
    accepted    \* the directories that clients accepted, ever

directoryVars == <<witnessed, signed, observing, fetch, fetches, pinned, storedPin, accepted>>
-----------------------------------------------------------------------------
\* Every entry of the older list is at its place in the newer one.
Extends(newer, older) ==
    /\ newer.identity = older.identity
    /\ Len(older.entries) <= Len(newer.entries)
    /\ \A i \in 1 .. Len(older.entries) : newer.entries[i] = older.entries[i]

\* mutated: a shorter list passes
MutContinues(directory, known) ==
    known # NoDirectory =>
        /\ directory.identity = known.identity
        /\ \A i \in DOMAIN directory.entries \intersect DOMAIN known.entries :
            directory.entries[i] = known.entries[i]
Continues(directory, known) == known # NoDirectory => Extends(directory, known)

Row == [revision : Nat, directory : Directories \union {NoDirectory}]
NoRow == [revision |-> 0, directory |-> NoDirectory]

Unasked == [at |-> "none", directory |-> NoDirectory, attempts |-> 0, read |-> 0]
Observation ==
    [at : {"none", "load", "swap", "answer"}, directory : Directories \union {NoDirectory},
     attempts : Nat, read : Nat]

\* What a fetch has: the directory presented, the witnesses it waits for,
\* those whose statements it has, and what each witness had signed before.
NotFetching ==
    [directory |-> NoDirectory, waiting |-> {}, statements |-> {},
     before |-> [w \in Witnesses |-> {}]]
Fetching ==
    [directory : Directories \union {NoDirectory}, waiting : SUBSET Witnesses,
     statements : SUBSET Witnesses, before : [Witnesses -> SUBSET Directories]]

Acceptance ==
    [directory : Directories, quorum : SUBSET Witnesses,
     before : [Witnesses -> SUBSET Directories]]

DirectoryInit ==
    /\ witnessed = [w \in Witnesses |-> NoRow]
    /\ signed = [w \in Witnesses |-> {}]
    /\ observing = [c \in Clients |-> [w \in Witnesses |-> Unasked]]
    /\ fetch = [c \in Clients |-> NotFetching]
    /\ fetches = 0
    /\ pinned = [c \in Clients |-> NoDirectory]
    /\ storedPin = [c \in Clients |-> NoDirectory]
    /\ accepted = {}
-----------------------------------------------------------------------------
(* The client.  *)

\* getDirectory: a directory is presented and sent to every witness.  (The
\* observations of an earlier fetch have come to their end.)
Fetch(c) ==
    /\ fetch[c].directory = NoDirectory
    /\ fetches < MaxFetches
    /\ fetches' = fetches + 1
    /\ observing[c] = [w \in Witnesses |-> Unasked]
    /\ \E d \in Directories :
        /\ fetch' = [fetch EXCEPT ![c] =
                [directory |-> d, waiting |-> Witnesses, statements |-> {},
                 before |-> signed]]
        /\ observing' = [observing EXCEPT ![c] =
                [w \in Witnesses |->
                    [at |-> "load", directory |-> d, attempts |-> 0, read |-> 0]]]
    /\ UNCHANGED <<witnessed, signed, pinned, storedPin, accepted>>

EndFetch(c) == fetch' = [fetch EXCEPT ![c] = NotFetching]

\* A statement for the directory that was asked for is counted.  With a quorum
\* the directory is pinned, unless it is shorter than the pinned chain, differs
\* from it or has another identity.
Counted(c, w) ==
    LET d == fetch[c].directory
        statements == fetch[c].statements \union {w}
    IN  IF Cardinality(statements) < Threshold
        THEN /\ fetch' = [fetch EXCEPT
                    ![c].waiting = @ \ {w}, ![c].statements = statements]
             /\ UNCHANGED <<pinned, accepted>>
        ELSE /\ EndFetch(c)
             /\ IF Continues(d, pinned[c])
                THEN /\ pinned' = [pinned EXCEPT ![c] = d]
                     /\ accepted' = accepted \union
                            {[directory |-> d, quorum |-> statements, before |-> fetch[c].before]}
                ELSE UNCHANGED <<pinned, accepted>>

\* The fetch goes on without a witness, or fails when too few are left.
DoWithout(c, w) ==
    LET waiting == fetch[c].waiting \ {w}
    IN  IF Cardinality(fetch[c].statements) + Cardinality(waiting) < Threshold
        THEN EndFetch(c)
        ELSE fetch' = [fetch EXCEPT ![c].waiting = waiting]

\* The witness's answer arrives, and counts if it is awaited and young enough.
Answer(c, w) ==
    /\ observing[c][w].at = "answer"
    /\ observing' = [observing EXCEPT ![c][w] = Unasked]
    /\ IF w \in fetch[c].waiting
       THEN \/ Counted(c, w)
            \/ DoWithout(c, w) /\ UNCHANGED <<pinned, accepted>>
       ELSE UNCHANGED <<fetch, pinned, accepted>>
    /\ UNCHANGED <<witnessed, signed, fetches, storedPin>>

\* requestTimeoutMs runs out; the witness may still be at work.
Deadline(c, w) ==
    /\ w \in fetch[c].waiting
    /\ DoWithout(c, w)
    /\ UNCHANGED <<witnessed, signed, observing, fetches, pinned, storedPin, accepted>>

\* The runtime's state is stored, with everything else the client keeps.
SavePins(c) ==
    /\ storedPin' = [storedPin EXCEPT ![c] = pinned[c]]
    /\ UNCHANGED <<witnessed, signed, observing, fetch, fetches, pinned, accepted>>

\* The client starts again from what was stored; its requests are on their way.
RestartClient(c) ==
    /\ EndFetch(c)
    /\ pinned' = [pinned EXCEPT ![c] = storedPin[c]]
    /\ UNCHANGED <<witnessed, signed, observing, fetches, storedPin, accepted>>
-----------------------------------------------------------------------------
(* A witness, for a client's request.  *)

\* An observation ends without a statement: the request or the answer is lost,
\* the instance has no capacity or stops, the store fails, or it is refused.
Drop(c, w) ==
    /\ observing[c][w].at # "none"
    /\ observing' = [observing EXCEPT ![c][w] = Unasked]
    /\ IF w \in fetch[c].waiting THEN DoWithout(c, w) ELSE UNCHANGED fetch
    /\ UNCHANGED <<witnessed, signed, fetches, pinned, storedPin, accepted>>

\* The stored state is read; another identity (identity_changed), fewer entries
\* (rollback) or other entries (split_view) are refused.
Load(c, w) ==
    LET row == witnessed[w]
    IN  /\ observing[c][w].at = "load"
        /\ Continues(observing[c][w].directory, row.directory)
        /\ observing' = [observing EXCEPT
               ![c][w].at = "swap", ![c][w].read = row.revision]
        /\ UNCHANGED <<witnessed, signed, fetch, fetches, pinned, storedPin, accepted>>

\* mutated: the row is written whatever it has become
MutSwap(c, w) ==
    LET o == observing[c][w]
    IN  /\ o.at = "swap"
        /\ witnessed' = [witnessed EXCEPT ![w] =
               [revision |-> o.read + 1, directory |-> o.directory]]
        /\ signed' = [signed EXCEPT ![w] = @ \union {o.directory}]
        /\ observing' = [observing EXCEPT ![c][w] = [Unasked EXCEPT
               !.at = "answer", !.directory = o.directory]]
        /\ UNCHANGED <<fetch, fetches, pinned, storedPin, accepted>>

\* The statement is stored and answered if the row is still the one that was
\* read (an INSERT without conflict, or an UPDATE of that revision).  A lost
\* race starts over, the last one gives up (store_contention).
Swap(c, w) ==
    LET o == observing[c][w]
    IN  /\ o.at = "swap"
        /\ \/ /\ witnessed[w].revision = o.read
              /\ witnessed' = [witnessed EXCEPT ![w] =
                     [revision |-> o.read + 1, directory |-> o.directory]]
              /\ signed' = [signed EXCEPT ![w] = @ \union {o.directory}]
              /\ observing' = [observing EXCEPT ![c][w] = [Unasked EXCEPT
                     !.at = "answer", !.directory = o.directory]]
           \/ /\ witnessed[w].revision # o.read
              /\ o.attempts + 1 < MaxAttempts
              /\ observing' = [observing EXCEPT ![c][w] =
                     [at |-> "load", directory |-> o.directory,
                      attempts |-> o.attempts + 1, read |-> 0]]
              /\ UNCHANGED <<witnessed, signed>>
        /\ UNCHANGED <<fetch, fetches, pinned, storedPin, accepted>>
-----------------------------------------------------------------------------
DirectoryNext ==
    \E c \in Clients :
        \/ Fetch(c) \/ SavePins(c) \/ RestartClient(c)
        \/ \E w \in Witnesses :
            \/ Answer(c, w) \/ Deadline(c, w)
            \/ Drop(c, w) \/ Load(c, w) \/ Swap(c, w)

DirectorySpec == DirectoryInit /\ [][DirectoryNext]_directoryVars
-----------------------------------------------------------------------------
DirectoryTypeOK ==
    /\ witnessed \in [Witnesses -> Row]
    /\ signed \in [Witnesses -> SUBSET Directories]
    /\ observing \in [Clients -> [Witnesses -> Observation]]
    /\ fetch \in [Clients -> Fetching]
    /\ fetches \in Nat
    /\ pinned \in [Clients -> Directories \union {NoDirectory}]
    /\ storedPin \in [Clients -> Directories \union {NoDirectory}]
    /\ accepted \subseteq Acceptance

Agree(d, e) == Extends(d, e) \/ Extends(e, d)

\* Concurrent forks cannot both win: whatever one witness ever signed, in any
\* of its instances, is one list at different lengths.
ForksCannotBothWin == \A w \in Witnesses : \A d, e \in signed[w] : Agree(d, e)

\* Clients whose quorums have a witness in common never accept directories that
\* disagree, nor does one client before and after a restart that lost its pin.
ClientsAgree ==
    \A a, b \in accepted : a.quorum \intersect b.quorum # {} => Agree(a.directory, b.directory)

\* A directory that a client accepts extends all that each witness of its
\* quorum had signed for anybody before the client asked: it is not an old one.
AcceptedIsFresh ==
    \A a \in accepted : \A w \in a.quorum : \A d \in a.before[w] : Extends(a.directory, d)
=============================================================================
