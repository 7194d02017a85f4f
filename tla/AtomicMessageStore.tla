------------------------ MODULE AtomicMessageStore ------------------------
(***************************************************************************)
(* What the encrypted message store promises the secure client             *)
(* (packages/volna-messaging-client/README.md, "Encrypted local history    *)
(* and search"): a save replaces the whole committed projection at one     *)
(* instant or leaves it as it was, whatever fails on the way.  A content   *)
(* is, for each thread, the sequence of its record chunks, or Absent.      *)
(*                                                                         *)
(* The promise does not hold across an unfinished clear(): from its first  *)
(* removal to the end of a completed clear the content is Torn.            *)
(***************************************************************************)
CONSTANTS
    Stores,     \* store objects opened on the same database and scope
    Threads,    \* threads that may be persisted
    Values,     \* what one thread may hold
    Absent,     \* the thread is not in the manifest
    Torn,       \* the content of a store whose clear has not completed
    Nothing     \* no save is under way

VARIABLES
    content,    \* the committed projection
    asked       \* the projection each store is about to commit

vars == <<content, asked>>

Projections == [Threads -> Values \union {Absent}]
Empty == [t \in Threads |-> Absent]

TypeOK ==
    /\ content \in Projections \union {Torn}
    /\ asked \in [Stores -> Projections \union {Nothing}]

Init ==
    /\ content = Empty
    /\ asked = [s \in Stores |-> Nothing]

Ask(s, c) ==
    /\ asked[s] = Nothing
    /\ asked' = [asked EXCEPT ![s] = c]
    /\ UNCHANGED content

Commit(s) ==
    /\ asked[s] # Nothing
    /\ content' = IF content = Torn THEN Torn ELSE asked[s]
    /\ asked' = [asked EXCEPT ![s] = Nothing]

GiveUp(s) ==
    /\ asked[s] # Nothing
    /\ asked' = [asked EXCEPT ![s] = Nothing]
    /\ UNCHANGED content

BeginClear ==
    /\ content' = Torn
    /\ UNCHANGED asked

EndClear ==
    /\ content = Torn
    /\ content' = Empty
    /\ UNCHANGED asked

Next ==
    \/ \E s \in Stores :
        \/ \E c \in Projections : Ask(s, c)
        \/ Commit(s)
        \/ GiveUp(s)
    \/ BeginClear
    \/ EndClear

Spec == Init /\ [][Next]_vars
=============================================================================
