------------------------ MODULE OutboxDirectoryProofs ------------------------
(***************************************************************************)
(* Proofs about the key directory and its monitor, for any number of       *)
(* witnesses, clients and directories: what a witness signs is one growing *)
(* list, what clients accept on the word of witnesses they share is of     *)
(* that list and not older than their asking, and observers lose no        *)
(* evidence.  Then proofs about MatrixOutbox, for any set of messages,     *)
(* queue limit, and with or without faults.  The two share no definition.  *)
(***************************************************************************)
EXTENDS MatrixOutbox, DirectoryGossip, TLAPS

-----------------------------------------------------------------------------
(* What a witness has stored extends all that it has signed.  *)
Rows ==
    \A w \in Witnesses :
        /\ witnessed[w].directory = NoDirectory => signed[w] = {}
        /\ \A d \in signed[w] : Extends(witnessed[w].directory, d)

\* A swap that can succeed extends the row it replaces.
Observations ==
    \A c \in Clients, w \in Witnesses :
        /\ observing[c][w].at # "none" => observing[c][w].directory \in Directories
        /\ observing[c][w].at = "swap" =>
            /\ observing[c][w].read <= witnessed[w].revision
            /\ observing[c][w].read = witnessed[w].revision =>
                Continues(observing[c][w].directory, witnessed[w].directory)
        /\ observing[c][w].at = "answer" => observing[c][w].directory \in signed[w]

\* An awaited observation is of the directory that was fetched; an answer to
\* it, come or counted, is newer than what was signed before.
Fresh(d, w, before) == d \in signed[w] /\ \A e \in before[w] : Extends(d, e)

Fetches ==
    \A c \in Clients, w \in Witnesses :
        /\ fetch[c].before[w] \subseteq signed[w]
        /\ w \in fetch[c].waiting =>
            /\ fetch[c].directory \in Directories
            /\ observing[c][w].at # "none" => observing[c][w].directory = fetch[c].directory
            /\ observing[c][w].at = "answer" => Fresh(fetch[c].directory, w, fetch[c].before)
        /\ w \in fetch[c].statements => Fresh(fetch[c].directory, w, fetch[c].before)

Acceptances == \A a \in accepted : \A w \in a.quorum : Fresh(a.directory, w, a.before)

IInv == DirectoryTypeOK /\ Rows /\ Observations /\ Fetches /\ Acceptances

-----------------------------------------------------------------------------
(* Lists that extend each other.  *)

LEMMA ExtendsItself == ASSUME NEW d \in Directories PROVE Extends(d, d)
BY DirectoriesAssumption DEF Extends, Directory

LEMMA ExtendsOn ==
    ASSUME NEW d \in Directories, NEW e \in Directories, NEW f \in Directories,
           Extends(d, e), Extends(e, f)
    PROVE  Extends(d, f)
<1>1. /\ d.entries \in Seq(Entries) /\ e.entries \in Seq(Entries) /\ f.entries \in Seq(Entries)
      /\ Len(d.entries) \in Nat /\ Len(e.entries) \in Nat /\ Len(f.entries) \in Nat
  BY DirectoriesAssumption DEF Directory
<1>2. Len(f.entries) <= Len(d.entries) /\ f.identity = d.identity
  BY <1>1 DEF Extends
<1>3. ASSUME NEW i \in 1 .. Len(f.entries) PROVE d.entries[i] = f.entries[i]
  <2>1. i \in 1 .. Len(e.entries) BY <1>1 DEF Extends
  <2> QED BY <2>1 DEF Extends
<1> QED BY <1>2, <1>3 DEF Extends

\* Two parts of one list agree: the shorter is the beginning of the longer.
LEMMA PartsAgree ==
    ASSUME NEW d \in Directories, NEW e \in Directories, NEW f \in Directories,
           Extends(f, d), Extends(f, e)
    PROVE  Agree(d, e)
<1>1. /\ d.entries \in Seq(Entries) /\ e.entries \in Seq(Entries) /\ f.entries \in Seq(Entries)
      /\ Len(d.entries) \in Nat /\ Len(e.entries) \in Nat /\ Len(f.entries) \in Nat
  BY DirectoriesAssumption DEF Directory
<1>2. CASE Len(d.entries) <= Len(e.entries)
  <2>1. ASSUME NEW i \in 1 .. Len(d.entries) PROVE e.entries[i] = d.entries[i]
    <3>1. i \in 1 .. Len(e.entries) BY <1>1, <1>2
    <3> QED BY <3>1 DEF Extends
  <2> QED BY <1>2, <2>1 DEF Extends, Agree
<1>3. CASE Len(e.entries) <= Len(d.entries)
  <2>1. ASSUME NEW i \in 1 .. Len(e.entries) PROVE d.entries[i] = e.entries[i]
    <3>1. i \in 1 .. Len(d.entries) BY <1>1, <1>3
    <3> QED BY <3>1 DEF Extends
  <2> QED BY <1>3, <2>1 DEF Extends, Agree
<1> QED BY <1>1, <1>2, <1>3

-----------------------------------------------------------------------------
(* The steps of a fetch.  *)

LEMMA InitOK == DirectoryInit => IInv
<1> SUFFICES ASSUME DirectoryInit PROVE IInv OBVIOUS
<1> USE DEF DirectoryInit
<1>1. DirectoryTypeOK
  BY DEF DirectoryTypeOK, NoRow, Row, Unasked, Observation, NotFetching, Fetching, Acceptance
<1>2. Rows BY DEF Rows
<1>3. Observations BY DEF Observations, Unasked
<1>4. Fetches BY DEF Fetches, NotFetching
<1>5. Acceptances BY DEF Acceptances
<1> QED BY <1>1, <1>2, <1>3, <1>4, <1>5 DEF IInv

LEMMA RestingFetch == NotFetching \in Fetching
BY DEF NotFetching, Fetching

LEMMA RestingObservation == Unasked \in Observation /\ Unasked.at = "none"
BY DEF Unasked, Observation

LEMMA FetchOK == ASSUME IInv, NEW c \in Clients, Fetch(c) PROVE IInv'
<1> USE DEF IInv
<1> PICK d \in Directories :
        /\ fetch' = [fetch EXCEPT ![c] =
                [directory |-> d, waiting |-> Witnesses, statements |-> {}, before |-> signed]]
        /\ observing' = [observing EXCEPT ![c] =
                [w \in Witnesses |->
                    [at |-> "load", directory |-> d, attempts |-> 0, read |-> 0]]]
  BY DEF Fetch
<1>0. /\ fetches' = fetches + 1
      /\ UNCHANGED <<witnessed, signed, pinned, storedPin, accepted>>
  BY DEF Fetch
<1>1. DirectoryTypeOK'
  <2>1. [directory |-> d, waiting |-> Witnesses, statements |-> {}, before |-> signed] \in Fetching
    BY DEF DirectoryTypeOK, Fetching
  <2>2. [at |-> "load", directory |-> d, attempts |-> 0, read |-> 0] \in Observation
    BY DEF Observation
  <2> QED BY <1>0, <2>1, <2>2 DEF DirectoryTypeOK
<1>2. Rows' BY <1>0 DEF Rows
<1>3. Observations' BY <1>0 DEF Observations, DirectoryTypeOK
<1>4. Fetches'
  BY <1>0 DEF Fetches, Fresh, DirectoryTypeOK
<1>5. Acceptances' BY <1>0 DEF Acceptances, Fresh
<1> QED BY <1>1, <1>2, <1>3, <1>4, <1>5

\* A fetch that goes on with less, beside observations that end.
LEMMA LessFetched ==
    ASSUME IInv, NEW c \in Clients, NEW w \in Witnesses,
           \/ fetch' = fetch
           \/ DoWithout(c, w)
           \/ EndFetch(c),
           observing' = observing \/ observing' = [observing EXCEPT ![c][w] = Unasked],
           UNCHANGED <<witnessed, signed>>
    PROVE  /\ Rows' /\ Observations' /\ Fetches'
           /\ fetch' \in [Clients -> Fetching]
           /\ observing' \in [Clients -> [Witnesses -> Observation]]
<1> USE DEF IInv
<1>1. Rows' BY DEF Rows
<1>2. /\ observing' \in [Clients -> [Witnesses -> Observation]]
      /\ \A b \in Clients, v \in Witnesses :
            observing'[b][v] = observing[b][v] \/ observing'[b][v] = Unasked
  <2>1. CASE observing' = observing BY <2>1 DEF DirectoryTypeOK
  <2>2. CASE observing' = [observing EXCEPT ![c][w] = Unasked]
    BY <2>2, RestingObservation DEF DirectoryTypeOK
  <2> QED BY <2>1, <2>2
<1>3. Observations' BY <1>2, RestingObservation DEF Observations
<1>4. /\ fetch' \in [Clients -> Fetching]
      /\ \A b \in Clients :
            \/ fetch'[b] = NotFetching
            \/ /\ fetch'[b].directory = fetch[b].directory
               /\ fetch'[b].before = fetch[b].before
               /\ fetch'[b].waiting \subseteq fetch[b].waiting
               /\ fetch'[b].statements = fetch[b].statements
  <2>1. CASE fetch' = fetch BY <2>1 DEF DirectoryTypeOK
  <2>2. CASE EndFetch(c) BY <2>2, RestingFetch DEF EndFetch, DirectoryTypeOK
  <2>3. CASE fetch' = [fetch EXCEPT ![c].waiting = fetch[c].waiting \ {w}]
    <3> DEFINE less == [fetch[c] EXCEPT !.waiting = fetch[c].waiting \ {w}]
    <3>1. fetch[c] \in Fetching BY DEF DirectoryTypeOK
    <3>2. /\ less \in Fetching
          /\ less.directory = fetch[c].directory
          /\ less.before = fetch[c].before
          /\ less.waiting \subseteq fetch[c].waiting
          /\ less.statements = fetch[c].statements
      BY <3>1 DEF Fetching
    <3>3. fetch' = [fetch EXCEPT ![c] = less] BY <2>3
    <3> HIDE DEF less
    <3> QED BY <3>2, <3>3 DEF DirectoryTypeOK
  <2> QED BY <2>1, <2>2, <2>3 DEF DoWithout
<1>5. Fetches'
  BY <1>2, <1>4, RestingObservation DEF Fetches, Fresh, NotFetching
<1> QED BY <1>1, <1>2, <1>3, <1>4, <1>5

LEMMA AnswerOK ==
    ASSUME IInv, NEW c \in Clients, NEW w \in Witnesses, Answer(c, w) PROVE IInv'
<1> USE DEF IInv
<1>0. /\ observing[c][w].at = "answer"
      /\ observing' = [observing EXCEPT ![c][w] = Unasked]
      /\ UNCHANGED <<witnessed, signed, fetches, storedPin>>
  BY DEF Answer
<1>1. CASE ~(w \in fetch[c].waiting /\ Counted(c, w))
  <2>1. /\ fetch' = fetch \/ DoWithout(c, w)
        /\ UNCHANGED <<pinned, accepted>>
    BY <1>1 DEF Answer
  <2>2. Rows' /\ Observations' /\ Fetches'
        /\ fetch' \in [Clients -> Fetching]
        /\ observing' \in [Clients -> [Witnesses -> Observation]]
    BY <1>0, <2>1, LessFetched
  <2>3. DirectoryTypeOK' BY <1>0, <2>1, <2>2 DEF DirectoryTypeOK
  <2>4. Acceptances' BY <1>0, <2>1 DEF Acceptances, Fresh
  <2> QED BY <2>2, <2>3, <2>4
<1>2. CASE w \in fetch[c].waiting /\ Counted(c, w)
  <2> DEFINE d == fetch[c].directory
             statements == fetch[c].statements \union {w}
  <2>1. /\ d \in Directories
        /\ Fresh(d, w, fetch[c].before)
        /\ \A v \in statements : Fresh(d, v, fetch[c].before)
        /\ statements \subseteq Witnesses
        /\ fetch[c].before \in [Witnesses -> SUBSET Directories]
    BY <1>0, <1>2 DEF Fetches, DirectoryTypeOK, Fetching
  <2>2. CASE Cardinality(statements) < Threshold
    <3>1. /\ fetch' = [fetch EXCEPT ![c].waiting = @ \ {w}, ![c].statements = statements]
          /\ UNCHANGED <<pinned, accepted>>
      BY <1>2, <2>2 DEF Counted
    <3>2. /\ fetch' \in [Clients -> Fetching]
          /\ \A b \in Clients :
                /\ fetch'[b].directory = fetch[b].directory
                /\ fetch'[b].before = fetch[b].before
                /\ fetch'[b].waiting \subseteq fetch[b].waiting
                /\ fetch'[b].statements =
                    IF b = c THEN statements ELSE fetch[b].statements
      BY <2>1, <3>1 DEF DirectoryTypeOK, Fetching
    <3>3. /\ Rows' /\ Observations'
          /\ observing' \in [Clients -> [Witnesses -> Observation]]
          /\ \A b \in Clients, v \in Witnesses :
                observing'[b][v] = observing[b][v] \/ observing'[b][v] = Unasked
      BY <1>0, RestingObservation DEF Rows, Observations, DirectoryTypeOK
    <3>4. DirectoryTypeOK' BY <1>0, <3>1, <3>2, <3>3 DEF DirectoryTypeOK
    <3>5. Fetches'
      BY <1>0, <2>1, <3>2, <3>3, RestingObservation DEF Fetches, Fresh
    <3>6. Acceptances' BY <1>0, <3>1 DEF Acceptances, Fresh
    <3> QED BY <3>3, <3>4, <3>5, <3>6
  <2>3. CASE ~(Cardinality(statements) < Threshold)
    <3>1. /\ EndFetch(c)
          /\ \/ /\ pinned' = [pinned EXCEPT ![c] = d]
                /\ accepted' = accepted \union
                    {[directory |-> d, quorum |-> statements, before |-> fetch[c].before]}
             \/ UNCHANGED <<pinned, accepted>>
      BY <1>2, <2>3 DEF Counted
    <3>2. Rows' /\ Observations' /\ Fetches'
          /\ fetch' \in [Clients -> Fetching]
          /\ observing' \in [Clients -> [Witnesses -> Observation]]
      BY <1>0, <3>1, LessFetched
    <3>3. [directory |-> d, quorum |-> statements, before |-> fetch[c].before] \in Acceptance
      BY <2>1 DEF Acceptance
    <3>4. DirectoryTypeOK' BY <1>0, <2>1, <3>1, <3>2, <3>3 DEF DirectoryTypeOK
    <3>5. Acceptances' BY <1>0, <2>1, <3>1 DEF Acceptances, Fresh
    <3> QED BY <3>2, <3>4, <3>5
  <2> QED BY <2>2, <2>3
<1> QED BY <1>1, <1>2

LEMMA QuietOK ==
    ASSUME IInv, NEW c \in Clients, NEW w \in Witnesses,
           Deadline(c, w) \/ Drop(c, w) \/ SavePins(c) \/ RestartClient(c)
    PROVE  IInv'
<1> USE DEF IInv
<1>1. /\ fetch' = fetch \/ DoWithout(c, w) \/ EndFetch(c)
      /\ observing' = observing \/ observing' = [observing EXCEPT ![c][w] = Unasked]
      /\ UNCHANGED <<witnessed, signed, fetches, accepted>>
  BY DEF Deadline, Drop, SavePins, RestartClient
<1>2. Rows' /\ Observations' /\ Fetches'
      /\ fetch' \in [Clients -> Fetching]
      /\ observing' \in [Clients -> [Witnesses -> Observation]]
  BY <1>1, LessFetched
<1>3. /\ pinned' \in [Clients -> Directories \union {NoDirectory}]
      /\ storedPin' \in [Clients -> Directories \union {NoDirectory}]
  BY DEF Deadline, Drop, SavePins, RestartClient, DirectoryTypeOK
<1>4. DirectoryTypeOK' BY <1>1, <1>2, <1>3 DEF DirectoryTypeOK
<1>5. Acceptances' BY <1>1 DEF Acceptances, Fresh
<1> QED BY <1>2, <1>4, <1>5

-----------------------------------------------------------------------------
(* The steps of a witness.  *)

LEMMA LoadOK ==
    ASSUME IInv, NEW c \in Clients, NEW w \in Witnesses, Load(c, w) PROVE IInv'
<1> USE DEF IInv
<1>0. /\ observing[c][w].at = "load"
      /\ Continues(observing[c][w].directory, witnessed[w].directory)
      /\ observing' = [observing EXCEPT
            ![c][w].at = "swap", ![c][w].read = witnessed[w].revision]
      /\ UNCHANGED <<witnessed, signed, fetch, fetches, pinned, storedPin, accepted>>
  BY DEF Load
<1>1. /\ witnessed[w].revision \in Nat
      /\ observing[c][w] \in Observation
  BY DEF DirectoryTypeOK, Row
<1>2. /\ observing' \in [Clients -> [Witnesses -> Observation]]
      /\ \A b \in Clients, v \in Witnesses :
            IF b = c /\ v = w
            THEN /\ observing'[b][v].at = "swap"
                 /\ observing'[b][v].read = witnessed[w].revision
                 /\ observing'[b][v].directory = observing[c][w].directory
            ELSE observing'[b][v] = observing[b][v]
  BY <1>0, <1>1 DEF DirectoryTypeOK, Observation
<1>3. DirectoryTypeOK' BY <1>0, <1>2 DEF DirectoryTypeOK
<1>4. Rows' BY <1>0 DEF Rows
<1>5. Observations' BY <1>0, <1>1, <1>2 DEF Observations, Continues
<1>6. Fetches' BY <1>0, <1>2 DEF Fetches, Fresh
<1>7. Acceptances' BY <1>0 DEF Acceptances, Fresh
<1> QED BY <1>3, <1>4, <1>5, <1>6, <1>7

\* The swap that succeeds: what it stores extends all that was signed.
LEMMA SignedOK ==
    ASSUME IInv, NEW c \in Clients, NEW w \in Witnesses,
           observing[c][w].at = "swap",
           witnessed[w].revision = observing[c][w].read,
           witnessed' = [witnessed EXCEPT ![w] =
                [revision |-> observing[c][w].read + 1, directory |-> observing[c][w].directory]],
           signed' = [signed EXCEPT ![w] = @ \union {observing[c][w].directory}],
           observing' = [observing EXCEPT ![c][w] = [Unasked EXCEPT
                !.at = "answer", !.directory = observing[c][w].directory]],
           UNCHANGED <<fetch, fetches, pinned, storedPin, accepted>>
    PROVE  IInv'
<1> USE DEF IInv
<1> DEFINE d == observing[c][w].directory
<1>1. /\ d \in Directories /\ d # NoDirectory
      /\ Continues(d, witnessed[w].directory)
      /\ witnessed[w] \in Row /\ witnessed[w].revision \in Nat
      /\ observing[c][w].read = witnessed[w].revision
      /\ signed[w] \subseteq Directories
  BY DirectoriesAssumption DEF Observations, DirectoryTypeOK, Row
<1>2. \A e \in signed[w] : Extends(d, e)
  <2> SUFFICES ASSUME NEW e \in signed[w] PROVE Extends(d, e) OBVIOUS
  <2>1. witnessed[w].directory # NoDirectory /\ Extends(witnessed[w].directory, e) BY DEF Rows
  <2>2. witnessed[w].directory \in Directories BY <1>1, <2>1 DEF Row
  <2> QED BY <1>1, <2>1, <2>2, ExtendsOn DEF Continues
<1>3. Extends(d, d) BY <1>1, ExtendsItself
<1>4. /\ witnessed' \in [Witnesses -> Row]
      /\ \A v \in Witnesses :
            IF v = w
            THEN witnessed'[v].revision = witnessed[v].revision + 1 /\ witnessed'[v].directory = d
            ELSE witnessed'[v] = witnessed[v]
  BY <1>1 DEF DirectoryTypeOK, Row
<1>5. /\ signed' \in [Witnesses -> SUBSET Directories]
      /\ \A v \in Witnesses :
            signed'[v] = IF v = w THEN signed[v] \union {d} ELSE signed[v]
  BY <1>1 DEF DirectoryTypeOK
<1>6. [Unasked EXCEPT !.at = "answer", !.directory = d] \in Observation
  BY <1>1 DEF Unasked, Observation
<1>7. /\ observing' \in [Clients -> [Witnesses -> Observation]]
      /\ \A b \in Clients, v \in Witnesses :
            IF b = c /\ v = w
            THEN observing'[b][v].at = "answer" /\ observing'[b][v].directory = d
            ELSE observing'[b][v] = observing[b][v]
  BY <1>6 DEF DirectoryTypeOK, Unasked
<1>8. DirectoryTypeOK' BY <1>4, <1>5, <1>7 DEF DirectoryTypeOK
<1>9. Rows' BY <1>1, <1>2, <1>3, <1>4, <1>5 DEF Rows
<1>10. Observations'
  <2> SUFFICES ASSUME NEW b \in Clients, NEW v \in Witnesses
               PROVE  /\ observing'[b][v].at # "none" => observing'[b][v].directory \in Directories
                      /\ observing'[b][v].at = "swap" =>
                            /\ observing'[b][v].read <= witnessed'[v].revision
                            /\ observing'[b][v].read = witnessed'[v].revision =>
                                Continues(observing'[b][v].directory, witnessed'[v].directory)
                      /\ observing'[b][v].at = "answer" =>
                            observing'[b][v].directory \in signed'[v]
    BY DEF Observations, Continues, Extends
  <2>1. CASE b = c /\ v = w BY <1>1, <1>5, <1>7, <2>1
  <2>2. CASE ~(b = c /\ v = w)
    <3>1. observing'[b][v] = observing[b][v] /\ observing[b][v].read \in Nat
      BY <1>7, <2>2 DEF DirectoryTypeOK, Observation
    <3>2. CASE v = w
      <4>1. observing[b][v].at = "swap" => observing[b][v].read < witnessed'[v].revision
        BY <1>1, <1>4, <3>1, <3>2 DEF Observations
      <4> QED BY <1>1, <1>4, <1>5, <3>1, <3>2, <4>1 DEF Observations
    <3>3. CASE v # w BY <1>4, <1>5, <3>1, <3>3 DEF Observations
    <3> QED BY <3>2, <3>3
  <2> QED BY <2>1, <2>2
<1>11. Fetches'
  <2> SUFFICES ASSUME NEW b \in Clients, NEW v \in Witnesses
               PROVE  /\ fetch[b].before[v] \subseteq signed'[v]
                      /\ v \in fetch[b].waiting =>
                            /\ fetch[b].directory \in Directories
                            /\ observing'[b][v].at # "none" =>
                                observing'[b][v].directory = fetch[b].directory
                            /\ observing'[b][v].at = "answer" =>
                                /\ fetch[b].directory \in signed'[v]
                                /\ \A e \in fetch[b].before[v] : Extends(fetch[b].directory, e)
                      /\ v \in fetch[b].statements =>
                            /\ fetch[b].directory \in signed'[v]
                            /\ \A e \in fetch[b].before[v] : Extends(fetch[b].directory, e)
    BY DEF Fetches, Fresh
  <2>1. CASE b = c /\ v = w
    <3>1. v \in fetch[b].waiting => fetch[b].directory = d
      BY <1>1, <2>1 DEF Fetches
    <3> QED BY <1>2, <1>5, <1>7, <2>1, <3>1 DEF Fetches, Fresh
  <2>2. CASE ~(b = c /\ v = w) BY <1>5, <1>7, <2>2 DEF Fetches, Fresh
  <2> QED BY <2>1, <2>2
<1>12. Acceptances'
  BY <1>5 DEF Acceptances, Fresh, DirectoryTypeOK, Acceptance
<1> QED BY <1>8, <1>9, <1>10, <1>11, <1>12

LEMMA SwapOK ==
    ASSUME IInv, NEW c \in Clients, NEW w \in Witnesses, Swap(c, w) PROVE IInv'
<1> USE DEF IInv
<1>1. CASE witnessed[w].revision = observing[c][w].read
  BY <1>1, SignedOK DEF Swap
<1>2. CASE witnessed[w].revision # observing[c][w].read
  <2>0. /\ observing[c][w].at = "swap"
        /\ observing' = [observing EXCEPT ![c][w] =
              [at |-> "load", directory |-> observing[c][w].directory,
               attempts |-> observing[c][w].attempts + 1, read |-> 0]]
        /\ UNCHANGED <<witnessed, signed, fetch, fetches, pinned, storedPin, accepted>>
    BY <1>2 DEF Swap
  <2>1. observing[c][w] \in Observation BY DEF DirectoryTypeOK
  <2>2. /\ observing' \in [Clients -> [Witnesses -> Observation]]
        /\ \A b \in Clients, v \in Witnesses :
            IF b = c /\ v = w
            THEN /\ observing'[b][v].at = "load"
                 /\ observing'[b][v].directory = observing[c][w].directory
            ELSE observing'[b][v] = observing[b][v]
    <3> DEFINE again == [at |-> "load", directory |-> observing[c][w].directory,
                         attempts |-> observing[c][w].attempts + 1, read |-> 0]
    <3>1. /\ again \in Observation
          /\ again.at = "load"
          /\ again.directory = observing[c][w].directory
      BY <2>1 DEF Observation
    <3>2. observing' = [observing EXCEPT ![c][w] = again] BY <2>0
    <3> HIDE DEF again
    <3> QED BY <3>1, <3>2 DEF DirectoryTypeOK
  <2>3. DirectoryTypeOK' BY <2>0, <2>2 DEF DirectoryTypeOK
  <2>4. Rows' BY <2>0 DEF Rows
  <2>5. Observations' BY <2>0, <2>2 DEF Observations, Continues
  <2>6. Fetches' BY <2>0, <2>2 DEF Fetches, Fresh
  <2>7. Acceptances' BY <2>0 DEF Acceptances, Fresh
  <2> QED BY <2>3, <2>4, <2>5, <2>6, <2>7
<1> QED BY <1>1, <1>2

-----------------------------------------------------------------------------
LEMMA StepOK == IInv /\ [DirectoryNext]_directoryVars => IInv'
<1> SUFFICES ASSUME IInv, [DirectoryNext]_directoryVars PROVE IInv' OBVIOUS
<1>1. ASSUME NEW c \in Clients, Fetch(c) PROVE IInv' BY <1>1, FetchOK
<1>2. ASSUME NEW c \in Clients, NEW w \in Witnesses, Answer(c, w) PROVE IInv'
  BY <1>2, AnswerOK
<1>3. ASSUME NEW c \in Clients, NEW w \in Witnesses, Deadline(c, w) \/ Drop(c, w) PROVE IInv'
  BY <1>3, QuietOK
<1>4. ASSUME NEW c \in Clients, NEW w \in Witnesses, Load(c, w) PROVE IInv' BY <1>4, LoadOK
<1>5. ASSUME NEW c \in Clients, NEW w \in Witnesses, Swap(c, w) PROVE IInv' BY <1>5, SwapOK
<1>6. ASSUME NEW c \in Clients, SavePins(c) \/ RestartClient(c) PROVE IInv'
  <2>1. CASE Witnesses # {} BY <1>6, <2>1, QuietOK
  <2>2. CASE Witnesses = {}
    <3>1. /\ DirectoryTypeOK'
          /\ UNCHANGED accepted
      BY <1>6, RestingFetch DEF SavePins, RestartClient, EndFetch, IInv, DirectoryTypeOK
    <3>2. Acceptances'
      BY <2>2, <3>1 DEF Acceptances, IInv, DirectoryTypeOK, Acceptance
    <3> QED BY <2>2, <3>1, <3>2 DEF IInv, Rows, Observations, Fetches
  <2> QED BY <2>1, <2>2
<1>7. CASE UNCHANGED directoryVars
  BY <1>7 DEF directoryVars, IInv, DirectoryTypeOK, Rows, Observations, Fetches, Acceptances, Fresh
<1> QED BY <1>1, <1>2, <1>3, <1>4, <1>5, <1>6, <1>7 DEF DirectoryNext

\* In every reachable state, for any number of witnesses, their instances'
\* calls and clients: each witness's row extends all it has signed, and each
\* observation, fetch and acceptance is fresh with respect to it.
THEOREM Invariant == DirectorySpec => []IInv
BY InitOK, StepOK, PTL DEF DirectorySpec

\* The directory's state is always of the declared type.
THEOREM DirectoryTypeCorrect == DirectorySpec => []DirectoryTypeOK
<1>1. IInv => DirectoryTypeOK BY DEF IInv
<1> QED BY <1>1, Invariant, PTL

LEMMA OneList == IInv => ForksCannotBothWin
<1> SUFFICES ASSUME IInv, NEW w \in Witnesses, NEW d \in signed[w], NEW e \in signed[w]
             PROVE  Agree(d, e)
  BY DEF ForksCannotBothWin
<1>1. /\ witnessed[w].directory # NoDirectory /\ witnessed[w] \in Row
      /\ Extends(witnessed[w].directory, d) /\ Extends(witnessed[w].directory, e)
      /\ d \in Directories /\ e \in Directories
  BY DEF IInv, Rows, DirectoryTypeOK
<1>2. witnessed[w].directory \in Directories BY <1>1 DEF Row
<1> QED BY <1>1, <1>2, PartsAgree

\* Of two directories that fork, a witness signs at most one, whatever its
\* instances do at the same time.
THEOREM OneListWins == DirectorySpec => []ForksCannotBothWin
BY OneList, Invariant, PTL

\* Two clients that share a witness, or one client before and after a restart,
\* never accept directories that disagree.
THEOREM ClientsAgreeAlways == DirectorySpec => []ClientsAgree
<1>1. IInv => ClientsAgree
  <2> SUFFICES ASSUME IInv, NEW a \in accepted, NEW b \in accepted,
                      a.quorum \intersect b.quorum # {}
               PROVE  Agree(a.directory, b.directory)
    BY DEF ClientsAgree
  <2>1. PICK w \in a.quorum : w \in b.quorum OBVIOUS
  <2>2. w \in Witnesses BY <2>1 DEF IInv, DirectoryTypeOK, Acceptance
  <2>3. a.directory \in signed[w] /\ b.directory \in signed[w]
    BY <2>1 DEF IInv, Acceptances, Fresh
  <2> QED BY <2>2, <2>3, OneList DEF ForksCannotBothWin
<1> QED BY <1>1, Invariant, PTL

\* No client accepts a directory older than what a witness of its quorum had
\* signed when it asked.
THEOREM FreshWhenAccepted == DirectorySpec => []AcceptedIsFresh
<1>1. IInv => AcceptedIsFresh BY DEF IInv, Acceptances, Fresh, AcceptedIsFresh
<1> QED BY <1>1, Invariant, PTL
-----------------------------------------------------------------------------
(* The monitor.  *)

\* Each witness's last statement is recorded and is its latest by its clock.
LatestOK ==
    /\ \A w \in Witnesses :
        evidence.latest[w] # NoStatement =>
            evidence.latest[w] \in evidence.kept /\ evidence.latest[w].witness = w
    /\ \A t \in evidence.kept :
        /\ evidence.latest[t.witness] # NoStatement
        /\ t.time <= evidence.latest[t.witness].time

\* A swap that can succeed was prepared from what is stored now.
SwapsOK ==
    \A o \in Observers :
        watching[o].at = "swap" =>
            /\ watching[o].statement \in Statement
            /\ watching[o].read.revision <= evidence.revision
            /\ watching[o].read.revision = evidence.revision =>
                watching[o].read = evidence /\ Consistent(watching[o].statement, evidence)

LoadsOK == \A o \in Observers : watching[o].at # "none" => watching[o].statement \in Statement

GInv == GossipTypeOK /\ LatestOK /\ SwapsOK /\ LoadsOK /\ EvidenceKept

LEMMA EmptyEvidence == NoEvidence \in Evidence /\ Resting \in Watching
BY DEF NoEvidence, Evidence, Resting, Watching

LEMMA GossipInitOK == GossipInit => GInv
<1> SUFFICES ASSUME GossipInit PROVE GInv OBVIOUS
<1> USE DEF GossipInit
<1>1. GossipTypeOK BY EmptyEvidence DEF GossipTypeOK
<1>2. LatestOK BY DEF LatestOK, NoEvidence
<1>3. SwapsOK /\ LoadsOK BY DEF SwapsOK, LoadsOK, Resting
<1>4. EvidenceKept BY DEF EvidenceKept, NoEvidence
<1> QED BY <1>1, <1>2, <1>3, <1>4 DEF GInv

\* A step that changes one observe call only.
LEMMA WatchOK ==
    ASSUME GInv, NEW o \in Observers, NEW r \in Watching,
           watching' = [watching EXCEPT ![o] = r],
           r.at # "none" => r.statement \in Statement,
           r.at = "swap" => r.read = evidence /\ Consistent(r.statement, evidence),
           UNCHANGED evidence, observed' \in Nat,
           \/ UNCHANGED shown
           \/ \E s \in Statement :
                evidence.latest[s.witness] = s /\ shown' = shown \union {s}
    PROVE  GInv'
<1> USE DEF GInv
<1>1. \A p \in Observers : watching'[p] = IF p = o THEN r ELSE watching[p]
  BY DEF GossipTypeOK
<1>2. shown' \subseteq Statement BY DEF GossipTypeOK
<1>3. GossipTypeOK' BY <1>2 DEF GossipTypeOK
<1>4. LatestOK' BY DEF LatestOK
<1>5. evidence.revision \in Nat BY DEF GossipTypeOK, Evidence
<1>6. SwapsOK' BY <1>1, <1>5 DEF SwapsOK, Consistent
<1>7. LoadsOK' BY <1>1 DEF LoadsOK
<1>8. EvidenceKept'
  <2>1. CASE UNCHANGED shown BY <2>1 DEF EvidenceKept
  <2>2. CASE ~UNCHANGED shown
    <3>1. PICK s \in Statement :
            evidence.latest[s.witness] = s /\ shown' = shown \union {s}
      BY <2>2
    <3>2. s \in evidence.kept /\ s.time \in Nat
      BY <3>1, StatementsAssumption DEF LatestOK, Statement
    <3> QED BY <3>1, <3>2 DEF EvidenceKept, SameCheckpoint
  <2> QED BY <2>1, <2>2
<1> QED BY <1>3, <1>4, <1>6, <1>7, <1>8

\* A statement that is recorded replaces only an earlier one of its witness for
\* the same checkpoint.
LEMMA RecordOK ==
    ASSUME GInv, NEW o \in Observers,
           watching[o].at = "swap", evidence.revision = watching[o].read.revision,
           evidence' = Recorded(watching[o].statement, watching[o].read),
           watching' = [watching EXCEPT ![o] = Resting],
           UNCHANGED observed,
           \/ UNCHANGED shown
           \/ shown' = shown \union {watching[o].statement}
    PROVE  GInv'
<1> USE DEF GInv
<1> DEFINE s == watching[o].statement
<1>1. /\ s \in Statement
      /\ Consistent(s, evidence)
      /\ watching[o].read = evidence
  BY DEF SwapsOK
<1>2. /\ evidence \in Evidence /\ evidence.revision \in Nat
      /\ evidence.kept \subseteq Statement
      /\ evidence.latest \in [Witnesses -> Statement \union {NoStatement}]
      /\ s.witness \in Witnesses /\ s.time \in Nat
      /\ s # NoStatement
  BY <1>1, StatementsAssumption DEF GossipTypeOK, Evidence, Statement
<1> HIDE DEF s
<1>3. /\ evidence'.revision = evidence.revision + 1
      /\ evidence'.kept =
            {t \in evidence.kept : ~(t.witness = s.witness /\ Count(t) = Count(s))} \union {s}
      /\ evidence'.latest = [evidence.latest EXCEPT ![s.witness] = s]
      /\ evidence' \in Evidence
  BY <1>1, <1>2 DEF Recorded, Evidence, s
<1>4. \A p \in Observers : watching'[p] = IF p = o THEN Resting ELSE watching[p]
  BY DEF GossipTypeOK
<1>5. \A t \in evidence.kept : t.witness = s.witness => t.time <= s.time
  <2> SUFFICES ASSUME NEW t \in evidence.kept, t.witness = s.witness PROVE t.time <= s.time
    OBVIOUS
  <2>1. /\ evidence.latest[s.witness] # NoStatement
        /\ t.time <= evidence.latest[s.witness].time
    BY DEF LatestOK
  <2>2. evidence.latest[s.witness].time <= s.time BY <1>1, <2>1 DEF Consistent
  <2>3. evidence.latest[s.witness] \in Statement /\ t \in Statement BY <1>2, <2>1
  <2>4. evidence.latest[s.witness].time \in Nat /\ t.time \in Nat
    BY <2>3, StatementsAssumption DEF Statement
  <2> QED BY <1>2, <2>1, <2>2, <2>4
<1>6. GossipTypeOK'
  BY <1>1, <1>3, EmptyEvidence DEF GossipTypeOK, s
<1>7. LatestOK'
  <2>1. ASSUME NEW w \in Witnesses, evidence'.latest[w] # NoStatement
        PROVE  evidence'.latest[w] \in evidence'.kept /\ evidence'.latest[w].witness = w
    <3>1. CASE w = s.witness BY <1>2, <1>3, <3>1
    <3>2. CASE w # s.witness
      BY <1>2, <1>3, <2>1, <3>2 DEF LatestOK
    <3> QED BY <3>1, <3>2
  <2>2. ASSUME NEW t \in evidence'.kept
        PROVE  /\ evidence'.latest[t.witness] # NoStatement
               /\ t.time <= evidence'.latest[t.witness].time
    <3>1. t = s \/ t \in evidence.kept BY <1>3
    <3>2. t \in Statement /\ t.witness \in Witnesses BY <1>1, <1>2, <3>1 DEF Statement, s
    <3>3. CASE t.witness = s.witness
      BY <1>2, <1>3, <1>5, <3>1, <3>2, <3>3
    <3>4. CASE t.witness # s.witness
      BY <1>2, <1>3, <3>1, <3>2, <3>4 DEF LatestOK
    <3> QED BY <3>3, <3>4
  <2> QED BY <2>1, <2>2 DEF LatestOK
<1>8. SwapsOK'
  <2> SUFFICES ASSUME NEW p \in Observers, watching'[p].at = "swap"
               PROVE  /\ watching'[p].statement \in Statement
                      /\ watching'[p].read.revision < evidence'.revision
    <3>1. evidence'.revision \in Nat BY <1>3 DEF Evidence
    <3>2. watching' \in [Observers -> Watching] BY <1>6 DEF GossipTypeOK
    <3>3. \A q \in Observers : watching'[q].read.revision \in Nat
      BY <3>2 DEF Watching, Evidence
    <3> QED BY <3>1, <3>3 DEF SwapsOK
  <2>1. p # o /\ watching'[p] = watching[p] BY <1>4 DEF Resting
  <2>2. watching[p].read.revision \in Nat BY DEF GossipTypeOK, Watching, Evidence
  <2> QED BY <1>2, <1>3, <2>1, <2>2 DEF SwapsOK
<1>9. LoadsOK' BY <1>4 DEF LoadsOK, Resting
<1>10. ASSUME NEW x \in evidence'.kept, NEW y \in evidence'.kept
       PROVE  /\ x.directory.identity = y.directory.identity
              /\ Count(x) = Count(y) => SameCheckpoint(x, y)
  BY <1>1, <1>3 DEF EvidenceKept, Consistent, SameCheckpoint
<1>11. ASSUME NEW x \in shown'
       PROVE  \E t \in evidence'.kept :
                t.witness = x.witness /\ SameCheckpoint(t, x) /\ x.time <= t.time
  <2>1. CASE x = s BY <1>2, <1>3, <2>1 DEF SameCheckpoint
  <2>2. CASE x # s
    <3>1. x \in shown BY <2>2 DEF s
    <3>2. PICK t \in evidence.kept :
            t.witness = x.witness /\ SameCheckpoint(t, x) /\ x.time <= t.time
      BY <3>1 DEF EvidenceKept
    <3>3. CASE t \in evidence'.kept BY <3>2, <3>3
    <3>4. CASE t \notin evidence'.kept
      <4>1. t.witness = s.witness /\ Count(t) = Count(s) BY <1>3, <3>4
      <4>2. SameCheckpoint(t, s) BY <1>1, <4>1 DEF Consistent
      <4>3. t.time <= s.time BY <1>5, <4>1
      <4>4. t.time \in Nat /\ x.time \in Nat
        BY <1>2, <3>1, StatementsAssumption DEF GossipTypeOK, Statement
      <4>5. s \in evidence'.kept BY <1>3
      <4> QED BY <1>2, <3>2, <4>1, <4>2, <4>3, <4>4, <4>5 DEF SameCheckpoint
    <3> QED BY <3>3, <3>4
  <2> QED BY <2>1, <2>2
<1>12. EvidenceKept' BY <1>10, <1>11 DEF EvidenceKept, Count, SameCheckpoint
<1> QED BY <1>6, <1>7, <1>8, <1>9, <1>12

LEMMA GossipStepOK == GInv /\ [GossipNext]_gossipVars => GInv'
<1> SUFFICES ASSUME GInv, [GossipNext]_gossipVars PROVE GInv' OBVIOUS
<1> USE DEF GInv
<1>1. ASSUME NEW o \in Observers, Observe(o) PROVE GInv'
  <2>1. PICK s \in Statement :
          watching' = [watching EXCEPT ![o] = [Resting EXCEPT !.at = "load", !.statement = s]]
    BY <1>1 DEF Observe
  <2>2. [Resting EXCEPT !.at = "load", !.statement = s] \in Watching
    BY EmptyEvidence DEF Resting, Watching
  <2>3. observed' \in Nat BY <1>1 DEF Observe, GossipTypeOK
  <2> QED BY <1>1, <2>1, <2>2, <2>3, WatchOK DEF Observe, Resting
<1>2. ASSUME NEW o \in Observers, LoadEvidence(o) PROVE GInv'
  <2> DEFINE s == watching[o].statement
             r == [watching[o] EXCEPT !.at = "swap", !.read = evidence]
  <2>1. /\ s \in Statement /\ Consistent(s, evidence)
        /\ watching[o] \in Watching /\ evidence \in Evidence
        /\ observed' = observed /\ observed \in Nat /\ UNCHANGED evidence
    BY <1>2 DEF LoadEvidence, LoadsOK, GossipTypeOK
  <2>2. CASE evidence.latest[s.witness] = s
    BY <1>2, <2>1, <2>2, WatchOK, EmptyEvidence DEF LoadEvidence, Resting
  <2>3. CASE evidence.latest[s.witness] # s
    <3>1. /\ r \in Watching /\ r.at = "swap" /\ r.read = evidence /\ r.statement = s
      BY <2>1 DEF Watching
    <3>2. watching' = [watching EXCEPT ![o] = r] /\ UNCHANGED shown
      BY <1>2, <2>3 DEF LoadEvidence
    <3> HIDE DEF r, s
    <3> QED BY <2>1, <3>1, <3>2, WatchOK
  <2> QED BY <2>2, <2>3
<1>3. ASSUME NEW o \in Observers, SwapEvidence(o) PROVE GInv'
  <2>1. CASE evidence.revision = watching[o].read.revision
    BY <1>3, <2>1, RecordOK DEF SwapEvidence
  <2>2. CASE evidence.revision # watching[o].read.revision
    <3> DEFINE r == [at |-> "load", statement |-> watching[o].statement,
                     attempts |-> watching[o].attempts + 1, read |-> NoEvidence]
    <3>1. /\ watching' = [watching EXCEPT ![o] = r]
          /\ UNCHANGED <<evidence, shown, observed>>
          /\ watching[o].at = "swap"
      BY <1>3, <2>2 DEF SwapEvidence
    <3>2. /\ r \in Watching /\ r.at = "load" /\ r.statement = watching[o].statement
      BY EmptyEvidence DEF GossipTypeOK, Watching
    <3>3. watching[o].statement \in Statement BY <3>1 DEF SwapsOK
    <3>4. observed' \in Nat BY <3>1 DEF GossipTypeOK
    <3> HIDE DEF r
    <3> QED BY <3>1, <3>2, <3>3, <3>4, WatchOK
  <2> QED BY <2>1, <2>2
<1>4. ASSUME NEW o \in Observers, FailObserve(o) PROVE GInv'
  BY <1>4, WatchOK, EmptyEvidence DEF FailObserve, Resting, GossipTypeOK
<1>5. ASSUME NEW o \in Observers, LoseAnswer(o) PROVE GInv'
  BY <1>5, RecordOK DEF LoseAnswer
<1>6. CASE UNCHANGED gossipVars
  BY <1>6 DEF gossipVars, GossipTypeOK, LatestOK, SwapsOK, LoadsOK, EvidenceKept, Consistent
<1> QED BY <1>1, <1>2, <1>3, <1>4, <1>5, <1>6 DEF GossipNext

\* Observers that share a store, however many and in whatever order they are
\* shown statements, honest ones or not, lose nothing that was accepted, and
\* record no two heads for one length.
THEOREM NoEvidenceIsLost == GossipSpec => []EvidenceKept
<1>1. GossipSpec => []GInv BY GossipInitOK, GossipStepOK, PTL DEF GossipSpec
<1>2. GInv => EvidenceKept BY DEF GInv
<1> QED BY <1>1, <1>2, PTL


-----------------------------------------------------------------------------
(* The invariant.  It is stated of a handle h, the stored queues s, the    *)
(* events r of the room and the messages t that were told, so that it can  *)
(* be followed through the helpers a step is made of.                      *)

HandleType(h) ==
    /\ h.open \in BOOLEAN
    /\ h.calls \in [Ids -> {"none", "admitting", "sending", "denying"}]
    /\ h.sending \in [Ids -> {"none", "prepare", "post", "noting", "dropping"}]
    /\ h.telling \in [Ids -> {"none", "notify", "dropping"}]
    /\ \A b \in Boxes :
          /\ h.changes[b] \in Seq(Changes(b))
          /\ h.read[b] = None \/ h.read[b] \in SUBSET Ids
    /\ DOMAIN h = DOMAIN NoHandle
    /\ DOMAIN h.changes = Boxes /\ DOMAIN h.read = Boxes
    /\ h.flush.box \in Boxes
    /\ h.flush.items = None \/ h.flush.items \in SUBSET Ids
    /\ DOMAIN h.flush = {"box", "items"}

\* What a change has read is still what is stored.
ReadsCurrent(h, s) ==
    \A b \in Boxes : h.read[b] # None => h.changes[b] # <<>> /\ h.read[b] = s[b]

\* Notifications are of events, wherever they are: stored, told, listed by a
\* flush or taken up by a task.
OfEvents(h, s, r, t) ==
    /\ s["notes"] \subseteq r /\ t \subseteq r
    /\ h.flush.box = "notes" /\ h.flush.items # None => h.flush.items \subseteq r
    /\ \A i \in Ids : h.telling[i] = "notify" => i \in r

\* A queued change of the notifications adds one of an event, by the task that
\* posted it, or drops one the server was told of.
NotesRight(h, r, t) ==
    \A k \in DOMAIN h.changes["notes"] :
        LET c == h.changes["notes"][k]
        IN  \/ c.act = "add" /\ c.by = "task" /\ c.id \in r
            \/ c.act = "drop" /\ c.by = "note" /\ c.id \in t

\* A task drops a message only behind its stored notification; a change by a
\* call is the one that call waits for.
OutboxRight(h, s, t) ==
    \A k \in DOMAIN h.changes["outbox"] :
        LET c == h.changes["outbox"][k]
        IN  \/ c.by = "task" /\ c.act = "drop" /\ c.id \in s["notes"] \cup t
            \/ c.by = "call" /\ c.act = "add" /\ h.calls[c.id] = "admitting"
            \/ c.by = "call" /\ c.act = "drop" /\ h.calls[c.id] = "denying"

\* A call has one change queued at a time.
OneOfCall(h) ==
    \A j, k \in DOMAIN h.changes["outbox"] :
        /\ h.changes["outbox"][j].by = "call" /\ h.changes["outbox"][k].by = "call"
        /\ h.changes["outbox"][j].id = h.changes["outbox"][k].id
        => j = k

Fit(h, s, r, t) ==
    /\ s \in [Boxes -> SUBSET Ids] /\ r \in SUBSET Ids /\ t \in SUBSET Ids
    /\ HandleType(h)
    /\ ReadsCurrent(h, s)
    /\ OfEvents(h, s, r, t)
    /\ NotesRight(h, r, t)
    /\ OutboxRight(h, s, t)
    /\ OneOfCall(h)

OutboxInv == Fit(handle, stored, room, told)

\* No call of i has a change queued.
NoChangeOf(h, i) ==
    \A k \in DOMAIN h.changes["outbox"] :
        ~(h.changes["outbox"][k].by = "call" /\ h.changes["outbox"][k].id = i)

LEMMA NoneItems == None \notin SUBSET Ids
  BY NoneIds

LEMMA FitType == OutboxInv => TypeOK
  BY DEF OutboxInv, Fit, HandleType, TypeOK

-----------------------------------------------------------------------------
(* The helpers.                                                            *)

\* Elements of a queue that grew, or lost its first.
LEMMA Appended ==
    ASSUME NEW S, NEW q \in Seq(S), NEW c \in S
    PROVE  /\ Append(q, c) \in Seq(S)
           /\ DOMAIN Append(q, c) = DOMAIN q \cup {Len(q) + 1}
           /\ Len(q) + 1 \notin DOMAIN q
           /\ Append(q, c)[Len(q) + 1] = c
           /\ \A k \in DOMAIN q : Append(q, c)[k] = q[k]
           /\ Append(q, c) # <<>>
  OBVIOUS

LEMMA Popped ==
    ASSUME NEW S, NEW q \in Seq(S), q # <<>>
    PROVE  /\ Tail(q) \in Seq(S)
           /\ \A k \in DOMAIN Tail(q) : k + 1 \in DOMAIN q /\ Tail(q)[k] = q[k + 1] /\ k \in Nat /\ k # 0
           /\ 1 \in DOMAIN q /\ Head(q) = q[1] /\ Head(q) \in S
  OBVIOUS

\* What is said of the queues of changes depends on them and the calls only.
LEMMA SameQueues ==
    ASSUME NEW h, NEW s, NEW r, NEW t, NEW x, x.changes = h.changes, x.calls = h.calls,
           Fit(h, s, r, t)
    PROVE  NotesRight(x, r, t) /\ OutboxRight(x, s, t) /\ OneOfCall(x)
<1>0. NotesRight(h, r, t) /\ OutboxRight(h, s, t) /\ OneOfCall(h)
  BY DEF Fit
<1>1. NotesRight(x, r, t)
  BY <1>0 DEF NotesRight
<1>2. OutboxRight(x, s, t)
  BY <1>0 DEF OutboxRight
<1>3. OneOfCall(x)
  BY <1>0 DEF OneOfCall
<1> QED
  BY <1>1, <1>2, <1>3

LEMMA MutateFit ==
    ASSUME NEW h, NEW s, NEW r, NEW t, Fit(h, s, r, t),
           NEW b \in Boxes, NEW act \in {"add", "drop"}, NEW i \in Ids, NEW by,
           b = "notes" => \/ act = "add" /\ by = "task" /\ i \in r
                          \/ act = "drop" /\ by = "note" /\ i \in t,
           b = "outbox" =>
              \/ by = "task" /\ act = "drop" /\ i \in s["notes"] \cup t
              \/ /\ by = "call" /\ NoChangeOf(h, i)
                 /\ h.calls[i] = IF act = "add" THEN "admitting" ELSE "denying"
    PROVE  Fit(Mutate(h, b, act, i, by), s, r, t)
<1> DEFINE c == Change(act, i, by)
           q == h.changes[b]
           x == Mutate(h, b, act, i, by)
<1>0. /\ HandleType(h) /\ ReadsCurrent(h, s) /\ OfEvents(h, s, r, t)
      /\ NotesRight(h, r, t) /\ OutboxRight(h, s, t) /\ OneOfCall(h)
  BY DEF Fit
<1>1. c \in Changes(b) /\ c.act = act /\ c.id = i /\ c.by = by
  BY DEF Boxes, Change, Changes
<1>2. q \in Seq(Changes(b))
  BY <1>0 DEF HandleType
<1>3. /\ DOMAIN x = DOMAIN h
      /\ x.open = h.open /\ x.calls = h.calls /\ x.sending = h.sending
      /\ x.telling = h.telling /\ x.read = h.read /\ x.flush = h.flush
      /\ DOMAIN x.changes = Boxes
      /\ x.changes[b] = Append(q, c)
      /\ \A d \in Boxes : d # b => x.changes[d] = h.changes[d]
  BY <1>0 DEF HandleType, Mutate, NoHandle
<1> HIDE DEF c, x
<1>4. /\ Append(q, c) \in Seq(Changes(b))
      /\ DOMAIN Append(q, c) = DOMAIN q \cup {Len(q) + 1}
      /\ Len(q) + 1 \notin DOMAIN q
      /\ Append(q, c)[Len(q) + 1] = c
      /\ \A k \in DOMAIN q : Append(q, c)[k] = q[k]
      /\ Append(q, c) # <<>>
  BY <1>1, <1>2, Appended
<1> HIDE DEF q
<1>5. HandleType(x)
  BY <1>0, <1>3, <1>4 DEF HandleType
<1>6. ReadsCurrent(x, s)
  BY <1>0, <1>3, <1>4 DEF ReadsCurrent
<1>7. OfEvents(x, s, r, t)
  BY <1>0, <1>3 DEF OfEvents
<1>8. CASE b = "notes"
  <2>1. NotesRight(x, r, t)
    <3> SUFFICES ASSUME NEW k \in DOMAIN x.changes["notes"]
                 PROVE  LET d == x.changes["notes"][k]
                        IN  \/ d.act = "add" /\ d.by = "task" /\ d.id \in r
                            \/ d.act = "drop" /\ d.by = "note" /\ d.id \in t
      BY DEF NotesRight
    <3>1. CASE k \in DOMAIN q
      <4>1. x.changes["notes"][k] = h.changes["notes"][k] /\ k \in DOMAIN h.changes["notes"]
        BY <1>3, <1>4, <1>8, <3>1 DEF q
      <4> QED
        BY <1>0, <4>1 DEF NotesRight
    <3>2. CASE k = Len(q) + 1
      <4>1. x.changes["notes"][k] = c
        BY <1>3, <1>4, <1>8, <3>2
      <4> QED
        BY <1>1, <1>8, <4>1
    <3> QED
      BY <1>3, <1>4, <1>8, <3>1, <3>2
  <2>2. x.changes["outbox"] = h.changes["outbox"]
    BY <1>3, <1>8 DEF Boxes
  <2>3. OutboxRight(x, s, t) /\ OneOfCall(x)
    BY <1>0, <1>3, <2>2 DEF OutboxRight, OneOfCall
  <2> QED
    BY <1>5, <1>6, <1>7, <2>1, <2>3 DEF Fit, x
<1>9. CASE b = "outbox"
  <2>1. x.changes["notes"] = h.changes["notes"]
    BY <1>3, <1>9 DEF Boxes
  <2>2. NotesRight(x, r, t)
    BY <1>0, <2>1 DEF NotesRight
  <2>3. OutboxRight(x, s, t)
    <3> SUFFICES ASSUME NEW k \in DOMAIN x.changes["outbox"]
                 PROVE  LET d == x.changes["outbox"][k]
                        IN  \/ d.by = "task" /\ d.act = "drop" /\ d.id \in s["notes"] \cup t
                            \/ d.by = "call" /\ d.act = "add" /\ x.calls[d.id] = "admitting"
                            \/ d.by = "call" /\ d.act = "drop" /\ x.calls[d.id] = "denying"
      BY DEF OutboxRight
    <3>1. CASE k \in DOMAIN q
      <4>1. x.changes["outbox"][k] = h.changes["outbox"][k] /\ k \in DOMAIN h.changes["outbox"]
        BY <1>3, <1>4, <1>9, <3>1 DEF q
      <4> QED
        BY <1>0, <1>3, <4>1 DEF OutboxRight
    <3>2. CASE k = Len(q) + 1
      <4>1. x.changes["outbox"][k] = c
        BY <1>3, <1>4, <1>9, <3>2
      <4> QED
        BY <1>1, <1>3, <1>9, <4>1
    <3> QED
      BY <1>3, <1>4, <1>9, <3>1, <3>2
  <2>4. OneOfCall(x)
    <3>1. ASSUME NEW k \in DOMAIN x.changes["outbox"]
          PROVE  \/ k \in DOMAIN q /\ k \in DOMAIN h.changes["outbox"]
                    /\ x.changes["outbox"][k] = h.changes["outbox"][k]
                 \/ k = Len(q) + 1 /\ x.changes["outbox"][k] = c
      BY <1>3, <1>4, <1>9 DEF q
    <3>2. ASSUME NEW k \in DOMAIN h.changes["outbox"], c.by = "call"
          PROVE  ~(h.changes["outbox"][k].by = "call" /\ h.changes["outbox"][k].id = i)
      BY <1>1, <1>9, <3>2 DEF NoChangeOf
    <3> QED
      BY <1>0, <1>1, <3>1, <3>2 DEF OneOfCall
  <2> QED
    BY <1>5, <1>6, <1>7, <2>2, <2>3, <2>4 DEF Fit, x
<1> QED
  BY <1>8, <1>9 DEF Boxes

\* A task's state, and that of a call no change of which is queued, are free.
LEMMA SendingFit ==
    ASSUME NEW h, NEW s, NEW r, NEW t, Fit(h, s, r, t), NEW i \in Ids,
           NEW v \in {"none", "prepare", "post", "noting", "dropping"}
    PROVE  /\ Fit([h EXCEPT !.sending[i] = v], s, r, t)
           /\ [h EXCEPT !.sending[i] = v].calls = h.calls
           /\ [h EXCEPT !.sending[i] = v].changes = h.changes
<1> DEFINE x == [h EXCEPT !.sending[i] = v]
<1>0. HandleType(h)
  BY DEF Fit
<1>1. /\ DOMAIN x = DOMAIN h
      /\ x.open = h.open /\ x.calls = h.calls /\ x.changes = h.changes
      /\ x.telling = h.telling /\ x.read = h.read /\ x.flush = h.flush
      /\ x.sending = [h.sending EXCEPT ![i] = v]
  BY <1>0 DEF HandleType, NoHandle
<1> HIDE DEF x
<1>2. HandleType(x)
  BY <1>0, <1>1 DEF HandleType
<1>3. NotesRight(x, r, t) /\ OutboxRight(x, s, t) /\ OneOfCall(x)
  BY <1>1, SameQueues
<1>4. ReadsCurrent(x, s) /\ OfEvents(x, s, r, t)
  BY <1>1 DEF Fit, ReadsCurrent, OfEvents
<1>5. Fit(x, s, r, t)
  BY <1>2, <1>3, <1>4 DEF Fit
<1> QED
  BY <1>1, <1>5 DEF x

LEMMA CallsFit ==
    ASSUME NEW h, NEW s, NEW r, NEW t, Fit(h, s, r, t), NEW i \in Ids, NoChangeOf(h, i),
           NEW v \in {"none", "admitting", "sending", "denying"}
    PROVE  /\ Fit([h EXCEPT !.calls[i] = v], s, r, t)
           /\ [h EXCEPT !.calls[i] = v].calls[i] = v
           /\ NoChangeOf([h EXCEPT !.calls[i] = v], i)
           /\ [h EXCEPT !.calls[i] = v].sending = h.sending
<1> DEFINE x == [h EXCEPT !.calls[i] = v]
<1>0. HandleType(h)
  BY DEF Fit
<1>1. /\ DOMAIN x = DOMAIN h
      /\ x.open = h.open /\ x.sending = h.sending /\ x.changes = h.changes
      /\ x.telling = h.telling /\ x.read = h.read /\ x.flush = h.flush
      /\ x.calls = [h.calls EXCEPT ![i] = v]
  BY <1>0 DEF HandleType, NoHandle
<1> HIDE DEF x
<1>2. HandleType(x) /\ x.calls[i] = v
  BY <1>0, <1>1 DEF HandleType
<1>3. OutboxRight(x, s, t)
  BY <1>0, <1>1 DEF Fit, OutboxRight, NoChangeOf, HandleType
<1>4. Fit(x, s, r, t)
  BY <1>1, <1>2, <1>3 DEF Fit, ReadsCurrent, OfEvents, NotesRight, OneOfCall
<1> QED
  BY <1>1, <1>2, <1>4 DEF x, NoChangeOf

\* A call in one of these states has no change queued.
LEMMA CallIdle ==
    ASSUME NEW h, NEW s, NEW r, NEW t, Fit(h, s, r, t), NEW i \in Ids,
           h.calls[i] \in {"none", "sending"}
    PROVE  NoChangeOf(h, i)
  BY DEF Fit, OutboxRight, NoChangeOf

LEMMA SendPendingFit ==
    ASSUME NEW h, NEW s, NEW r, NEW t, Fit(h, s, r, t), NEW i \in Ids
    PROVE  Fit(SendPending(h, i), s, r, t)
  BY SendingFit DEF SendPending

LEMMA RejectedFit ==
    ASSUME NEW h, NEW s, NEW r, NEW t, Fit(h, s, r, t), NEW i \in Ids, NEW denied \in BOOLEAN
    PROVE  Fit(Rejected(h, i, denied), s, r, t)
<1> DEFINE x == [h EXCEPT !.sending[i] = "none"]
<1>1. Fit(x, s, r, t) /\ x.calls = h.calls
  BY SendingFit
<1> HIDE DEF x
<1>2. CASE h.calls[i] # "sending"
  BY <1>1, <1>2 DEF Rejected, x
<1>3. CASE h.calls[i] = "sending"
  <2>1. NoChangeOf(x, i)
    BY <1>1, <1>3, CallIdle
  <2>2. Fit([x EXCEPT !.calls[i] = "none"], s, r, t)
    BY <1>1, <2>1, CallsFit, ZenonT(40)
  <2> DEFINE y == [x EXCEPT !.calls[i] = "denying"]
  <2>3. Fit(y, s, r, t) /\ NoChangeOf(y, i) /\ y.calls[i] = "denying"
    BY <1>1, <2>1, CallsFit, ZenonT(40)
  <2> HIDE DEF y
  <2>4. Fit(Mutate(y, "outbox", "drop", i, "call"), s, r, t)
    BY <2>3, MutateFit DEF Boxes
  <2> QED
    BY <1>3, <2>2, <2>4 DEF Rejected, x, y
<1> QED
  BY <1>2, <1>3

LEMMA AcknowledgedFit ==
    ASSUME NEW h, NEW s, NEW r, NEW t, Fit(h, s, r, t), NEW i \in Ids
    PROVE  Fit(Acknowledged(h, i), s, r, t)
<1> DEFINE x == [h EXCEPT !.sending[i] = "none"]
           v == IF h.calls[i] = "sending" THEN "none" ELSE h.calls[i]
<1>1. Fit(x, s, r, t) /\ x.calls = h.calls
  BY SendingFit
<1>2. Acknowledged(h, i) = [x EXCEPT !.calls[i] = v]
  BY DEF Fit, HandleType, NoHandle, Acknowledged
<1> HIDE DEF x
<1>3. CASE h.calls[i] = "sending"
  <2>1. NoChangeOf(x, i)
    BY <1>1, <1>3, CallIdle
  <2>2. Fit([x EXCEPT !.calls[i] = "none"], s, r, t)
    BY <1>1, <2>1, CallsFit, ZenonT(40)
  <2>3. v = "none"
    BY <1>3
  <2> HIDE DEF v
  <2> QED
    BY <1>2, <2>2, <2>3
<1>4. CASE h.calls[i] # "sending"
  <2> DEFINE y == [x EXCEPT !.calls[i] = v]
  <2>1. x.calls \in [Ids -> {"none", "admitting", "sending", "denying"}] /\ DOMAIN x = DOMAIN NoHandle
    BY <1>1 DEF Fit, HandleType
  <2>2. [x.calls EXCEPT ![i] = v] = x.calls
    BY <1>1, <1>4, <2>1
  <2>3. /\ DOMAIN y = DOMAIN x
        /\ y.open = x.open /\ y.calls = x.calls /\ y.sending = x.sending
        /\ y.changes = x.changes
        /\ y.telling = x.telling /\ y.read = x.read /\ y.flush = x.flush
    BY <2>1, <2>2 DEF NoHandle
  <2>5. Acknowledged(h, i) = y
    BY <1>2
  <2> HIDE DEF y
  <2>6. NotesRight(y, r, t) /\ OutboxRight(y, s, t) /\ OneOfCall(y)
    BY <1>1, <2>3, SameQueues
  <2>7. HandleType(y)
    BY <1>1, <2>3 DEF Fit, HandleType
  <2>8. ReadsCurrent(y, s) /\ OfEvents(y, s, r, t)
    BY <1>1, <2>3 DEF Fit, ReadsCurrent, OfEvents
  <2>4. Fit(y, s, r, t)
    BY <1>1, <2>6, <2>7, <2>8 DEF Fit
  <2> QED
    BY <2>4, <2>5
<1> QED
  BY <1>3, <1>4

-----------------------------------------------------------------------------
(* A change ends.                                                          *)

\* The first change leaves its queue, which then holds what the change made of
\* it, or what it held.
Rest(h, b) == [h EXCEPT !.changes[b] = Tail(@), !.read[b] = None]

LEMMA RestFields ==
    ASSUME NEW h, HandleType(h), NEW b \in Boxes, h.changes[b] # <<>>
    PROVE  LET x == Rest(h, b)
           IN  /\ HandleType(x)
               /\ x.open = h.open /\ x.calls = h.calls /\ x.sending = h.sending
               /\ x.telling = h.telling /\ x.flush = h.flush
               /\ x.changes[b] = Tail(h.changes[b]) /\ x.read[b] = None
               /\ \A d \in Boxes : d # b => x.changes[d] = h.changes[d] /\ x.read[d] = h.read[d]
               /\ \A k \in DOMAIN x.changes[b] :
                    /\ k + 1 \in DOMAIN h.changes[b] /\ k + 1 # 1 /\ k \in Nat
                    /\ x.changes[b][k] = h.changes[b][k + 1]
               /\ 1 \in DOMAIN h.changes[b] /\ Head(h.changes[b]) = h.changes[b][1]
               /\ Head(h.changes[b]) \in Changes(b)
<1> DEFINE x == Rest(h, b)
<1>1. h.changes[b] \in Seq(Changes(b))
  BY DEF HandleType
<1>2. /\ DOMAIN x = DOMAIN h
      /\ x.open = h.open /\ x.calls = h.calls /\ x.sending = h.sending
      /\ x.telling = h.telling /\ x.flush = h.flush
      /\ DOMAIN x.changes = Boxes /\ DOMAIN x.read = Boxes
      /\ x.changes[b] = Tail(h.changes[b]) /\ x.read[b] = None
      /\ \A d \in Boxes : d # b => x.changes[d] = h.changes[d] /\ x.read[d] = h.read[d]
  BY DEF HandleType, Rest, NoHandle
<1> HIDE DEF x
<1> DEFINE q == h.changes[b]
<1>3. /\ Tail(q) \in Seq(Changes(b))
      /\ \A k \in DOMAIN Tail(q) : k + 1 \in DOMAIN q /\ Tail(q)[k] = q[k + 1] /\ k \in Nat /\ k # 0
      /\ 1 \in DOMAIN q /\ Head(q) = q[1] /\ Head(q) \in Changes(b)
  BY <1>1, Popped
<1>4. HandleType(x)
  BY <1>2, <1>3, ZenonT(40) DEF HandleType
<1>5. \A k \in DOMAIN x.changes[b] : k + 1 \in DOMAIN q /\ k + 1 # 1 /\ k \in Nat
                                        /\ x.changes[b][k] = q[k + 1]
  BY <1>2, <1>3
<1> QED
  BY <1>2, <1>3, <1>4, <1>5 DEF x

\* What a queued change does to a stored queue keeps what notifications and
\* later changes rest on.
LEMMA RestFit ==
    ASSUME NEW h, NEW s, NEW r, NEW t, Fit(h, s, r, t), NEW b \in Boxes,
           h.changes[b] # <<>>, NEW items,
           \/ items = s[b]
           \/ items = Applied(s[b], Head(h.changes[b]))
    PROVE  /\ Fit(Rest(h, b), [s EXCEPT ![b] = items], r, t)
           /\ Head(h.changes[b]).by = "call" => NoChangeOf(Rest(h, b), Head(h.changes[b]).id)
           /\ Rest(h, b).calls = h.calls
<1> DEFINE x == Rest(h, b)
           c == Head(h.changes[b])
           u == [s EXCEPT ![b] = items]
<1>0. /\ s \in [Boxes -> SUBSET Ids] /\ r \in SUBSET Ids /\ t \in SUBSET Ids
      /\ HandleType(h) /\ ReadsCurrent(h, s) /\ OfEvents(h, s, r, t)
      /\ NotesRight(h, r, t) /\ OutboxRight(h, s, t) /\ OneOfCall(h)
  BY DEF Fit
<1>1. /\ HandleType(x)
      /\ x.open = h.open /\ x.calls = h.calls /\ x.sending = h.sending
      /\ x.telling = h.telling /\ x.flush = h.flush
      /\ x.changes[b] = Tail(h.changes[b]) /\ x.read[b] = None
      /\ \A d \in Boxes : d # b => x.changes[d] = h.changes[d] /\ x.read[d] = h.read[d]
      /\ \A k \in DOMAIN x.changes[b] :
            /\ k + 1 \in DOMAIN h.changes[b] /\ k + 1 # 1 /\ k \in Nat
            /\ x.changes[b][k] = h.changes[b][k + 1]
      /\ 1 \in DOMAIN h.changes[b] /\ c = h.changes[b][1]
      /\ c \in Changes(b)
  BY <1>0, RestFields
<1> HIDE DEF x, c
<1>2. c.id \in Ids /\ c.act \in {"add", "drop"}
  BY <1>1 DEF Changes
<1>3. items \in SUBSET Ids
  BY <1>0, <1>2 DEF Applied, c
<1>4. u \in [Boxes -> SUBSET Ids] /\ u[b] = items /\ \A d \in Boxes : d # b => u[d] = s[d]
  BY <1>0, <1>3
<1> HIDE DEF u
<1>5. ReadsCurrent(x, u)
  BY <1>0, <1>1, <1>4 DEF ReadsCurrent
\* Every change that is left was there.
<1>6. \A d \in Boxes : \A k \in DOMAIN x.changes[d] :
        \E l \in DOMAIN h.changes[d] : x.changes[d][k] = h.changes[d][l]
  <2> TAKE d \in Boxes
  <2>1. CASE d = b
    BY <1>1, <2>1
  <2>2. CASE d # b
    BY <1>1, <2>2
  <2> QED
    BY <2>1, <2>2
<1>7. NotesRight(x, r, t)
  BY <1>0, <1>6 DEF NotesRight, Boxes
<1>8. u["notes"] \subseteq r /\ s["notes"] \cup t \subseteq u["notes"] \cup t
  <2>1. CASE b = "outbox"
    BY <1>0, <1>4, <2>1 DEF Boxes, OfEvents
  <2>2. CASE b = "notes"
    <3>1. \/ c.act = "add" /\ c.id \in r
          \/ c.act = "drop" /\ c.id \in t
      BY <1>0, <1>1, <2>2 DEF NotesRight
    <3>2. CASE items = s[b]
      BY <1>0, <1>4, <2>2, <3>2 DEF OfEvents
    <3>3. CASE items = Applied(s[b], c)
      BY <1>0, <1>4, <2>2, <3>1, <3>3 DEF OfEvents, Applied
    <3> QED
      BY <3>2, <3>3 DEF c
  <2> QED
    BY <2>1, <2>2 DEF Boxes
<1>9. OfEvents(x, u, r, t)
  BY <1>0, <1>1, <1>8 DEF OfEvents
<1>10. OutboxRight(x, u, t)
  <2> SUFFICES ASSUME NEW k \in DOMAIN x.changes["outbox"]
               PROVE  LET d == x.changes["outbox"][k]
                      IN  \/ d.by = "task" /\ d.act = "drop" /\ d.id \in u["notes"] \cup t
                          \/ d.by = "call" /\ d.act = "add" /\ x.calls[d.id] = "admitting"
                          \/ d.by = "call" /\ d.act = "drop" /\ x.calls[d.id] = "denying"
    BY DEF OutboxRight
  <2>1. PICK l \in DOMAIN h.changes["outbox"] : x.changes["outbox"][k] = h.changes["outbox"][l]
    BY <1>6 DEF Boxes
  <2> QED
    BY <1>0, <1>1, <1>8, <2>1 DEF OutboxRight
<1>11. OneOfCall(x)
  <2>1. CASE b = "notes"
    BY <1>0, <1>1, <2>1 DEF OneOfCall, Boxes
  <2>2. CASE b = "outbox"
    <3> SUFFICES ASSUME NEW j \in DOMAIN x.changes["outbox"], NEW k \in DOMAIN x.changes["outbox"],
                        x.changes["outbox"][j].by = "call", x.changes["outbox"][k].by = "call",
                        x.changes["outbox"][j].id = x.changes["outbox"][k].id
                 PROVE  j = k
      BY DEF OneOfCall
    <3>1. /\ j + 1 \in DOMAIN h.changes["outbox"] /\ x.changes["outbox"][j] = h.changes["outbox"][j + 1]
          /\ k + 1 \in DOMAIN h.changes["outbox"] /\ x.changes["outbox"][k] = h.changes["outbox"][k + 1]
          /\ j \in Nat /\ k \in Nat
      BY <1>1, <2>2
    <3>2. j + 1 = k + 1
      BY <1>0, <3>1 DEF OneOfCall
    <3> QED
      BY <3>1, <3>2
  <2> QED
    BY <2>1, <2>2 DEF Boxes
<1>12. ASSUME c.by = "call"
       PROVE  NoChangeOf(x, c.id)
  <2>1. b = "outbox"
    BY <1>0, <1>1, <1>12 DEF NotesRight, Boxes
  <2> SUFFICES ASSUME NEW k \in DOMAIN x.changes["outbox"],
                      x.changes["outbox"][k].by = "call", x.changes["outbox"][k].id = c.id
               PROVE  FALSE
    BY DEF NoChangeOf
  <2>2. k + 1 \in DOMAIN h.changes["outbox"] /\ x.changes["outbox"][k] = h.changes["outbox"][k + 1]
        /\ k + 1 # 1 /\ 1 \in DOMAIN h.changes["outbox"] /\ c = h.changes["outbox"][1]
    BY <1>1, <2>1
  <2> QED
    BY <1>0, <1>12, <2>2 DEF OneOfCall
<1>13. Fit(x, u, r, t)
  BY <1>0, <1>1, <1>4, <1>5, <1>7, <1>9, <1>10, <1>11 DEF Fit
<1> QED
  BY <1>1, <1>12, <1>13 DEF x, c, u

\* A notification is taken up for an event.
LEMMA TellingFit ==
    ASSUME NEW h, NEW s, NEW r, NEW t, Fit(h, s, r, t), NEW i \in Ids,
           NEW v \in {"none", "notify", "dropping"}, v = "notify" => i \in r
    PROVE  Fit([h EXCEPT !.telling[i] = v], s, r, t)
<1> DEFINE x == [h EXCEPT !.telling[i] = v]
<1>0. HandleType(h)
  BY DEF Fit
<1>1. /\ DOMAIN x = DOMAIN h
      /\ x.open = h.open /\ x.calls = h.calls /\ x.changes = h.changes
      /\ x.sending = h.sending /\ x.read = h.read /\ x.flush = h.flush
      /\ x.telling = [h.telling EXCEPT ![i] = v]
  BY <1>0 DEF HandleType, NoHandle
<1> HIDE DEF x
<1>2. HandleType(x)
  BY <1>0, <1>1 DEF HandleType
<1>3. OfEvents(x, s, r, t)
  BY <1>0, <1>1 DEF Fit, OfEvents, HandleType
<1>4. NotesRight(x, r, t) /\ OutboxRight(x, s, t) /\ OneOfCall(x)
  BY <1>1, SameQueues
<1>5. ReadsCurrent(x, s)
  BY <1>1 DEF Fit, ReadsCurrent
<1>6. Fit(x, s, r, t)
  BY <1>2, <1>3, <1>4, <1>5 DEF Fit
<1> QED
  BY <1>6 DEF x

\* What awaited the first change of a queue goes on, or fails.
LEMMA ResumedFit ==
    ASSUME NEW h, NEW s, NEW r, NEW t, Fit(h, s, r, t), NEW b \in Boxes,
           h.changes[b] # <<>>, NEW ok \in BOOLEAN, NEW items,
           items = IF ok THEN Applied(s[b], Head(h.changes[b])) ELSE s[b]
    PROVE  Fit(Resumed(h, b, Head(h.changes[b]), ok), [s EXCEPT ![b] = items], r, t)
<1> DEFINE x == Rest(h, b)
           c == Head(h.changes[b])
           i == c.id
           u == [s EXCEPT ![b] = items]
<1>1. /\ Fit(x, u, r, t)
      /\ c.by = "call" => NoChangeOf(x, i)
  BY RestFit
<1>2. c \in Changes(b)
  BY RestFields DEF Fit
<1>3. i \in Ids /\ c.act \in {"add", "drop"} /\ c.by \in {"call", "task", "note"}
  BY <1>2 DEF Changes
<1>4. u["notes"] = items \/ b # "notes"
  BY DEF Fit
<1>5. Resumed(h, b, c, ok) =
        CASE c.by = "call" /\ c.act = "add" ->
                 IF ok THEN SendPending([x EXCEPT !.calls[i] = "sending"], i)
                 ELSE [x EXCEPT !.calls[i] = "none"]
          [] c.by = "call" /\ c.act = "drop" -> [x EXCEPT !.calls[i] = "none"]
          [] c.by = "task" /\ c.act = "add" ->
                 IF ok THEN Mutate([x EXCEPT !.sending[i] = "dropping"], "outbox", "drop", i, "task")
                 ELSE Rejected(x, i, FALSE)
          [] c.by = "task" /\ c.act = "drop" ->
                 IF ok THEN Acknowledged(x, i) ELSE Rejected(x, i, FALSE)
          [] OTHER -> [x EXCEPT !.telling[i] = "none"]
  BY DEF Resumed, Rest
<1>6. c.by = "task" /\ c.act = "add" /\ ok => i \in u["notes"] \cup t
  <2> SUFFICES ASSUME c.by = "task", c.act = "add", ok
               PROVE  i \in u["notes"] \cup t
    OBVIOUS
  <2>1. c = h.changes[b][1] /\ 1 \in DOMAIN h.changes[b]
    BY RestFields DEF Fit
  <2>2. b = "notes"
    BY <2>1 DEF Fit, OutboxRight, Boxes
  <2> QED
    BY <1>4, <2>2 DEF Applied
<1> HIDE DEF x, c, i, u
<1>7. CASE c.by = "call"
  <2>1. \A v \in {"none", "sending"} : Fit([x EXCEPT !.calls[i] = v], u, r, t)
    BY <1>1, <1>3, <1>7, CallsFit, ZenonT(40)
  <2>2. Fit(SendPending([x EXCEPT !.calls[i] = "sending"], i), u, r, t)
    BY <1>3, <2>1, SendPendingFit
  <2> QED
    BY <1>3, <1>5, <1>7, <2>1, <2>2 DEF c, u
<1>8. CASE c.by = "task"
  <2>1. Fit(Rejected(x, i, FALSE), u, r, t) /\ Fit(Acknowledged(x, i), u, r, t)
    BY <1>1, <1>3, RejectedFit, AcknowledgedFit
  <2>2. ASSUME c.act = "add", ok
        PROVE  Fit(Mutate([x EXCEPT !.sending[i] = "dropping"], "outbox", "drop", i, "task"), u, r, t)
    <3> DEFINE y == [x EXCEPT !.sending[i] = "dropping"]
    <3>1. Fit(y, u, r, t)
      BY <1>1, <1>3, SendingFit
    <3> HIDE DEF y
    <3>2. Fit(Mutate(y, "outbox", "drop", i, "task"), u, r, t)
      BY <1>3, <1>6, <1>8, <2>2, <3>1, MutateFit DEF Boxes
    <3> QED
      BY <3>2 DEF y
  <2> QED
    BY <1>3, <1>5, <1>8, <2>1, <2>2 DEF c, u
<1>9. CASE c.by = "note"
  <2>1. Fit([x EXCEPT !.telling[i] = "none"], u, r, t)
    BY <1>1, <1>3, TellingFit
  <2> QED
    BY <1>3, <1>5, <1>9, <2>1 DEF c, u
<1> QED
  BY <1>3, <1>7, <1>8, <1>9

\* Events and told messages only become more.
LEMMA RoomFit ==
    ASSUME NEW h, NEW s, NEW r, NEW t, Fit(h, s, r, t),
           NEW q \in SUBSET Ids, r \subseteq q, NEW u \in SUBSET Ids, t \subseteq u, u \subseteq q
    PROVE  Fit(h, s, q, u)
<1>1. OfEvents(h, s, q, u)
  BY DEF Fit, OfEvents
<1>2. NotesRight(h, q, u)
  BY DEF Fit, NotesRight
<1>3. OutboxRight(h, s, u)
  BY DEF Fit, OutboxRight
<1> QED
  BY <1>1, <1>2, <1>3 DEF Fit

\* A handle that is new has nothing under way.
LEMMA NoHandleFit ==
    ASSUME NEW s \in [Boxes -> SUBSET Ids], NEW r \in SUBSET Ids, NEW t \in SUBSET Ids,
           s["notes"] \subseteq r, t \subseteq r, NEW open \in BOOLEAN
    PROVE  Fit([NoHandle EXCEPT !.open = open], s, r, t)
<1> DEFINE x == [NoHandle EXCEPT !.open = open]
<1>1. /\ DOMAIN x = DOMAIN NoHandle /\ x.open = open
      /\ x.calls = [i \in Ids |-> "none"] /\ x.sending = [i \in Ids |-> "none"]
      /\ x.telling = [i \in Ids |-> "none"]
      /\ x.changes = [b \in Boxes |-> <<>>] /\ x.read = [b \in Boxes |-> None]
      /\ x.flush = [box |-> "outbox", items |-> None]
  BY DEF NoHandle
<1> HIDE DEF x
<1>2. HandleType(x)
  <2>1. \A b \in Boxes : <<>> \in Seq(Changes(b))
    OBVIOUS
  <2> QED
    BY <1>1, <2>1 DEF HandleType, Boxes
<1>3. ReadsCurrent(x, s) /\ OfEvents(x, s, r, t)
  BY <1>1 DEF ReadsCurrent, OfEvents
<1>4. NotesRight(x, r, t) /\ OutboxRight(x, s, t) /\ OneOfCall(x)
  BY <1>1 DEF NotesRight, OutboxRight, OneOfCall, Boxes
<1>5. Fit(x, s, r, t)
  BY <1>2, <1>3, <1>4 DEF Fit
<1> QED
  BY <1>5 DEF x

-----------------------------------------------------------------------------
(* The steps.                                                              *)

LEMMA ClosedHandle == NoHandle = [NoHandle EXCEPT !.open = FALSE]
<1>1. NoHandle = [k \in DOMAIN NoHandle |-> NoHandle[k]]
  BY DEF NoHandle
<1>2. NoHandle.open = FALSE
  BY DEF NoHandle
<1> QED
  BY <1>1, <1>2

LEMMA OutboxInit == Init => OutboxInv
<1> SUFFICES ASSUME Init PROVE OutboxInv
  OBVIOUS
<1>1. /\ stored \in [Boxes -> SUBSET Ids] /\ stored["notes"] = {}
      /\ handle = [NoHandle EXCEPT !.open = FALSE] /\ room = {} /\ told = {}
  BY ClosedHandle DEF Init, Boxes
<1>2. Fit([NoHandle EXCEPT !.open = FALSE], stored, room, told)
  BY <1>1, NoHandleFit
<1> QED
  BY <1>1, <1>2 DEF OutboxInv

LEMMA ReadStep ==
    ASSUME OutboxInv, NEW b \in Boxes, ReadBox(b)
    PROVE  OutboxInv'
<1>0. Fit(handle, stored, room, told) /\ HandleType(handle)
  BY DEF OutboxInv, Fit
<1>1. /\ DOMAIN handle' = DOMAIN handle
      /\ handle'.open = handle.open /\ handle'.calls = handle.calls /\ handle'.changes = handle.changes
      /\ handle'.sending = handle.sending /\ handle'.telling = handle.telling
      /\ handle'.flush = handle.flush
      /\ handle'.read = [handle.read EXCEPT ![b] = stored[b]]
      /\ UNCHANGED <<stored, room, told>> /\ handle.changes[b] # <<>>
  BY <1>0 DEF ReadBox, HandleType, NoHandle
<1>2. HandleType(handle')
  BY <1>0, <1>1 DEF Fit, HandleType
<1>3. ReadsCurrent(handle', stored)
  BY <1>0, <1>1 DEF Fit, ReadsCurrent, HandleType
<1>4. NotesRight(handle', room, told) /\ OutboxRight(handle', stored, told) /\ OneOfCall(handle')
  BY <1>0, <1>1, SameQueues
<1>5. OfEvents(handle', stored, room, told)
  BY <1>0, <1>1 DEF Fit, OfEvents
<1>6. Fit(handle', stored, room, told)
  BY <1>0, <1>2, <1>3, <1>4, <1>5 DEF Fit
<1> QED
  BY <1>1, <1>6 DEF OutboxInv

\* What is written is what the first change makes of what is stored.
LEMMA WriteStep ==
    ASSUME OutboxInv, NEW b \in Boxes, WriteBox(b)
    PROVE  /\ OutboxInv'
           /\ handle.changes[b] # <<>>
           /\ stored' \in {stored, [stored EXCEPT ![b] = Applied(@, Head(handle.changes[b]))]}
           /\ UNCHANGED told
<1> DEFINE c == Head(handle.changes[b])
           items == Applied(handle.read[b], c)
<1>0. Fit(handle, stored, room, told) /\ stored \in [Boxes -> SUBSET Ids]
  BY DEF OutboxInv, Fit
<1>1. handle.changes[b] # <<>> /\ handle.read[b] = stored[b]
  BY <1>0 DEF WriteBox, Fit, ReadsCurrent
<1>2. CASE Cardinality(items) <= MaxItems
  <2>1. stored' = [stored EXCEPT ![b] = Applied(stored[b], c)]
        /\ handle' = Resumed(handle, b, c, TRUE) /\ UNCHANGED <<room, told>>
    BY <1>1, <1>2 DEF WriteBox
  <2>3. Fit(Resumed(handle, b, c, TRUE), [stored EXCEPT ![b] = Applied(stored[b], c)], room, told)
    BY <1>0, <1>1, ResumedFit
  <2>2. Fit(handle', stored', room', told')
    BY <2>1, <2>3
  <2> QED
    BY <1>1, <2>1, <2>2 DEF OutboxInv
<1>3. CASE ~(Cardinality(items) <= MaxItems)
  <2>1. stored' = [stored EXCEPT ![b] = stored[b]] /\ stored' = stored
        /\ handle' = Resumed(handle, b, c, FALSE) /\ UNCHANGED <<room, told>>
    BY <1>0, <1>3 DEF WriteBox
  <2>3. Fit(Resumed(handle, b, c, FALSE), [stored EXCEPT ![b] = stored[b]], room, told)
    BY <1>0, <1>1, ResumedFit
  <2>2. Fit(handle', stored', room', told')
    BY <2>1, <2>3
  <2> QED
    BY <1>1, <2>1, <2>2 DEF OutboxInv
<1> QED
  BY <1>2, <1>3

LEMMA ChangeFailsStep ==
    ASSUME OutboxInv, NEW b \in Boxes, ChangeFails(b)
    PROVE  OutboxInv'
<1>0. Fit(handle, stored, room, told) /\ stored \in [Boxes -> SUBSET Ids]
  BY DEF OutboxInv, Fit
<1>1. stored' = [stored EXCEPT ![b] = stored[b]] /\ handle.changes[b] # <<>>
      /\ handle' = Resumed(handle, b, Head(handle.changes[b]), FALSE) /\ UNCHANGED <<room, told>>
  BY <1>0 DEF ChangeFails
<1>2. Fit(handle', stored', room', told')
  BY <1>0, <1>1, ResumedFit
<1> QED
  BY <1>2 DEF OutboxInv

LEMMA SendContentEventStep ==
    ASSUME OutboxInv, NEW i \in Ids, SendContentEvent(i)
    PROVE  OutboxInv'
<1> DEFINE x == [handle EXCEPT !.calls[i] = "admitting"]
<1>0. Fit(handle, stored, room, told)
  BY DEF OutboxInv
<1>1. NoChangeOf(handle, i)
  BY <1>0, CallIdle DEF SendContentEvent
<1>2. Fit(x, stored, room, told) /\ NoChangeOf(x, i) /\ x.calls[i] = "admitting"
  BY <1>0, <1>1, CallsFit, ZenonT(40)
<1>3. handle' = Mutate(x, "outbox", "add", i, "call") /\ UNCHANGED <<stored, room, told>>
  BY DEF SendContentEvent
<1> HIDE DEF x
<1>4. Fit(Mutate(x, "outbox", "add", i, "call"), stored, room, told)
  BY <1>2, MutateFit DEF Boxes
<1> QED
  BY <1>3, <1>4 DEF OutboxInv

LEMMA PostStep ==
    ASSUME OutboxInv, NEW i \in Ids, Post(i)
    PROVE  OutboxInv'
<1> DEFINE x == [handle EXCEPT !.sending[i] = "noting"]
<1>1. room \cup {i} \in SUBSET Ids /\ told \in SUBSET Ids /\ told \subseteq room
  BY DEF OutboxInv, Fit, OfEvents
<1>2. Fit(handle, stored, room \cup {i}, told)
  BY <1>1, RoomFit DEF OutboxInv
<1>3. Fit(x, stored, room \cup {i}, told)
  BY <1>2, SendingFit
<1>4. room' = room \cup {i} /\ handle' = Mutate(x, "notes", "add", i, "task") /\ UNCHANGED <<stored, told>>
  BY DEF Post
<1> HIDE DEF x
<1>5. Fit(Mutate(x, "notes", "add", i, "task"), stored, room \cup {i}, told)
  BY <1>3, MutateFit DEF Boxes
<1> QED
  BY <1>4, <1>5 DEF OutboxInv

LEMMA PostFailsStep ==
    ASSUME OutboxInv, NEW i \in Ids, PostFails(i)
    PROVE  OutboxInv'
<1>1. room' \in SUBSET Ids /\ room \subseteq room' /\ told \in SUBSET Ids /\ told \subseteq room'
      /\ handle' = Rejected(handle, i, FALSE) /\ UNCHANGED <<stored, told>>
  BY DEF OutboxInv, Fit, OfEvents, PostFails
<1>2. Fit(handle, stored, room', told)
  BY <1>1, RoomFit DEF OutboxInv
<1>3. Fit(handle', stored, room', told)
  BY <1>1, <1>2, RejectedFit
<1> QED
  BY <1>1, <1>3 DEF OutboxInv

LEMMA ListStep ==
    ASSUME OutboxInv, NEW b \in Boxes, List(b)
    PROVE  OutboxInv'
<1>0. Fit(handle, stored, room, told) /\ HandleType(handle) /\ stored \in [Boxes -> SUBSET Ids]
  BY DEF OutboxInv, Fit
<1>1. /\ DOMAIN handle' = DOMAIN handle
      /\ handle'.open = handle.open /\ handle'.calls = handle.calls /\ handle'.changes = handle.changes
      /\ handle'.sending = handle.sending /\ handle'.telling = handle.telling
      /\ handle'.read = handle.read
      /\ handle'.flush = [box |-> b, items |-> stored[b]]
      /\ UNCHANGED <<stored, room, told>>
  BY <1>0 DEF List, HandleType, NoHandle
<1>2. HandleType(handle')
  BY <1>0, <1>1 DEF HandleType
<1>3. OfEvents(handle', stored, room, told)
  BY <1>0, <1>1 DEF Fit, OfEvents
<1>4. NotesRight(handle', room, told) /\ OutboxRight(handle', stored, told) /\ OneOfCall(handle')
  BY <1>0, <1>1, SameQueues
<1>5. ReadsCurrent(handle', stored)
  BY <1>0, <1>1 DEF Fit, ReadsCurrent
<1>6. Fit(handle', stored, room, told)
  BY <1>0, <1>2, <1>3, <1>4, <1>5 DEF Fit
<1> QED
  BY <1>1, <1>6 DEF OutboxInv

LEMMA FlushStep ==
    ASSUME OutboxInv, Flush
    PROVE  OutboxInv'
<1>0. Fit(handle, stored, room, told) /\ HandleType(handle)
  BY DEF OutboxInv, Fit
<1> DEFINE x == handle'
<1>1. /\ DOMAIN x = DOMAIN handle
      /\ x.open = handle.open /\ x.calls = handle.calls /\ x.changes = handle.changes
      /\ x.read = handle.read /\ x.flush = [box |-> "outbox", items |-> None]
      /\ x.sending = IF handle.flush.box = "outbox" THEN Flushed(handle.sending, "prepare")
                     ELSE handle.sending
      /\ x.telling = IF handle.flush.box = "outbox" THEN handle.telling
                     ELSE Flushed(handle.telling, "notify")
      /\ UNCHANGED <<stored, room, told>>
  BY <1>0 DEF Flush, HandleType, NoHandle
<1> HIDE DEF x
<1>2. HandleType(x)
  BY <1>0, <1>1 DEF HandleType, Flushed, Boxes
<1>3. OfEvents(x, stored, room, told)
  <2>1. \A i \in Ids : x.telling[i] = "notify" => i \in room
    <3>1. CASE handle.flush.box = "outbox"
      BY <1>0, <1>1, <3>1 DEF Fit, OfEvents
    <3>2. CASE handle.flush.box # "outbox"
      BY <1>0, <1>1, <3>2 DEF Fit, OfEvents, HandleType, Flushed, Boxes, Flush
    <3> QED
      BY <3>1, <3>2
  <2> QED
    BY <1>0, <1>1, <2>1 DEF Fit, OfEvents
<1>4. NotesRight(x, room, told) /\ OutboxRight(x, stored, told) /\ OneOfCall(x)
  BY <1>0, <1>1, SameQueues
<1>5. ReadsCurrent(x, stored)
  BY <1>0, <1>1 DEF Fit, ReadsCurrent
<1>6. Fit(x, stored, room, told)
  BY <1>0, <1>2, <1>3, <1>4, <1>5 DEF Fit
<1> QED
  BY <1>1, <1>6 DEF OutboxInv, x

LEMMA DeliverNotificationStep ==
    ASSUME OutboxInv, NEW i \in Ids, DeliverNotification(i)
    PROVE  OutboxInv'
<1> DEFINE x == [handle EXCEPT !.telling[i] = "dropping"]
<1>1. told \cup {i} \in SUBSET Ids /\ room \in SUBSET Ids /\ told \cup {i} \subseteq room
  BY DEF OutboxInv, Fit, OfEvents, DeliverNotification
<1>2. Fit(handle, stored, room, told \cup {i})
  BY <1>1, RoomFit DEF OutboxInv
<1>3. Fit(x, stored, room, told \cup {i})
  BY <1>2, TellingFit
<1>4. told' = told \cup {i} /\ handle' = Mutate(x, "notes", "drop", i, "note") /\ UNCHANGED <<stored, room>>
  BY DEF DeliverNotification
<1> HIDE DEF x
<1>5. Fit(Mutate(x, "notes", "drop", i, "note"), stored, room, told \cup {i})
  BY <1>3, MutateFit DEF Boxes
<1> QED
  BY <1>4, <1>5 DEF OutboxInv

LEMMA NotificationFailsStep ==
    ASSUME OutboxInv, NEW i \in Ids, NotificationFails(i)
    PROVE  OutboxInv'
<1>1. told' \in SUBSET Ids /\ told \subseteq told' /\ room \in SUBSET Ids /\ told' \subseteq room
      /\ handle' = [handle EXCEPT !.telling[i] = "none"] /\ UNCHANGED <<stored, room>>
  BY DEF OutboxInv, Fit, OfEvents, NotificationFails
<1>2. Fit(handle, stored, room, told')
  BY <1>1, RoomFit DEF OutboxInv
<1>3. Fit(handle', stored, room, told')
  BY <1>1, <1>2, TellingFit
<1> QED
  BY <1>1, <1>3 DEF OutboxInv

LEMMA CloseStep ==
    ASSUME OutboxInv, Close
    PROVE  OutboxInv'
<1>1. room' \in SUBSET Ids /\ room \subseteq room' /\ told \in SUBSET Ids /\ told \subseteq room'
      /\ UNCHANGED <<stored, told>>
  BY DEF OutboxInv, Fit, OfEvents, Close
<1>2. Fit(handle, stored, room', told)
  BY <1>1, RoomFit DEF OutboxInv
<1>3. handle' = [NoHandle EXCEPT !.open = FALSE]
  BY ClosedHandle DEF Close
<1>4. Fit([NoHandle EXCEPT !.open = FALSE], stored, room', told)
  BY <1>2, NoHandleFit DEF Fit, OfEvents
<1> QED
  BY <1>1, <1>3, <1>4 DEF OutboxInv

LEMMA OutboxNext == OutboxInv /\ [Next]_vars => OutboxInv'
<1> SUFFICES ASSUME OutboxInv, [Next]_vars
             PROVE  OutboxInv'
  OBVIOUS
<1>0. Fit(handle, stored, room, told)
  BY DEF OutboxInv
<1>1. CASE Open
  <2>1. Fit([NoHandle EXCEPT !.open = TRUE], stored, room, told)
    BY <1>0, NoHandleFit DEF Fit, OfEvents
  <2> QED
    BY <1>1, <2>1 DEF Open, OutboxInv
<1>2. CASE Syncing
  BY <1>2, ListStep, FlushStep DEF Syncing
<1>3. CASE Close
  BY <1>3, CloseStep
<1>4. CASE \E b \in Boxes : ChangeFails(b) \/ ReadBox(b) \/ WriteBox(b)
  BY <1>4, ChangeFailsStep, ReadStep, WriteStep
<1>5. CASE \E i \in Ids : PostFails(i) \/ NotificationFails(i)
  BY <1>5, PostFailsStep, NotificationFailsStep
<1>6. CASE \E i \in Ids : PrepareFails(i) \/ Deny(i) \/ Prepare(i)
  <2> PICK i \in Ids : PrepareFails(i) \/ Deny(i) \/ Prepare(i)
    BY <1>6
  <2>1. CASE PrepareFails(i) \/ Deny(i)
    BY <1>0, <2>1, RejectedFit DEF PrepareFails, Deny, OutboxInv
  <2>2. CASE Prepare(i)
    BY <1>0, <2>2, SendingFit DEF Prepare, OutboxInv
  <2> QED
    BY <2>1, <2>2
<1>7. CASE \E i \in Ids : SendContentEvent(i) \/ Post(i) \/ DeliverNotification(i)
  BY <1>7, SendContentEventStep, PostStep, DeliverNotificationStep
<1>8. CASE UNCHANGED vars
  BY <1>8 DEF OutboxInv, vars
<1> QED
  BY <1>1, <1>2, <1>3, <1>4, <1>5, <1>6, <1>7, <1>8 DEF Next, Fault, Sending

LEMMA OutboxInvariant == Spec => []OutboxInv
<1>1. Init => OutboxInv
  BY OutboxInit
<1>2. OutboxInv /\ [Next]_vars => OutboxInv'
  BY OutboxNext
<1> QED
  BY <1>1, <1>2, PTL DEF Spec

-----------------------------------------------------------------------------
(* The properties.                                                         *)

\* The queues and the open handle have their types: a queue of changes holds
\* changes of that queue only (matrix-engine-web.ts: mutateOutbox,
\* mutateNotificationOutbox).
THEOREM TypeCorrect == Spec => []TypeOK
<1>1. OutboxInv => TypeOK
  BY FitType
<1> QED
  BY <1>1, OutboxInvariant, PTL

\* The server is told only of events that are in the room, whatever restart
\* found the notification queued (sendPending queues it when the homeserver has
\* named the event; flushNotificationOutbox takes up what is queued).
THEOREM ToldOnlyOfEvents == Spec => []ToldOfEvents
<1>1. OutboxInv => ToldOfEvents
  BY DEF OutboxInv, Fit, OfEvents, ToldOfEvents
<1> QED
  BY <1>1, OutboxInvariant, PTL

\* A message leaves the outbox only behind its stored notification, and the
\* notification only when the server was told: no interleaving of the queued
\* changes, failure or restart loses both (sendPending, deliverNotification).
THEOREM KeptAll == Spec => OwedUntilTold
<1>1. OutboxInv /\ [Next]_vars => KeptUntilTold
  <2> SUFFICES ASSUME OutboxInv, [Next]_vars, NEW i \in Ids, Owed(i), ~Owed(i)'
               PROVE  i \in told' \/ handle.calls[i] = "denying"
    BY DEF KeptUntilTold
  <2>1. CASE \E b \in Boxes : WriteBox(b)
    <3> PICK b \in Boxes : WriteBox(b)
      BY <2>1
    <3> DEFINE c == Head(handle.changes[b])
    <3>1. /\ handle.changes[b] # <<>> /\ UNCHANGED told
          /\ stored' \in {stored, [stored EXCEPT ![b] = Applied(@, c)]}
      BY WriteStep
    <3>2. stored \in [Boxes -> SUBSET Ids] /\ HandleType(handle)
      BY DEF OutboxInv, Fit
    <3>3. 1 \in DOMAIN handle.changes[b] /\ c = handle.changes[b][1]
      BY <3>1, <3>2, RestFields
    <3> HIDE DEF c
    <3>4. stored' = [stored EXCEPT ![b] = Applied(@, c)]
      BY <3>1 DEF Owed
    <3>5. \A d \in Boxes : d # b => stored'[d] = stored[d]
      BY <3>2, <3>4
    <3>6. stored'[b] = Applied(stored[b], c)
      BY <3>2, <3>4
    <3>7. i \in stored[b] /\ i \notin stored'[b]
      BY <3>5 DEF Owed, Boxes
    <3>8. c.act # "add" /\ c.id = i
      BY <3>6, <3>7 DEF Applied
    <3>9. CASE b = "outbox"
      <4>1. \/ c.id \in stored["notes"] \cup told
            \/ handle.calls[c.id] = "denying"
        BY <3>3, <3>8, <3>9 DEF OutboxInv, Fit, OutboxRight
      <4>2. i \notin stored["notes"]
        BY <3>5, <3>9 DEF Owed, Boxes
      <4> QED
        BY <3>1, <3>8, <4>1, <4>2
    <3>10. CASE b = "notes"
      BY <3>1, <3>3, <3>8, <3>10 DEF OutboxInv, Fit, NotesRight
    <3> QED
      BY <3>9, <3>10 DEF Boxes
  <2>2. CASE ~\E b \in Boxes : WriteBox(b)
    <3>1. UNCHANGED stored
      BY <2>2 DEF Next, Open, Syncing, List, Flush, Fault, Close, ChangeFails, PrepareFails,
                  PostFails, NotificationFails, ReadBox, SendContentEvent, Sending, Prepare,
                  Post, DeliverNotification, Deny, vars
    <3> QED
      BY <3>1 DEF Owed
  <2> QED
    BY <2>1, <2>2
<1>2. OutboxInv /\ [Next]_vars => [KeptUntilTold]_vars
  BY <1>1
<1> QED
  BY <1>2, OutboxInvariant, PTL DEF Spec, OwedUntilTold
=============================================================================
