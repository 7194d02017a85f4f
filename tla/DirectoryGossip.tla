------------------------- MODULE DirectoryGossip -------------------------
(***************************************************************************)
(* A monitor that collects the witnesses' statements about one account's   *)
(* directory: createKeyDirectoryGossipMonitor of                           *)
(* packages/volna-messaging-client/src/key-directory-gossip.mjs.           *)
(*                                                                         *)
(* Observers of one or several monitors share a store.  They are shown any *)
(* statements in any order; witnesses need not be honest here, nor are two *)
(* statements compared beyond their heads, which stand for the lists that  *)
(* lead there.                                                             *)
(***************************************************************************)
EXTENDS KeyDirectory

CONSTANTS
    Observers,      \* the observe calls that may be under way
    Times,          \* times of a witness's clock
    NoStatement,
    MaxObserved     \* bound on the observe calls

Statement == [witness : Witnesses, directory : Directories, time : Times]

ASSUME StatementsAssumption == Times \subseteq Nat /\ NoStatement \notin Statement
ASSUME ObservedAssumption == MaxObserved \in Nat

VARIABLES
    evidence,   \* the monitors' store
    watching,   \* each observe call
    observed,   \* how many there were
    shown       \* the statements whose observe call succeeded

gossipVars == <<evidence, watching, observed, shown>>
-----------------------------------------------------------------------------
\* The statement of each checkpoint and witness, and each witness's last.
Evidence ==
    [revision : Nat, kept : SUBSET Statement,
     latest : [Witnesses -> Statement \union {NoStatement}]]

NoEvidence ==
    [revision |-> 0, kept |-> {}, latest |-> [w \in Witnesses |-> NoStatement]]

Resting == [at |-> "none", statement |-> NoStatement, attempts |-> 0, read |-> NoEvidence]
Watching ==
    [at : {"none", "load", "swap"}, statement : Statement \union {NoStatement},
     attempts : Nat, read : Evidence]

GossipInit ==
    /\ evidence = NoEvidence
    /\ watching = [o \in Observers |-> Resting]
    /\ observed = 0
    /\ shown = {}
-----------------------------------------------------------------------------
Count(s) == Len(s.directory.entries)
SameCheckpoint(s, t) == s.directory = t.directory

\* Neither the witness's own last statement nor anybody's statement for as many
\* entries contradicts this one (identity_changed, witness_rollback,
\* witness_equivocation, witness_time_rollback, split_view).
Consistent(s, known) ==
    /\ \A t \in known.kept :
        /\ t.directory.identity = s.directory.identity
        /\ Count(t) = Count(s) => SameCheckpoint(t, s)
    /\ LET last == known.latest[s.witness]
       IN  last # NoStatement =>
               /\ Count(last) <= Count(s)
               /\ Count(last) = Count(s) => SameCheckpoint(last, s)
               /\ last.time <= s.time

\* The statement takes the place of its witness's earlier one for the same
\* checkpoint, beside those for other checkpoints and of other witnesses.
Recorded(s, known) ==
    [revision |-> known.revision + 1,
     kept |-> {t \in known.kept : ~(t.witness = s.witness /\ Count(t) = Count(s))} \union {s},
     latest |-> [known.latest EXCEPT ![s.witness] = s]]

Observe(o) ==
    /\ watching[o] = Resting
    /\ observed < MaxObserved
    /\ observed' = observed + 1
    /\ \E s \in Statement :
        watching' = [watching EXCEPT ![o] = [Resting EXCEPT !.at = "load", !.statement = s]]
    /\ UNCHANGED <<evidence, shown>>

\* The store is read.  The witness's last statement, shown again, needs no
\* write; one that contradicts what is known is refused.
LoadEvidence(o) ==
    LET s == watching[o].statement
    IN  /\ watching[o].at = "load"
        /\ Consistent(s, evidence)
        /\ IF evidence.latest[s.witness] = s
           THEN /\ watching' = [watching EXCEPT ![o] = Resting]
                /\ shown' = shown \union {s}
           ELSE /\ watching' = [watching EXCEPT ![o].at = "swap", ![o].read = evidence]
                /\ UNCHANGED shown
        /\ UNCHANGED <<evidence, observed>>

\* mutated: the state is written whatever it has become
MutSwapEvidence(o) ==
    LET r == watching[o]
    IN  /\ r.at = "swap"
        /\ evidence' = Recorded(r.statement, r.read)
        /\ watching' = [watching EXCEPT ![o] = Resting]
        /\ shown' = shown \union {r.statement}
        /\ UNCHANGED observed

\* The store takes the new state if it is still the one that was read; a lost
\* race starts over, the last one gives up (store_contention).
SwapEvidence(o) ==
    LET r == watching[o]
    IN  /\ r.at = "swap"
        /\ \/ /\ evidence.revision = r.read.revision
              /\ evidence' = Recorded(r.statement, r.read)
              /\ watching' = [watching EXCEPT ![o] = Resting]
              /\ shown' = shown \union {r.statement}
           \/ /\ evidence.revision # r.read.revision
              /\ r.attempts + 1 < MaxAttempts
              /\ watching' = [watching EXCEPT ![o] =
                     [at |-> "load", statement |-> r.statement,
                      attempts |-> r.attempts + 1, read |-> NoEvidence]]
              /\ UNCHANGED <<evidence, shown>>
        /\ UNCHANGED observed

\* The call fails: it is refused, the store fails or the monitor stops, before
\* the store has taken the new state ...
FailObserve(o) ==
    /\ watching[o].at # "none"
    /\ watching' = [watching EXCEPT ![o] = Resting]
    /\ UNCHANGED <<evidence, observed, shown>>

\* ... or after it did.
LoseAnswer(o) ==
    LET r == watching[o]
    IN  /\ r.at = "swap" /\ evidence.revision = r.read.revision
        /\ evidence' = Recorded(r.statement, r.read)
        /\ watching' = [watching EXCEPT ![o] = Resting]
        /\ UNCHANGED <<observed, shown>>
-----------------------------------------------------------------------------
GossipNext ==
    \E o \in Observers :
        Observe(o) \/ LoadEvidence(o) \/ SwapEvidence(o) \/ FailObserve(o) \/ LoseAnswer(o)

GossipSpec == GossipInit /\ [][GossipNext]_gossipVars
-----------------------------------------------------------------------------
GossipTypeOK ==
    /\ evidence \in Evidence
    /\ watching \in [Observers -> Watching]
    /\ observed \in Nat
    /\ shown \subseteq Statement

\* No observer loses another's evidence: each statement that was accepted is
\* recorded, or a later one of its witness for the same checkpoint is; and all
\* that is recorded is of one identity and names one head for a length.
EvidenceKept ==
    /\ \A s \in shown : \E t \in evidence.kept :
        t.witness = s.witness /\ SameCheckpoint(t, s) /\ s.time <= t.time
    /\ \A s, t \in evidence.kept :
        /\ s.directory.identity = t.directory.identity
        /\ Count(s) = Count(t) => SameCheckpoint(s, t)
=============================================================================
