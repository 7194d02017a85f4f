-------------------------- MODULE MessagingSurface --------------------------
(***************************************************************************)
(* What a list of conversations or an opened one shows, while messages are *)
(* being deleted (messaging-surface-controller.mjs: listThreads,           *)
(* openThread, deleteContent, filterThreadVisibility, the snapshot of the  *)
(* thread list and the event chat_visibility_updated).                     *)
(*                                                                         *)
(* The device keeps every message; which ones are deleted only the server  *)
(* knows.  A call asks it for conversations, then filters each of them,    *)
(* where there is reason to with one more request (a check).  A clearing   *)
(* is the deletion of every message.                                       *)
(***************************************************************************)
EXTENDS Naturals

CONSTANTS
    Messages,       \* the messages of the first page: <<conversation, number>>
    Calls,          \* the calls that may be under way
    None,           \* no session, no snapshot, no answer
    MaxSessions,    \* bound: objects threadListSession was ever set to
    MaxPages,       \* bound: first pages asked for in a session
    MaxRevision     \* bound: times this device is told of a deletion, by conversation

VARIABLES
    deleted,    \* at the server
    events,     \* messages whose chat_visibility_updated is on its way
    known,      \* messages whose deletion this device was told of
    revisions,  \* visibilityRevisions
    session,    \* threadListSession, and how many there have been
    call        \* the calls

vars == <<deleted, events, known, revisions, session, call>>

Threads == {m[1] : m \in Messages}
Of(t) == {m \in Messages : m[1] = t}

NoSession == [id |-> None, revision |-> 0, snapshot |-> None]
Idle == [kind |-> "none", at |-> "idle", session |-> None, revision |-> 0,
         threads |-> {}, flagged |-> {}, message |-> None, filter |-> [t \in Threads |-> None], shown |-> {}]

\* One conversation's filterThreadVisibility: the revision it has read, and what
\* the server's answer says is deleted.
Unfiltered == [at |-> "new", revision |-> 0, force |-> FALSE, gone |-> {}]

Init ==
    /\ deleted = {} /\ events = {} /\ known = {}
    /\ revisions = [t \in Threads |-> 0]
    /\ session = [current |-> NoSession, made |-> 0]
    /\ call = [c \in Calls |-> Idle]

Become(c, s) == call' = [call EXCEPT ![c] = s]

\* clearThreadListSnapshot: the next list starts a new session.
Cleared == [session EXCEPT !.current = NoSession]

Active(c) == session.current.id = call[c].session
-----------------------------------------------------------------------------
(* filterThreadVisibility *)

NeedsCheck(f, t, flagged) == f.force \/ flagged \cap Of(t) # {} \/ revisions[t] > 0

\* The check is posted, or the conversation is as it is; without a check
\* nothing is awaited.
Filter(c, t, f) ==
    IF NeedsCheck(f, t, call[c].flagged)
    THEN [f EXCEPT !.at = "checking", !.revision = revisions[t]]
    ELSE [f EXCEPT !.at = "done"]

StartFilters(c, force) ==
    [t \in Threads |->
        IF t \in call[c].threads THEN Filter(c, t, [Unfiltered EXCEPT !.force = force]) ELSE None]

\* The server answers a check; the answer may take its time.
ServerChecks(c, t) ==
    /\ call[c].filter[t] # None /\ call[c].filter[t].at = "checking"
    /\ call' = [call EXCEPT ![c].filter[t].at = "answered", ![c].filter[t].gone = deleted \cap Of(t)]
    /\ UNCHANGED <<deleted, events, known, revisions, session>>

\* mutated: the answer is taken whatever happened meanwhile
MutChecked(f, t) == [f EXCEPT !.at = "done"]

\* A deletion in between sends it round again.
Checked(f, t) ==
    IF revisions[t] = f.revision THEN [f EXCEPT !.at = "done"]
    ELSE [Unfiltered EXCEPT !.at = "checking", !.force = TRUE, !.revision = revisions[t]]

\* mutated: a page replaces the snapshot of one that was asked for later
MutKept(c) == Active(c)

\* The page a snapshot may be made of: the last one asked for.  A session that
\* is no longer the current one is written to as well, where nobody reads it.
Kept(c) == Active(c) /\ session.current.revision = call[c].revision

\* A call whose filters are done returns at once: what follows awaits nothing.
Goes(c, s) ==
    IF \E t \in s.threads : s.filter[t].at # "done"
    THEN Become(c, s) /\ UNCHANGED session
    ELSE LET shown == UNION {Of(t) \ s.filter[t].gone : t \in s.threads}
         IN  /\ Become(c, [Idle EXCEPT !.at = "returned", !.kind = s.kind, !.shown = shown])
             /\ session' = IF s.kind = "list" /\ Kept(c)
                           THEN [session EXCEPT !.current.snapshot = [shown |-> shown, asked |-> s.revision]]
                           ELSE session

CheckArrives(c, t) ==
    /\ call[c].filter[t] # None /\ call[c].filter[t].at = "answered"
    /\ \/ Goes(c, [call[c] EXCEPT !.filter[t] = Checked(@, t)])
       \/ Become(c, Idle) /\ UNCHANGED session     \* message_visibility_failed
    /\ UNCHANGED <<deleted, events, known, revisions>>

-----------------------------------------------------------------------------
(* listThreads, of the first page *)

ListThreads(c) ==
    LET fresh == session.current.id = None
        current == IF fresh THEN [NoSession EXCEPT !.id = session.made + 1] ELSE session.current
    IN  /\ call[c].at \in {"idle", "returned"}
        /\ fresh => session.made < MaxSessions
        /\ current.revision < MaxPages
        /\ session' = [current |-> [current EXCEPT !.revision = @ + 1],
                       made |-> IF fresh THEN session.made + 1 ELSE session.made]
        /\ Become(c, [Idle EXCEPT !.kind = "list", !.at = "asking", !.session = current.id,
                         !.revision = current.revision + 1, !.threads = Threads, !.flagged = deleted])
        /\ UNCHANGED <<deleted, events, known, revisions>>

\* The deletions the server knew of when it made its answer, at some time since
\* it was asked.
Answers(c) == {flagged \in SUBSET deleted : call[c].flagged \subseteq flagged}

\* The page carries which conversations have deletions; the answer that finds
\* the session revoked clears the snapshot.
PageArrives(c) ==
    /\ call[c].kind = "list" /\ call[c].at = "asking"
    /\ \/ /\ Active(c)
          /\ \E flagged \in Answers(c) :
                Become(c, [call[c] EXCEPT !.at = "decorating", !.flagged = flagged])
          /\ UNCHANGED session
       \/ Become(c, Idle) /\ session' \in {session} \cup (IF Active(c) THEN {Cleared} ELSE {})
    /\ UNCHANGED <<deleted, events, known, revisions>>

\* The messages were read; the last check of the session before the filters.
Decorated(c) ==
    /\ call[c].kind = "list" /\ call[c].at = "decorating"
    /\ IF Active(c)
       THEN Goes(c, [call[c] EXCEPT !.at = "filtering", !.filter = StartFilters(c, FALSE)])
       ELSE Become(c, Idle) /\ UNCHANGED session
    /\ UNCHANGED <<deleted, events, known, revisions>>

\* getThreadListSnapshot forgets a snapshot that is too old.
Expire ==
    /\ session.current.snapshot # None
    /\ session' = [session EXCEPT !.current.snapshot = None]
    /\ UNCHANGED <<deleted, events, known, revisions, call>>

\* The host's clearThreadListSnapshot, at a logout.
ClearThreadListSnapshot ==
    /\ session.current # NoSession
    /\ session' = Cleared
    /\ UNCHANGED <<deleted, events, known, revisions, call>>
-----------------------------------------------------------------------------
(* openThread and deleteContent *)

OpenThread(c, t) ==
    /\ call[c].at \in {"idle", "returned"}
    /\ Become(c, [Idle EXCEPT !.kind = "open", !.at = "asking", !.threads = {t}, !.flagged = deleted])
    /\ UNCHANGED <<deleted, events, known, revisions, session>>

OpenArrives(c) ==
    /\ call[c].kind = "open" /\ call[c].at = "asking"
    /\ \E flagged \in Answers(c) :
          Become(c, [call[c] EXCEPT !.at = "opened", !.flagged = flagged])
    /\ UNCHANGED <<deleted, events, known, revisions, session>>

\* prepareOpenedThread has synced.
Opened(c) ==
    /\ call[c].at = "opened"
    /\ Goes(c, [call[c] EXCEPT !.at = "filtering", !.filter = StartFilters(c, FALSE)])
    /\ UNCHANGED <<deleted, events, known, revisions>>

DeleteContent(c, m) ==
    /\ call[c].at \in {"idle", "returned"} /\ revisions[m[1]] < MaxRevision
    /\ Become(c, [Idle EXCEPT !.kind = "delete", !.at = "asking", !.threads = {m[1]}, !.message = m])
    /\ UNCHANGED <<deleted, events, known, revisions, session>>

\* mutated: the deletion leaves the snapshot alone
MutTold(m) ==
    /\ revisions[m[1]] < MaxRevision
    /\ known' = known \cup {m}
    /\ revisions' = [revisions EXCEPT ![m[1]] = @ + 1]
    /\ UNCHANGED session

\* What a deletion this device learns of does, by its answer or by the event.
Told(m) ==
    /\ revisions[m[1]] < MaxRevision
    /\ known' = known \cup {m}
    /\ revisions' = [revisions EXCEPT ![m[1]] = @ + 1]
    /\ session' = Cleared

\* The server deletes, and its answer arrives after that; the other devices,
\* and this one's socket, are sent an event.
ServerDeletes(m) ==
    /\ m \notin deleted
    /\ deleted' = deleted \cup {m} /\ events' = events \cup {m}
    /\ UNCHANGED <<known, revisions, session, call>>

\* The conversation is filtered with a check, whatever its page says.
Forced(t, revision) ==
    [u \in Threads |-> IF u # t THEN None
        ELSE [Unfiltered EXCEPT !.at = "checking", !.force = TRUE, !.revision = revision]]

Deleted(c) ==
    LET m == call[c].message
    IN  /\ call[c].kind = "delete" /\ call[c].at = "asking"
        /\ \/ /\ m \in deleted
              /\ Told(m)
              /\ Become(c, [call[c] EXCEPT !.at = "filtering", !.message = None,
                                !.filter = Forced(m[1], revisions[m[1]] + 1)])
           \/ Become(c, Idle) /\ UNCHANGED <<known, revisions, session>>
        /\ UNCHANGED <<deleted, events>>

VisibilityUpdated(m) ==
    /\ m \in events
    /\ events' = events \ {m}
    /\ Told(m)
    /\ UNCHANGED <<deleted, call>>
-----------------------------------------------------------------------------
Next ==
    \/ Expire \/ ClearThreadListSnapshot
    \/ \E m \in Messages : ServerDeletes(m) \/ VisibilityUpdated(m)
    \/ \E c \in Calls :
          \/ ListThreads(c) \/ PageArrives(c) \/ Decorated(c)
          \/ OpenArrives(c) \/ Opened(c) \/ Deleted(c)
          \/ \E m \in Messages : DeleteContent(c, m)
          \/ \E t \in Threads : OpenThread(c, t) \/ ServerChecks(c, t) \/ CheckArrives(c, t)

Spec == Init /\ [][Next]_vars
-----------------------------------------------------------------------------
(* Properties *)

\* A conversation that is opened, or returned by a deletion, does not show a
\* message whose deletion this device had been told of by then, whenever its
\* check was answered.
ReturnsUndeleted ==
    \A c \in Calls :
        call[c].at # "returned" /\ call'[c].at = "returned" /\ call'[c].kind # "list"
            => call'[c].shown \cap known' = {}

\* Nor does the snapshot the list is painted from, whatever pages were under
\* way when the deletion came.
SnapshotUndeleted ==
    session.current.snapshot # None => session.current.snapshot.shown \cap known = {}

\* Of two first pages in flight the one asked for first does not replace the
\* other in the snapshot.
SnapshotsAdvance ==
    LET old == session.current
        new == session'.current
    IN  old.id = new.id /\ old.snapshot # None /\ new.snapshot # None
            => old.snapshot.asked <= new.snapshot.asked
=============================================================================
