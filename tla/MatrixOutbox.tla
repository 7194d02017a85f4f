---------------------------- MODULE MatrixOutbox ----------------------------
(***************************************************************************)
(* The two durable queues of the Matrix engine in a page: messages that    *)
(* are to be sent, and notifications of sent messages that the server is   *)
(* still to be told of (matrix-engine-web.ts: mutateOutbox,                *)
(* mutateNotificationOutbox, sendPending, deliverNotification,             *)
(* flushOutbox, flushNotificationOutbox, sendContentEvent, and the sync    *)
(* handler of subscribe).                                                  *)
(*                                                                         *)
(* A message is named by its logical id, which is its Matrix transaction   *)
(* id, too: the homeserver makes one event of all its posts.  A queue is   *)
(* changed by a read and a write of the whole of it, one change at a time. *)
(***************************************************************************)
EXTENDS Naturals, Sequences, FiniteSets

CONSTANTS
    Ids,        \* the logical ids of the user's messages
    None,       \* nothing was read
    MaxItems,   \* MAX_OUTBOX_ITEMS
    Faults      \* whether storage calls and requests fail, the page closes

ASSUME NoneIds == \A items \in SUBSET Ids : None # items
ASSUME FiniteIds == IsFiniteSet(Ids)
ASSUME MaxItemsNat == MaxItems \in Nat \ {0}
ASSUME OutboxFaults == Faults \in BOOLEAN

VARIABLES
    stored,     \* the two queues in storage
    handle,     \* the open handle: its calls, tasks and queued changes
    room,       \* the messages that are events of the room
    told        \* the messages whose recipients were notified

vars == <<stored, handle, room, told>>

Boxes == {"outbox", "notes"}

(* calls: sendContentEvent of a message; sending: its sendPending task;    *)
(* telling: its deliverNotification.  changes: the promise chain of a box; *)
(* read: what its first change has read.  flush: the items one has read.   *)
NoHandle == [open |-> FALSE,
             calls |-> [i \in Ids |-> "none"], sending |-> [i \in Ids |-> "none"],
             telling |-> [i \in Ids |-> "none"],
             changes |-> [b \in Boxes |-> <<>>], read |-> [b \in Boxes |-> None],
             flush |-> [box |-> "outbox", items |-> None]]

Init ==
    /\ stored = [b \in Boxes |-> {}]
    /\ handle = NoHandle
    /\ room = {} /\ told = {}

-----------------------------------------------------------------------------
Change(act, i, by) == [act |-> act, id |-> i, by |-> by]

Mutate(h, b, act, i, by) == [h EXCEPT !.changes[b] = Append(@, Change(act, i, by))]

Applied(items, c) == IF c.act = "add" THEN items \cup {c.id} ELSE items \ {c.id}

\* sendPending: a task that runs is shared.
SendPending(h, i) == IF h.sending[i] = "none" THEN [h EXCEPT !.sending[i] = "prepare"] ELSE h

\* A task that fails; sendContentEvent takes a message that was denied out.
Rejected(h, i, denied) ==
    LET ended == [h EXCEPT !.sending[i] = "none"]
    IN  IF h.calls[i] # "sending" THEN ended
        ELSE IF denied THEN Mutate([ended EXCEPT !.calls[i] = "denying"], "outbox", "drop", i, "call")
        ELSE [ended EXCEPT !.calls[i] = "none"]

Acknowledged(h, i) ==
    [h EXCEPT !.sending[i] = "none",
              !.calls[i] = IF @ = "sending" THEN "none" ELSE @]

\* What awaits the first change of a box goes on or fails.
Resumed(h, b, c, ok) ==
    LET next == [h EXCEPT !.changes[b] = Tail(@), !.read[b] = None]
        i == c.id
    IN  CASE c.by = "call" /\ c.act = "add" ->
                 IF ok THEN SendPending([next EXCEPT !.calls[i] = "sending"], i)
                 ELSE [next EXCEPT !.calls[i] = "none"]
          [] c.by = "call" /\ c.act = "drop" -> [next EXCEPT !.calls[i] = "none"]
          [] c.by = "task" /\ c.act = "add" ->
                 IF ok THEN Mutate([next EXCEPT !.sending[i] = "dropping"], "outbox", "drop", i, "task")
                 ELSE Rejected(next, i, FALSE)
          [] c.by = "task" /\ c.act = "drop" ->
                 IF ok THEN Acknowledged(next, i) ELSE Rejected(next, i, FALSE)
          [] OTHER -> [next EXCEPT !.telling[i] = "none"]

\* mutateOutbox, mutateNotificationOutbox: the first change of a box reads it ...
ReadBox(b) ==
    /\ handle.changes[b] # <<>> /\ handle.read[b] = None
    /\ handle' = [handle EXCEPT !.read[b] = stored[b]]
    /\ UNCHANGED <<stored, room, told>>

\* ... and writes the whole of it, unless it is too long.
WriteBox(b) ==
    /\ handle.read[b] # None
    /\ LET c == Head(handle.changes[b])
           items == Applied(handle.read[b], c)
       IN  IF Cardinality(items) <= MaxItems
           THEN /\ stored' = [stored EXCEPT ![b] = items]
                /\ handle' = Resumed(handle, b, c, TRUE)
           ELSE /\ handle' = Resumed(handle, b, c, FALSE)
                /\ UNCHANGED stored
    /\ UNCHANGED <<room, told>>

ChangeFails(b) ==
    /\ Faults /\ handle.changes[b] # <<>>
    /\ handle' = Resumed(handle, b, Head(handle.changes[b]), FALSE)
    /\ UNCHANGED <<stored, room, told>>

-----------------------------------------------------------------------------
(* sendContentEvent and sendPending *)

\* Also the retry of a message that is still queued.  One call at a time for a
\* message: the interface offers the retry when the call has failed.
SendContentEvent(i) ==
    /\ handle.open /\ handle.calls[i] = "none"
    /\ handle' = Mutate([handle EXCEPT !.calls[i] = "admitting"], "outbox", "add", i, "call")
    /\ UNCHANGED <<stored, room, told>>

\* mutated: the notification is queued before the message is sent
MutPrepare(i) ==
    /\ handle.sending[i] = "prepare"
    /\ handle' = Mutate([handle EXCEPT !.sending[i] = "post"], "notes", "add", i, "task")
    /\ UNCHANGED <<stored, room, told>>

Prepare(i) ==
    /\ handle.sending[i] = "prepare"
    /\ handle' = [handle EXCEPT !.sending[i] = "post"]
    /\ UNCHANGED <<stored, room, told>>

\* The server denies the send, or there is no answer.
Deny(i) ==
    /\ handle.sending[i] = "prepare"
    /\ handle' = Rejected(handle, i, TRUE)
    /\ UNCHANGED <<stored, room, told>>

PrepareFails(i) ==
    /\ Faults /\ handle.sending[i] = "prepare"
    /\ handle' = Rejected(handle, i, FALSE)
    /\ UNCHANGED <<stored, room, told>>

\* mutated: a sent message leaves its queue before its notification is queued
MutPost(i) ==
    /\ handle.sending[i] = "post"
    /\ room' = room \cup {i}
    /\ handle' = Mutate([handle EXCEPT !.sending[i] = "dropping"], "outbox", "drop", i, "task")
    /\ UNCHANGED <<stored, told>>

\* sendMatrixContentOnce: what the SDK knows as sent is not posted again, and
\* another post of the transaction has the event's id for an answer.
Post(i) ==
    /\ handle.sending[i] = "post"
    /\ room' = room \cup {i}
    /\ handle' = Mutate([handle EXCEPT !.sending[i] = "noting"], "notes", "add", i, "task")
    /\ UNCHANGED <<stored, told>>

PostFails(i) ==
    /\ Faults /\ handle.sending[i] = "post"
    /\ room' \in {room, room \cup {i}}
    /\ handle' = Rejected(handle, i, FALSE)
    /\ UNCHANGED <<stored, told>>

-----------------------------------------------------------------------------
(* The flushes: after a send, when the handle opens, and at every sync. *)

\* loadOutbox, loadNotificationOutbox: not in the chain of changes.  One flush
\* is between its read and its loop at a time (a bound).
List(b) ==
    /\ handle.open /\ handle.flush.items = None
    /\ handle' = [handle EXCEPT !.flush = [box |-> b, items |-> stored[b]]]
    /\ UNCHANGED <<stored, room, told>>

Flushed(tasks, first) ==
    [i \in Ids |-> IF i \in handle.flush.items /\ tasks[i] = "none" THEN first ELSE tasks[i]]

\* mutated: a sync does not flush the notifications
MutFlush ==
    /\ handle.flush.items # None
    /\ handle' = [handle EXCEPT !.flush = NoHandle.flush,
                                !.sending = IF handle.flush.box = "outbox" THEN Flushed(@, "prepare") ELSE @]
    /\ UNCHANGED <<stored, room, told>>

\* flushOutbox, flushNotificationOutbox: what runs for an item is shared.
Flush ==
    /\ handle.flush.items # None
    /\ LET done == [handle EXCEPT !.flush = NoHandle.flush]
       IN  handle' = IF handle.flush.box = "outbox"
                     THEN [done EXCEPT !.sending = Flushed(@, "prepare")]
                     ELSE [done EXCEPT !.telling = Flushed(@, "notify")]
    /\ UNCHANGED <<stored, room, told>>

\* mutated: the other queue is changed
MutDeliverNotification(i) ==
    /\ handle.telling[i] = "notify"
    /\ told' = told \cup {i}
    /\ handle' = Mutate([handle EXCEPT !.telling[i] = "dropping"], "outbox", "drop", i, "note")
    /\ UNCHANGED <<stored, room>>

DeliverNotification(i) ==
    /\ handle.telling[i] = "notify"
    /\ told' = told \cup {i}
    /\ handle' = Mutate([handle EXCEPT !.telling[i] = "dropping"], "notes", "drop", i, "note")
    /\ UNCHANGED <<stored, room>>

NotificationFails(i) ==
    /\ Faults /\ handle.telling[i] = "notify"
    /\ told' \in {told, told \cup {i}}
    /\ handle' = [handle EXCEPT !.telling[i] = "none"]
    /\ UNCHANGED <<stored, room>>

-----------------------------------------------------------------------------
\* The page closes, or the handle; a post that is under way may still arrive.
Close ==
    /\ Faults /\ handle.open
    /\ handle' = NoHandle
    /\ \E s \in SUBSET {i \in Ids : handle.sending[i] = "post"} : room' = room \cup s
    /\ UNCHANGED <<stored, told>>

Open ==
    /\ ~handle.open
    /\ handle' = [NoHandle EXCEPT !.open = TRUE]
    /\ UNCHANGED <<stored, room, told>>

Syncing == (\E b \in Boxes : List(b)) \/ Flush

Sending(i) == Prepare(i) \/ Post(i) \/ DeliverNotification(i)

Fault ==
    \/ Close
    \/ \E b \in Boxes : ChangeFails(b)
    \/ \E i \in Ids : PrepareFails(i) \/ PostFails(i) \/ NotificationFails(i)

Next ==
    \/ Open \/ Syncing \/ Fault
    \/ \E b \in Boxes : ReadBox(b) \/ WriteBox(b)
    \/ \E i \in Ids : SendContentEvent(i) \/ Sending(i) \/ Deny(i)

Spec == Init /\ [][Next]_vars

\* The account is opened again, the SDK goes on syncing and each sync flushes
\* both queues; the server does not deny a message for ever, and in the end
\* the faults stop, and the user who sends messages again that are queued.
Fairness ==
    /\ WF_vars(Open) /\ WF_vars(Flush)
    /\ \A b \in Boxes : SF_vars(List(b)) /\ WF_vars(ReadBox(b)) /\ WF_vars(WriteBox(b))
    /\ \A i \in Ids :
          SF_vars(Prepare(i)) /\ WF_vars(Post(i)) /\ WF_vars(DeliverNotification(i))
    /\ <>[][~Fault /\ \A i \in Ids : ~SendContentEvent(i)]_vars

FairSpec == Spec /\ Fairness

-----------------------------------------------------------------------------
(* Properties *)

Changes(box) ==
    [act : {"add", "drop"}, id : Ids, by : IF box = "outbox" THEN {"call", "task"} ELSE {"task", "note"}]

TypeOK ==
    /\ stored \in [Boxes -> SUBSET Ids]
    /\ {room, told} \subseteq SUBSET Ids
    /\ handle.open \in BOOLEAN
    /\ handle.calls \in [Ids -> {"none", "admitting", "sending", "denying"}]
    /\ handle.sending \in [Ids -> {"none", "prepare", "post", "noting", "dropping"}]
    /\ handle.telling \in [Ids -> {"none", "notify", "dropping"}]
    /\ \A b \in Boxes :
          /\ handle.changes[b] \in Seq(Changes(b))
          /\ handle.read[b] = None \/ handle.read[b] \in SUBSET Ids
    /\ DOMAIN handle = DOMAIN NoHandle
    /\ DOMAIN handle.changes = Boxes /\ DOMAIN handle.read = Boxes
    /\ handle.flush.box \in Boxes
    /\ handle.flush.items = None \/ handle.flush.items \in SUBSET Ids
    /\ DOMAIN handle.flush = {"box", "items"}

\* A message the user handed over, or the notification of it.
Owed(i) == i \in stored.outbox \cup stored.notes

\* What a call has admitted stays queued, as a message or as its notification,
\* until the server was told of its event, whatever is lost or closes in
\* between; only the call whose message the server denied takes it back.
KeptUntilTold ==
    \A i \in Ids : Owed(i) /\ ~Owed(i)' => i \in told' \/ handle.calls[i] = "denying"
OwedUntilTold == [][KeptUntilTold]_vars

\* The server is told of events that are in the room, also after a restart that
\* finds the notification queued and the message still beside it.
ToldOfEvents == stored.notes \cup told \subseteq room

\* A queued message or notification is settled in the end, wherever a restart
\* or a failed call left it.
Settles == \A i \in Ids : Owed(i) ~> ~Owed(i)
=============================================================================
