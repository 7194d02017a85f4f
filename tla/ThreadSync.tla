---------------------------- MODULE ThreadSync ----------------------------
(***************************************************************************)
(* One device's secure client and one of its conversations, within one MLS *)
(* epoch: sendEvent, deliverPending, syncThread, persist, restore and      *)
(* destroyMemory of                                                        *)
(* packages/volna-messaging-client/src/secure-messaging-client.mjs.        *)
(*                                                                         *)
(* The client is one JavaScript object whose calls interleave where they   *)
(* await the network or the device storage; every action below is the code *)
(* from one such await to the next.  Awaits of cryptography run in the     *)
(* same turn (crypto-provider.mjs is synchronous) and are not interleaved. *)
(* A call may find at its next await that the client was destroyed: its    *)
(* references then lead to emptied objects, and it is called detached.     *)
(*                                                                         *)
(* The message store is the atomic one of MessageStore, for histories of   *)
(* less than a chunk: an append is checked against all that is stored.     *)
(* Other members' envelopes differ only by their ratchet generation; the   *)
(* server keeps one envelope for a client envelope id.                     *)
(***************************************************************************)
EXTENDS Integers, Sequences, FiniteSets, SequencesExt

CONSTANTS
    Calls,      \* the calls that may be under way on the client
    PageSize,   \* envelopes on a page of listEnvelopes
    MaxSends,   \* bound on the client envelope ids made
    MaxPeer,    \* bound on the envelopes of other members
    Overlap,    \* calls may overlap (nothing in the client prevents it)
    Release,    \* destroyMemory may come while calls run
    Faults,     \* the device storage may fail
    Gone        \* the thread is not in the message store

ASSUME PageSizeAssumption == PageSize \in Nat \ {0}
ASSUME ModesAssumption == {Overlap, Release, Faults} \subseteq BOOLEAN
ASSUME GoneAssumption == Gone \notin Seq(Nat)

VARIABLES
    log,    \* the server's envelopes of the thread, in order
    phase,  \* the client object: absent, ready, or broken by a failed persist
    mem,    \* its memory: application state, marks, ratchet
    call,   \* what each call is waiting for
    queue,  \* calls with a save in the store's operationTail, in order
    disk,   \* the message store and the encrypted runtime state
    minted  \* client envelope ids made so far (they are never made twice)

vars == <<log, phase, mem, call, queue, disk, minted>>
-----------------------------------------------------------------------------
Self == "self"
Peer == "peer"

\* A pending outbox entry: its ciphertext was made at generation gen.
Item == [token : Nat, gen : Nat]
Envelope == [from : {Self, Peer}, gen : Nat, token : Nat]

\* An envelope is named by its position: the server gives it a unique id.
Positions == DOMAIN log

\* The thread's application state without its records, which are kept apart.
Application == [processed : SUBSET Nat, cursor : Nat, outbox : SUBSET Item]
\* The group state: own messages encrypted, others' generations used up.
Ratchet == [sent : Nat, seen : SUBSET Nat]
Marks == {"none", "append", "replace"}
RuntimeState == [identity : BOOLEAN, app : Application, ratchet : Ratchet]

NoApplication == [processed |-> {}, cursor |-> 0, outbox |-> {}]
NoRatchet == [sent |-> 0, seen |-> {}]
NoMemory == [app |-> NoApplication, records |-> Gone, mark |-> "none",
             ratchet |-> NoRatchet]

NoState == [identity |-> FALSE, app |-> NoApplication, ratchet |-> NoRatchet]
NoItem == [token |-> 0, gen |-> 0]
NoView == [processed |-> {}, records |-> <<>>, cursor |-> 0, changed |-> FALSE,
           asked |-> 0, more |-> FALSE]
NoClone == [app |-> NoApplication, records |-> Gone, mark |-> "none"]
Idle == [pc |-> "idle", role |-> "none", detached |-> FALSE, item |-> NoItem,
         view |-> NoView, clone |-> NoClone, payload |-> NoState]

\* A device that is set up and has joined the thread, before the app starts.
Init ==
    /\ log = <<>>
    /\ phase = "absent"
    /\ mem = NoMemory
    /\ call = [t \in Calls |-> Idle]
    /\ queue = <<>>
    /\ disk = [records |-> <<>>, state |-> [NoState EXCEPT !.identity = TRUE]]
    /\ minted = 0

Restoring == \E t \in Calls : call[t].role = "retry" /\ ~call[t].detached

\* A handle on a ready client is out, and no other call runs on it, or may.
MayBegin(t) ==
    /\ phase = "ready"
    /\ ~Restoring
    /\ call[t] = Idle
    /\ Overlap \/ \A u \in Calls : call[u] = Idle
-----------------------------------------------------------------------------
(* persist.                                                                *)

\* Its first turn: the application state is cloned, the marks are read and
\* saveAllThreads joins the store's queue.  c is the call, m its memory.
Persisting(c, m) ==
    [c EXCEPT !.pc = "save",
              !.clone = [app |-> m.app, records |-> m.records, mark |-> m.mark]]

MarkAppend(mark) == IF mark = "none" THEN "append" ELSE mark

\* The append-only check of writeThread.
AppendAccepted(c) ==
    c.mark = "append" /\ c.records # Gone /\ disk.records # Gone
        => IsPrefix(disk.records, c.records)

\* saveAllThreads: a thread not given is dropped, one not stored or marked is
\* written, any other stays as it is.
Saved(c) ==
    IF c.records = Gone THEN Gone
    ELSE IF disk.records = Gone \/ c.mark # "none" THEN c.records
    ELSE disk.records

At(t) == CHOOSE i \in DOMAIN queue : queue[i] = t
Without(t) == RemoveAt(queue, At(t))

\* It is t's turn in the operationTail of its store; it is t's turn to write.
MaySave(t) ==
    /\ call[t].pc = "save"
    /\ \A i \in 1 .. At(t) - 1 :
        call[queue[i]].pc = "save" => call[queue[i]].detached # call[t].detached
MayWrite(t) ==
    /\ call[t].pc = "write"
    /\ \A i \in 1 .. At(t) - 1 : call[queue[i]].pc # "write"

\* The second turn: the records are stored; setApplicationState, and
\* exportEncryptedState takes the group state as it is now.
SaveDone(t) ==
    /\ MaySave(t)
    /\ AppendAccepted(call[t].clone)
    /\ disk' = [disk EXCEPT !.records = Saved(call[t].clone)]
    /\ call' = [call EXCEPT ![t].pc = "write", ![t].clone = NoClone,
                    ![t].payload =
                        [identity |-> ~call[t].detached,
                         app |-> call[t].clone.app,
                         ratchet |-> IF call[t].detached THEN NoRatchet ELSE mem.ratchet]]
    /\ queue' = Append(Without(t), t)
    /\ UNCHANGED <<log, phase, mem, minted>>

\* Mutant: the operation tail of the store is left rejected.
MutTailKeepsFailure(t) ==
    /\ MaySave(t)
    /\ Faults \/ ~AppendAccepted(call[t].clone)
    /\ call' = [u \in Calls |-> IF u = t \/ call[u] = Idle THEN Idle
                                ELSE [call[u] EXCEPT !.detached = TRUE]]
    /\ phase' = "broken"
    /\ mem' = NoMemory
    /\ UNCHANGED <<log, queue, disk, minted>>

\* A failed save, write or append check: the client is emptied under every
\* call on it.  A restore that fails leaves no client.
PersistFails(t) ==
    /\ \/ MaySave(t) /\ (Faults \/ ~AppendAccepted(call[t].clone))
       \/ MayWrite(t) /\ Faults
    /\ queue' = Without(t)
    /\ IF call[t].detached
       THEN call' = [call EXCEPT ![t] = Idle] /\ UNCHANGED <<phase, mem>>
       ELSE /\ call' = [u \in Calls |->
                            IF u = t \/ call[u] = Idle THEN Idle
                            ELSE [call[u] EXCEPT !.detached = TRUE]]
            /\ phase' = IF call[t].role = "retry" THEN "absent" ELSE "broken"
            /\ mem' = NoMemory
    /\ UNCHANGED <<log, disk, minted>>

\* retryPendingOutbox: the envelopes are posted one by one, oldest first.
NextRetry(outbox) ==
    IF outbox = {} THEN Idle
    ELSE [Idle EXCEPT !.pc = "post", !.role = "retry",
                      !.item = CHOOSE i \in outbox : \A j \in outbox : i.token <= j.token]

\* What call c does after persist: the next page of a sync, the post of a new
\* or of the next pending envelope, or its return.
Continued(c) ==
    CASE c.role = "sync" /\ c.view.more ->
            [Idle EXCEPT !.pc = "fetch", !.role = "sync", !.detached = c.detached,
                         !.view = [c.view EXCEPT !.asked = Len(log)]]
      [] c.role = "send" /\ ~c.detached /\ c.item \in mem.app.outbox ->
            [Idle EXCEPT !.pc = "post", !.role = "send", !.item = c.item]
      [] c.role = "retry" /\ ~c.detached -> NextRetry(mem.app.outbox)
      [] OTHER -> Idle

\* The last turn: saveEncryptedState is done; all marks are cleared.
StateWritten(t) ==
    /\ MayWrite(t)
    /\ disk' = [disk EXCEPT !.state = call[t].payload]
    /\ queue' = Without(t)
    /\ mem' = IF call[t].detached THEN mem ELSE [mem EXCEPT !.mark = "none"]
    /\ call' = [call EXCEPT ![t] = Continued(call[t])]
    /\ UNCHANGED <<log, phase, minted>>
-----------------------------------------------------------------------------
(* syncThread.                                                             *)

\* The call takes its own copy of what the thread has processed and shows.
BeginSync(t) ==
    /\ MayBegin(t)
    /\ call' = [call EXCEPT ![t] = [Idle EXCEPT
            !.pc = "fetch", !.role = "sync",
            !.view = [processed |-> mem.app.processed, records |-> mem.records,
                      cursor |-> mem.app.cursor, changed |-> FALSE,
                      asked |-> Len(log), more |-> FALSE]]]
    /\ UNCHANGED <<log, phase, mem, queue, disk, minted>>

\* The positions of a page that ends at upto and were not processed; those
\* that decrypt.  The device's own envelopes and used generations do not, and
\* count as processed.
Unprocessed(v, upto) == (v.cursor + 1 .. upto) \ v.processed
Decrypts(p) == log[p].from = Peer /\ log[p].gen \notin mem.ratchet.seen

\* A set of positions as a sequence, the lowest first.
InLogOrder(S) ==
    [k \in 1 .. Cardinality(S) |-> CHOOSE p \in S : Cardinality({q \in S : q <= p}) = k]

Shown(v, upto) ==
    v.records \o InLogOrder({p \in Unprocessed(v, upto) : Decrypts(p) /\ p \notin ToSet(v.records)})

\* Mutant: the thread is not marked as changed.
MutUnmarked(v, upto) ==
    [mem EXCEPT
        !.app.processed = v.processed \union Unprocessed(v, upto),
        !.app.cursor = upto,
        !.records = Shown(v, upto),
        !.ratchet.seen = @ \union {log[p].gen : p \in
                            {q \in Unprocessed(v, upto) : log[q].from = Peer}}]

\* Mutant: the checkpoint kept is one past the page.
MutCheckpointPast(v, upto) ==
    [mem EXCEPT
        !.app.processed = v.processed \union Unprocessed(v, upto),
        !.app.cursor = upto + 1,
        !.records = Shown(v, upto),
        !.mark = IF Len(Shown(v, upto)) > Len(mem.records) THEN MarkAppend(@) ELSE @,
        !.ratchet.seen = @ \union {log[p].gen : p \in
                            {q \in Unprocessed(v, upto) : log[q].from = Peer}}]

\* The end of a page: the call's copies replace what the client holds.
Synced(v, upto) ==
    [mem EXCEPT
        !.app.processed = v.processed \union Unprocessed(v, upto),
        !.app.cursor = upto,
        !.records = Shown(v, upto),
        !.mark = IF Len(Shown(v, upto)) > Len(mem.records) THEN MarkAppend(@) ELSE @,
        !.ratchet.seen = @ \union {log[p].gen : p \in
                            {q \in Unprocessed(v, upto) : log[q].from = Peer}}]

\* A page arrives, as the server answered it when its log had n envelopes.  A
\* detached call cannot decrypt; one with nothing to decrypt goes on.
PageArrives(t) ==
    /\ call[t].pc = "fetch"
    /\ \E n \in call[t].view.asked .. Len(log) :
        LET v == call[t].view
            upto == IF v.cursor + PageSize < n THEN v.cursor + PageSize ELSE n
            fresh == Unprocessed(v, upto)
            changed == v.changed \/ fresh # {}
            next == [call[t] EXCEPT !.view =
                        [processed |-> v.processed \union fresh,
                         records |-> IF call[t].detached THEN v.records ELSE Shown(v, upto),
                         cursor |-> upto, changed |-> changed,
                         asked |-> 0, more |-> upto < n]]
            throws == call[t].detached /\ fresh # {}
            persists == ~throws /\ (changed \/ upto # v.cursor)
            m == IF call[t].detached THEN NoMemory ELSE Synced(v, upto)
        IN  /\ mem' = IF call[t].detached THEN mem ELSE m
            /\ call' = [call EXCEPT ![t] = IF persists THEN Persisting(next, m) ELSE Idle]
            /\ queue' = IF persists THEN Append(queue, t) ELSE queue
    /\ UNCHANGED <<log, phase, disk, minted>>
-----------------------------------------------------------------------------
(* sendEvent, deliverPending and the retries of restore.                   *)

\* Mutant: the envelope is posted before the outbox entry is stored.
MutPostFirst(t) ==
    /\ MayBegin(t)
    /\ minted < MaxSends
    /\ minted' = minted + 1
    /\ LET item == [token |-> minted + 1, gen |-> mem.ratchet.sent + 1]
       IN  /\ mem' = [mem EXCEPT !.ratchet.sent = @ + 1, !.app.outbox = @ \union {item}]
           /\ call' = [call EXCEPT ![t] =
                [Idle EXCEPT !.pc = "post", !.role = "send", !.item = item]]
    /\ UNCHANGED <<log, phase, queue, disk>>

\* sendEvent up to its first persist: encrypt, and enter the outbox.
BeginSend(t) ==
    /\ MayBegin(t)
    /\ minted < MaxSends
    /\ minted' = minted + 1
    /\ LET item == [token |-> minted + 1, gen |-> mem.ratchet.sent + 1]
           m == [mem EXCEPT !.ratchet.sent = @ + 1, !.app.outbox = @ \union {item}]
       IN  /\ mem' = m
           /\ call' = [call EXCEPT ![t] =
                Persisting([Idle EXCEPT !.role = "send", !.item = item], m)]
    /\ queue' = Append(queue, t)
    /\ UNCHANGED <<log, phase, disk>>

Posted(item) == {p \in Positions : log[p].from = Self /\ log[p].token = item.token}

\* transport.sendEnvelope reaches the server, which keeps one envelope for a
\* client envelope id and answers with it.
PostArrives(t) ==
    /\ call[t].pc = "post"
    /\ log' = IF Posted(call[t].item) # {} THEN log
              ELSE Append(log, [from |-> Self, gen |-> call[t].item.gen,
                                token |-> call[t].item.token])
    /\ call' = [call EXCEPT ![t].pc = "posted"]
    /\ UNCHANGED <<phase, mem, queue, disk, minted>>

\* The request or its answer is lost: the call throws; the entry stays in the
\* outbox until the next restore.  A restore that fails leaves no client.
PostFails(t) ==
    /\ call[t].pc \in {"post", "posted"}
    /\ call' = [call EXCEPT ![t] = Idle]
    /\ IF call[t].role = "retry"
       THEN phase' = "absent" /\ mem' = NoMemory
       ELSE UNCHANGED <<phase, mem>>
    /\ UNCHANGED <<log, queue, disk, minted>>

\* Mutant: the message sent is put before those shown.
MutPrepend(p, item) ==
    [mem EXCEPT
        !.records = IF p \in ToSet(@) THEN @ ELSE <<p>> \o @,
        !.mark = MarkAppend(@),
        !.app.processed = @ \union {p},
        !.app.outbox = @ \ {item}]

\* The rest of deliverPending: the message joins the thread, the entry leaves
\* the outbox.
Delivered(p, item) ==
    [mem EXCEPT
        !.records = IF p \in ToSet(@) THEN @ ELSE Append(@, p),
        !.mark = MarkAppend(@),
        !.app.processed = @ \union {p},
        !.app.outbox = @ \ {item}]

\* The answer comes back; a detached call finds no identity and throws.
PostReturns(t) ==
    /\ call[t].pc = "posted"
    /\ IF call[t].detached
       THEN call' = [call EXCEPT ![t] = Idle] /\ UNCHANGED <<mem, queue>>
       ELSE \E p \in Posted(call[t].item) :
            LET role == IF call[t].role = "retry" THEN "retry" ELSE "delivered"
                m == Delivered(p, call[t].item)
            IN  /\ mem' = m
                /\ call' = [call EXCEPT ![t] =
                        Persisting([Idle EXCEPT !.role = role], m)]
                /\ queue' = Append(queue, t)
    /\ UNCHANGED <<log, phase, disk, minted>>

\* Mutant: the projection is rebuilt from the runtime state, which has none.
MutRestored ==
    [app |-> disk.state.app, ratchet |-> disk.state.ratchet,
     records |-> <<>>, mark |-> "replace"]

\* restoreMessageProjections: a thread missing from the store is to be written.
Restored ==
    [app |-> disk.state.app, ratchet |-> disk.state.ratchet,
     records |-> IF disk.records = Gone THEN <<>> ELSE disk.records,
     mark |-> IF disk.records = Gone THEN "replace" ELSE "none"]

\* restore: memory is read back, and stored again if a thread was missing; the
\* outbox is retried before the client is handed out.  Reads of the device
\* storage come after the writes issued before them.
Restore(t) ==
    /\ phase = "absent"
    /\ call[t] = Idle
    /\ \A u \in Calls : call[u].pc # "write"
    /\ disk.state.identity
    /\ phase' = "ready"
    /\ LET m == Restored
           retry == [Idle EXCEPT !.role = "retry"]
       IN  /\ mem' = m
           /\ call' = [call EXCEPT ![t] =
                IF m.mark = "replace" THEN Persisting(retry, m)
                ELSE NextRetry(m.app.outbox)]
           /\ queue' = IF m.mark = "replace" THEN Append(queue, t) ELSE queue
    /\ UNCHANGED <<log, disk, minted>>

\* destroyMemory, on logout or when the host lets the account go: it does not
\* wait for the calls under way.  A handle still being restored is awaited.
DestroyMemory ==
    /\ phase \in {"ready", "broken"}
    /\ ~Restoring
    /\ Release \/ \A t \in Calls : call[t] = Idle
    /\ phase' = "absent"
    /\ mem' = NoMemory
    /\ call' = [t \in Calls |-> IF call[t] = Idle THEN Idle
                                ELSE [call[t] EXCEPT !.detached = TRUE]]
    /\ UNCHANGED <<log, queue, disk, minted>>

\* The process dies.
Crash ==
    /\ phase # "absent" \/ \E t \in Calls : call[t] # Idle
    /\ phase' = "absent"
    /\ mem' = NoMemory
    /\ call' = [t \in Calls |-> Idle]
    /\ queue' = <<>>
    /\ UNCHANGED <<log, disk, minted>>

\* Another member posts.
PeerPosts ==
    LET posts == {p \in Positions : log[p].from = Peer}
    IN  /\ Cardinality(posts) < MaxPeer
        /\ log' = Append(log, [from |-> Peer, gen |-> Cardinality(posts) + 1, token |-> 0])
        /\ UNCHANGED <<phase, mem, call, queue, disk, minted>>

Step(t) ==
    \/ BeginSync(t) \/ PageArrives(t)
    \/ BeginSend(t) \/ PostArrives(t) \/ PostFails(t) \/ PostReturns(t)
    \/ SaveDone(t) \/ StateWritten(t) \/ PersistFails(t)
    \/ Restore(t)

Next == (\E t \in Calls : Step(t)) \/ DestroyMemory \/ Crash \/ PeerPosts

Spec == Init /\ [][Next]_vars

\* The host synchronizes an open thread again and again, network and storage
\* answer a call that is made for ever, and a broken client is restarted.
Fairness ==
    /\ \A t \in Calls :
        /\ WF_vars(Restore(t)) /\ SF_vars(BeginSync(t)) /\ SF_vars(PageArrives(t))
        /\ SF_vars(SaveDone(t)) /\ SF_vars(StateWritten(t))
        /\ SF_vars(PostArrives(t)) /\ SF_vars(PostReturns(t))
    /\ WF_vars(phase = "broken" /\ Crash)

FairSpec == Spec /\ Fairness
-----------------------------------------------------------------------------
Records == Seq(Nat) \union {Gone}

CallOK(c) ==
    /\ c.pc \in {"idle", "fetch", "save", "write", "post", "posted"}
    /\ c.role \in {"none", "sync", "send", "delivered", "retry"}
    /\ c.detached \in BOOLEAN
    /\ c.item \in Item
    /\ c.clone.app \in Application
    /\ c.clone.records \in Records
    /\ c.clone.mark \in Marks
    /\ c.payload \in RuntimeState

\* The queue holds each call that waits for the storage, once.
TypeOK ==
    /\ log \in Seq(Envelope)
    /\ phase \in {"absent", "ready", "broken"}
    /\ mem.app \in Application /\ mem.ratchet \in Ratchet
    /\ mem.records \in Records /\ mem.mark \in Marks
    /\ \A t \in Calls : CallOK(call[t])
    /\ ToSet(queue) = {t \in Calls : call[t].pc \in {"save", "write"}}
    /\ IsInjective(queue)
    /\ disk.records \in Records /\ disk.state \in RuntimeState
    /\ minted \in Nat

Stored == IF disk.records = Gone THEN {} ELSE ToSet(disk.records)

\* An envelope of another member that is not in the stored history can still
\* be decrypted from the stored state, whenever the process dies: the stored
\* cursor, processed ids and ratchet never run ahead of the stored records.
PeerKept ==
    \A p \in Positions : log[p].from = Peer =>
        \/ p \in Stored
        \/ /\ p \notin disk.state.app.processed
           /\ p > disk.state.app.cursor
           /\ log[p].gen \notin disk.state.ratchet.seen

\* An envelope of the device that the server accepted is in the stored history
\* or in the stored outbox, where the next restore finds it: a lost answer or a
\* crash never loses what the user sent.
OwnKept ==
    \A p \in Positions : log[p].from = Self =>
        \/ p \in Stored
        \/ [token |-> log[p].token, gen |-> log[p].gen] \in disk.state.app.outbox

\* What a user has seen stored stays: the stored history only grows.
HistoryGrows ==
    [][disk.records # Gone => disk'.records # Gone /\ IsPrefix(disk.records, disk'.records)]_vars

\* A save marked append-only extends what is stored: the check that would
\* empty the client (writeThread's append_only_rollback, append_only_prefix)
\* never fails on the client's own saves.
AppendsExtend ==
    \A t \in Calls : MaySave(t) /\ ~call[t].detached => AppendAccepted(call[t].clone)

\* No two envelopes of the device are made at one generation of its ratchet,
\* across crashes, retries and overlapping calls: other members refuse the
\* second.
FreshGenerations ==
    \A p, q \in Positions :
        log[p].from = Self /\ log[q].from = Self /\ log[p].gen = log[q].gen => p = q

\* Whatever other members post is stored in the end, through crashes, lost
\* answers and storage faults (syncThread from the stored cursor).
PeerDelivered ==
    \A p \in 1 .. MaxSends + MaxPeer :
        (p \in Positions /\ log[p].from = Peer) ~> p \in Stored

\* A device that is set up can always be restored: no write replaces its
\* state by one without an identity.
IdentitySurvives == disk.state.identity
=============================================================================
