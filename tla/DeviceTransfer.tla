--------------------------- MODULE DeviceTransfer ---------------------------
(***************************************************************************)
(* A device's history moves to a new device of the same account            *)
(* (secure-messaging-client.mjs: start-, approve-, continue- and           *)
(* cancelOutgoingDeviceTransfer at the source, start-, poll-, continue-    *)
(* and cancelIncomingDeviceTransfer, setupDevice and completeRegistration  *)
(* at the target; device-transfer.mjs: the encrypted chain of chunks), as  *)
(* the screen of react-native-message-security.tsx calls them.             *)
(*                                                                         *)
(* A chunk holds one record, a hash is what it is the hash of.  The steps  *)
(* of a call are what it does between two awaits; a client that fails to   *)
(* persist is lost like one that crashes.  The server (external) keeps the *)
(* sessions; it takes a request before its sender gives it up.             *)
(***************************************************************************)
EXTENDS Naturals, Sequences, Functions

CONSTANTS
    History,        \* the source's records at the start
    Coming,         \* the records that may come
    None,
    MaxSessions,    \* bound: sessions the target creates
    MaxLives        \* bound: crashes and connections of the source

VARIABLES
    sessions,   \* at the server, and (owed) the records a transfer was approved for
    source,     \* the old device: its records, what it keeps, what it runs
    target      \* the new device

vars == <<sessions, source, target>>

NoSession == [status |-> "none", key |-> None, chunks |-> <<>>, approval |-> None,
              member |-> FALSE, owed |-> {}]
NoEntry == [session |-> None, key |-> None, plan |-> None, final |-> None, next |-> 0,
            inFlight |-> None, approval |-> None, phase |-> "none"]

\* What the target keeps: its identity, the client's state and the records.
Empty == [identity |-> "none", session |-> None, phase |-> "none", history |-> {},
          registered |-> FALSE]

Init ==
    /\ sessions = [s \in 1 .. MaxSessions |-> NoSession]
    /\ source = [records |-> History, disk |-> NoEntry, mem |-> NoEntry, life |-> 1,
                 at |-> "idle", next |-> NoEntry]
    /\ target = [disk |-> Empty, mem |-> Empty, ready |-> FALSE, screen |-> FALSE,
                 at |-> "idle", next |-> "end", got |-> None, cancel |-> "none", of |-> None]

-----------------------------------------------------------------------------
(* The source.  at: what its call awaits; next: the entry it goes on with. *)

\* The user scans the code the target shows; a new key for every attempt.
StartOutgoing ==
    /\ source.at = "idle" /\ source.mem = NoEntry /\ source.life < MaxLives
    /\ target.mem.phase \in {"waiting-source", "confirm-code"}
    /\ source' = [source EXCEPT !.life = @ + 1, !.at = "connecting",
          !.next = [NoEntry EXCEPT !.session = target.mem.session, !.key = source.life + 1,
                        !.phase = "confirm-code"]]
    /\ UNCHANGED <<sessions, target>>

Encrypted(e, kind, seq, content, prev) ==
    [kind |-> kind, key |-> e.key, seq |-> seq, content |-> content, prev |-> prev,
     nonce |-> source.life]

Chunk(e) == Encrypted(e, "history", e.next, e.plan[e.next + 1], e.final)

\* A persist of entry e.
Saving(e, s) == [s EXCEPT !.mem = e, !.at = "saving", !.next = e]

\* mutated: a chunk is sent before the state that names it is saved
MutApproving(e, s) ==
    IF e.next < Len(e.plan)
    THEN [s EXCEPT !.at = "uploading", !.mem = IF e.inFlight = None THEN [e EXCEPT !.inFlight = Chunk(e)] ELSE e]
    ELSE IF e.approval = None
    THEN Saving([e EXCEPT !.approval = Encrypted(e, "approval", 0, Len(e.plan), e.final)], s)
    ELSE [s EXCEPT !.mem = e, !.at = "approving"]

\* The loop of approveOutgoingDeviceTransfer and what follows it: the next
\* chunk is saved before it is sent, and so is the approval.
Approving(e, s) ==
    IF e.next < Len(e.plan)
    THEN IF e.inFlight = None THEN Saving([e EXCEPT !.inFlight = Chunk(e)], s)
         ELSE [s EXCEPT !.mem = e, !.at = "uploading"]
    ELSE IF e.approval = None
    THEN Saving([e EXCEPT !.approval = Encrypted(e, "approval", 0, Len(e.plan), e.final)], s)
    ELSE [s EXCEPT !.mem = e, !.at = "approving"]

\* The records to transfer are those of the first attempt.
Plan == IF source.mem.plan = None THEN source.records ELSE source.mem.plan

\* The user finds the codes equal, or approves again after a failure.
ApproveOutgoing ==
    LET e == [source.mem EXCEPT !.plan = Plan]
    IN  /\ source.at = "idle" /\ source.mem.phase = "confirm-code"
        /\ source' = IF source.mem.plan = None THEN Saving(e, source) ELSE Approving(e, source)
        /\ sessions' = IF source.mem.plan # None THEN sessions
                       ELSE [sessions EXCEPT ![e.session].owed = Range(source.records)]
        /\ UNCHANGED target

\* A saved plan, chunk or approval is followed by the rest of the approval.
SourceSaved ==
    /\ source.at = "saving"
    /\ source' = LET e == source.mem
                     s == [source EXCEPT !.disk = e, !.next = NoEntry, !.at = "idle"]
                 IN  IF e.phase = "confirm-code" /\ e.plan # None THEN Approving(e, s) ELSE s
    /\ UNCHANGED <<sessions, target>>

\* The answers of the server; the source's part of them is the next step.
ServerConnects ==
    LET s == source.next.session
    IN  /\ source.at = "connecting"
        /\ sessions[s].status = "PENDING" /\ sessions[s].key = None
        /\ sessions' = [sessions EXCEPT ![s].key = source.next.key]
        /\ source' = [source EXCEPT !.at = "answered"]
        /\ UNCHANGED target

\* A chunk is added to the chain, or is there already.
Accepts(session, p) ==
    /\ session.status = "PENDING"
    /\ IF p.seq < Len(session.chunks) THEN session.chunks[p.seq + 1] = p ELSE p.seq = Len(session.chunks)

ServerTakesChunk ==
    LET s == source.mem.session
        p == source.mem.inFlight
    IN  /\ source.at = "uploading" /\ Accepts(sessions[s], p)
        /\ sessions' = IF p.seq < Len(sessions[s].chunks) THEN sessions
                       ELSE [sessions EXCEPT ![s].chunks = Append(@, p)]
        /\ source' = [source EXCEPT !.at = "answered"]
        /\ UNCHANGED target

ServerApproves ==
    LET s == source.mem.session
    IN  /\ source.at = "approving"
        /\ \/ sessions[s].status = "PENDING"
           \/ sessions[s].status = "APPROVED" /\ sessions[s].approval = source.mem.approval
        /\ sessions' = [sessions EXCEPT ![s].status = "APPROVED", ![s].approval = source.mem.approval]
        /\ source' = [source EXCEPT !.at = "answered"]
        /\ UNCHANGED target

\* The user cancels the transfer whose codes differ.
CancelOutgoing ==
    /\ source.at = "idle" /\ source.mem.phase = "confirm-code"
    /\ source' = [source EXCEPT !.at = "cancelling"]
    /\ UNCHANGED <<sessions, target>>

Cancellable(session) == session.status \in {"PENDING", "APPROVED", "CANCELLED"}

ServerCancelsOutgoing ==
    /\ source.at = "cancelling" /\ Cancellable(sessions[source.mem.session])
    /\ sessions' = [sessions EXCEPT ![source.mem.session].status = "CANCELLED"]
    /\ source' = [source EXCEPT !.at = "cancelled"]
    /\ UNCHANGED target

SourceAnswered ==
    LET e == source.mem
    IN  /\ \/ /\ source.at = "answered"
              /\ source' =
                    IF e = NoEntry THEN Saving(source.next, source)
                    ELSE IF e.inFlight # None
                    THEN Saving([e EXCEPT !.next = @ + 1, !.final = e.inFlight, !.inFlight = None], source)
                    ELSE Saving([e EXCEPT !.phase = "waiting-target-registration"], source)
           \/ source.at = "cancelled" /\ source' = Saving(NoEntry, source)
        /\ UNCHANGED <<sessions, target>>

\* The poll of an approved transfer; it adds the registered device to the
\* groups (ThreadRekey).
ContinueOutgoing ==
    LET e == source.mem
        session == sessions[e.session]
    IN  /\ source.at = "idle" /\ e.phase \in {"waiting-target-registration", "waiting-target-join"}
        /\ \/ /\ session.status = "COMPLETED"
              /\ source' = Saving(NoEntry, source) /\ UNCHANGED sessions
           \/ /\ session.status = "REGISTERED"
              /\ source' = Saving([e EXCEPT !.phase = "waiting-target-join"], source)
              /\ sessions' = [sessions EXCEPT ![e.session].member = TRUE]
        /\ UNCHANGED target

\* A request fails, before or after the server took it.
SourceFails ==
    /\ source.at \in {"connecting", "uploading", "approving", "cancelling", "answered", "cancelled"}
    /\ source' = [source EXCEPT !.at = "idle", !.next = NoEntry]
    /\ UNCHANGED <<sessions, target>>

SourceCrashes ==
    /\ source.life < MaxLives /\ source.at # "idle"
    /\ source' = [source EXCEPT !.life = @ + 1, !.at = "idle", !.mem = source.disk, !.next = NoEntry]
    /\ UNCHANGED <<sessions, target>>

\* A new message of some conversation; they are listed by conversation.
NewRecord ==
    \E r \in Coming \ Range(source.records), i \in 0 .. Len(source.records) :
        /\ source' = [source EXCEPT !.records = SubSeq(@, 1, i) \o <<r>> \o SubSeq(@, i + 1, Len(@))]
        /\ UNCHANGED <<sessions, target>>

-----------------------------------------------------------------------------
(* The target.  at: what its call awaits; next: what follows a persist;    *)
(* screen: whether the page that polls is shown, with its button to cancel. *)

\* A persist of m; the records it writes are those of its start.
Keeping(m, next) == [target EXCEPT !.mem = m, !.got = m, !.at = "saving", !.next = next]

TargetFree == target.at = "idle" /\ target.cancel = "none" /\ ~target.ready

\* A new identity without the account's signature is saved before the session
\* is asked for; a session there is is shown again.
StartIncoming ==
    /\ TargetFree /\ target.mem.identity # "complete" /\ ~target.screen
    /\ target' = [CASE target.mem.session # None -> target
                    [] target.mem.session = None /\ target.mem.identity = "pending" -> [target EXCEPT !.at = "creating"]
                    [] OTHER -> Keeping([Empty EXCEPT !.identity = "pending"], "create")
                  EXCEPT !.screen = TRUE]
    /\ UNCHANGED <<sessions, source>>

Made == {s \in 1 .. MaxSessions : sessions[s].status # "none"}

ServerCreates ==
    /\ target.at = "creating"
    /\ \E s \in 1 .. MaxSessions \ Made :
          /\ 1 .. s - 1 \subseteq Made
          /\ sessions' = [sessions EXCEPT ![s].status = "PENDING"]
          /\ target' = [target EXCEPT !.at = "created", !.got = s]
    /\ UNCHANGED source

Created ==
    /\ target.at = "created"
    /\ target' = Keeping([target.mem EXCEPT !.session = target.got, !.phase = "waiting-source"], "end")
    /\ UNCHANGED <<sessions, source>>

\* The timer of the screen, every two seconds.
PollIncoming ==
    /\ target.at = "idle" /\ target.screen /\ target.mem.session # None
    /\ target' = [target EXCEPT !.at =
          CASE target.mem.phase = "registered" -> "joining"
            [] target.mem.phase = "identity-complete" -> "registering"
            [] OTHER -> "asking"]
    /\ UNCHANGED <<sessions, source>>

ServerTells ==
    /\ target.at = "asking"
    /\ target' = [target EXCEPT !.at = "told", !.got = sessions[target.mem.session]]
    /\ UNCHANGED <<sessions, source>>

Told ==
    LET session == target.got
    IN  /\ target.at = "told"
        /\ target' =
              CASE session.key # None /\ session.status = "PENDING" ->
                        Keeping([target.mem EXCEPT !.phase = "confirm-code"], "end")
                [] session.key # None /\ session.status = "APPROVED"
                        /\ session.approval.key = session.key -> [target EXCEPT !.at = "listing"]
                [] OTHER -> [target EXCEPT !.at = "idle", !.got = None]
        /\ UNCHANGED <<sessions, source>>

\* The chain that ends in the approval: it decrypts with the channel's key,
\* every chunk names the one before, and there are as many as approved.
Prev(chunks, i) == IF i = 1 THEN None ELSE chunks[i - 1]

ChainFits(session) ==
    LET chunks == session.chunks
    IN  /\ Len(chunks) = session.approval.content
        /\ session.approval.prev = Prev(chunks, Len(chunks) + 1)
        /\ \A i \in 1 .. Len(chunks) :
              /\ chunks[i].key = session.key
              /\ chunks[i].seq = i - 1 /\ chunks[i].prev = Prev(chunks, i)

Imported(chunks) == {chunks[i].content : i \in 1 .. Len(chunks)}

\* mutated: the identity is complete before the records are imported
MutTransferred(m, chunks) == [m EXCEPT !.identity = "complete", !.phase = "identity-complete"]

\* completeIncomingDeviceTransfer up to its persist, and the import before it.
Transferred(m, chunks) ==
    [m EXCEPT !.history = @ \cup Imported(chunks), !.identity = "complete", !.phase = "identity-complete"]

\* All chunks arrive; they stay as they are once the transfer is approved.
ChunksArrive ==
    LET chunks == sessions[target.mem.session].chunks
    IN  /\ target.at = "listing" /\ ChainFits(sessions[target.mem.session])
        /\ target' = Keeping(Transferred(target.mem, chunks), "register")
        /\ UNCHANGED <<sessions, source>>

\* The list breaks off after some pages; what came stays imported.
ChunksFail ==
    /\ target.at = "listing"
    /\ \E n \in 0 .. Len(sessions[target.mem.session].chunks) :
          target' = [target EXCEPT !.at = "idle", !.got = None,
              !.mem.history = @ \cup Imported(SubSeq(sessions[target.mem.session].chunks, 1, n))]
    /\ UNCHANGED <<sessions, source>>

\* setupDevice of a screen that finds a registration pending; nothing polls.
SetupDevice ==
    /\ TargetFree /\ ~target.screen /\ target.mem.identity = "complete"
    /\ target' = [target EXCEPT !.at = "registering"]
    /\ UNCHANGED <<sessions, source>>

\* The server registers a device the account has signed.
ServerRegisters ==
    /\ target.at = "registering"
    /\ target' = [target EXCEPT !.at = "activating"]
    /\ sessions' = IF sessions[target.mem.session].status # "APPROVED" THEN sessions
                   ELSE [sessions EXCEPT ![target.mem.session].status = "REGISTERED"]
    /\ UNCHANGED source

\* The transparency log shows the device, and the directory does.
Activated ==
    /\ target.at = "activating"
    /\ target' = Keeping([target.mem EXCEPT !.registered = TRUE], "ready")
    /\ UNCHANGED <<sessions, source>>

\* Key packages are there; a poll goes on to the groups.
Replenished ==
    /\ target.at = "replenishing"
    /\ target' = Keeping(IF target.screen THEN [target.mem EXCEPT !.phase = "registered"] ELSE target.mem, "end")
    /\ UNCHANGED <<sessions, source>>

\* Once the groups have the new device, and not the old one where it retires.
ServerFinalizes ==
    /\ target.at = "joining"
    /\ sessions[target.mem.session].status = "REGISTERED" /\ sessions[target.mem.session].member
    /\ sessions' = [sessions EXCEPT ![target.mem.session].status = "COMPLETED"]
    /\ target' = [target EXCEPT !.at = "finalized"]
    /\ UNCHANGED source

Finalized ==
    /\ target.at = "finalized"
    /\ target' = Keeping([target.mem EXCEPT !.session = None, !.phase = "none"], "end")
    /\ UNCHANGED <<sessions, source>>

TargetSaved ==
    /\ target.at = "saving"
    /\ target' = [target EXCEPT !.disk = target.got, !.got = None, !.next = "end",
          !.ready = @ \/ target.next = "ready",
          !.at = CASE target.next = "create" -> "creating"
                   [] target.next = "register" -> "registering"
                   [] target.next = "ready" -> "replenishing"
                   [] OTHER -> "idle"]
    /\ UNCHANGED <<sessions, source>>

\* A request fails, before or after the server took it.  Without a session the
\* user may start again.
TargetFails ==
    /\ target.at \in {"creating", "created", "asking", "told", "registering", "activating",
                      "replenishing", "joining", "finalized"}
    /\ target' = [target EXCEPT !.at = "idle", !.got = None, !.screen = @ /\ target.mem.session # None]
    /\ UNCHANGED <<sessions, source>>

\* The client starts again: a registered one is ready, and its transfer is
\* taken to be as far.
TargetCrashes ==
    LET d == target.disk
        m == IF d.registered /\ d.phase = "identity-complete" THEN [d EXCEPT !.phase = "registered"] ELSE d
        t == [target EXCEPT !.mem = m, !.ready = d.registered, !.screen = FALSE, !.at = "idle",
                 !.next = "end", !.got = None, !.cancel = "none", !.of = None]
    IN  /\ target' = IF m = d THEN t ELSE [t EXCEPT !.at = "saving", !.got = m]
        /\ UNCHANGED <<sessions, source>>

\* The user cancels, beside a poll that is under way.
CancelIncoming ==
    /\ target.screen /\ ~target.ready /\ target.cancel = "none" /\ target.mem.session # None
    /\ target' = [target EXCEPT !.cancel = "asking", !.of = target.mem.session]
    /\ UNCHANGED <<sessions, source>>

ServerCancelsIncoming ==
    /\ target.cancel = "asking" /\ Cancellable(sessions[target.of])
    /\ sessions' = [sessions EXCEPT ![target.of].status = "CANCELLED"]
    /\ target' = [target EXCEPT !.cancel = "answered", !.of = None]
    /\ UNCHANGED source

CancelFails ==
    /\ target.cancel \in {"asking", "answered"}
    /\ target' = [target EXCEPT !.cancel = "none", !.of = None]
    /\ UNCHANGED <<sessions, source>>

\* The memory is destroyed, and the call under way ends with it, unless it is
\* saving what it has exported.
Destroyed ==
    /\ target.cancel = "answered"
    /\ target' = [target EXCEPT !.cancel = "clearing", !.mem = Empty, !.screen = FALSE, !.next = "end",
          !.ready = FALSE, !.at = IF @ = "saving" THEN "saving" ELSE "idle",
          !.got = IF target.at = "saving" THEN @ ELSE None]
    /\ UNCHANGED <<sessions, source>>

Cleared ==
    /\ target.cancel = "clearing"
    /\ target' = [target EXCEPT !.cancel = "none", !.disk = Empty]
    /\ UNCHANGED <<sessions, source>>

Expire ==
    \E s \in 1 .. MaxSessions :
        /\ sessions[s].status \in {"PENDING", "APPROVED"}
        /\ sessions' = [sessions EXCEPT ![s].status = "CANCELLED"]
        /\ UNCHANGED <<source, target>>
-----------------------------------------------------------------------------
SourceNext ==
    \/ StartOutgoing \/ ApproveOutgoing \/ ContinueOutgoing \/ CancelOutgoing
    \/ SourceSaved \/ SourceAnswered \/ SourceFails \/ SourceCrashes \/ NewRecord
    \/ ServerConnects \/ ServerTakesChunk \/ ServerApproves \/ ServerCancelsOutgoing

TargetNext ==
    \/ StartIncoming \/ Created \/ PollIncoming \/ Told \/ ChunksArrive \/ ChunksFail
    \/ SetupDevice \/ Activated \/ Replenished \/ Finalized
    \/ TargetSaved \/ TargetFails \/ TargetCrashes
    \/ CancelIncoming \/ CancelFails \/ Destroyed \/ Cleared
    \/ ServerCreates \/ ServerTells \/ ServerRegisters \/ ServerFinalizes \/ ServerCancelsIncoming

Next == SourceNext \/ TargetNext \/ Expire

Spec == Init /\ [][Next]_vars
-----------------------------------------------------------------------------
(* Properties *)

\* When the server counts the new device as registered by a transfer, that
\* device has stored its identity and every record the source had when the
\* transfer was approved, whatever was sent again, broke off or was cancelled.
HistoryArrives ==
    \A s \in 1 .. MaxSessions :
        sessions[s].status \in {"REGISTERED", "COMPLETED"}
            => target.disk.identity = "complete" /\ sessions[s].owed \subseteq target.disk.history

\* What a resumed transfer sends again is what was sent, so that the server
\* never has to refuse it, and what it approves is a chain the target takes.
ResumesAsSent ==
    LET session == sessions[source.mem.session]
    IN  /\ source.at = "uploading" /\ session.status = "PENDING" => Accepts(session, source.mem.inFlight)
        /\ source.at = "approving" /\ session.status = "APPROVED" => session.approval = source.mem.approval
        /\ \A s \in 1 .. MaxSessions : sessions[s].status = "APPROVED" => ChainFits(sessions[s])
=============================================================================
