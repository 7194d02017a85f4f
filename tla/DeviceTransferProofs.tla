------------------------ MODULE DeviceTransferProofs ------------------------
(***************************************************************************)
(* Proofs about DeviceTransfer: for any history, any records that come and *)
(* any number of sessions and crashes, a device that is registered has the *)
(* records it was owed, and what is sent again is what was sent.           *)
(***************************************************************************)
EXTENDS DeviceTransfer, SequenceTheorems, TLAPS

-----------------------------------------------------------------------------
(* Types.  A packet names the one before it, so a chain has no flat type;  *)
(* a field whose values matter to no step has the type of its value.       *)

Sessions == 1 .. MaxSessions
Records == Range(History) \cup Coming

\* A sequence, whatever its elements are.
IsChain(c) == c \in Seq(Range(c))

IsSession(x) ==
    /\ x \in [status : {"none", "PENDING", "APPROVED", "REGISTERED", "COMPLETED", "CANCELLED"},
              key : {x.key}, chunks : {x.chunks}, approval : {x.approval},
              member : {x.member}, owed : {x.owed}]
    /\ IsChain(x.chunks)

IsEntry(e) ==
    e \in [session : Sessions \cup {None}, key : Nat \cup {None}, plan : Seq(Records) \cup {None},
           final : {e.final}, next : Nat, inFlight : {e.inFlight}, approval : {e.approval},
           phase : {"none", "confirm-code", "waiting-target-registration", "waiting-target-join"}]

IsSource(s) ==
    /\ s \in [records : Seq(Records), disk : {s.disk}, mem : {s.mem}, life : Nat,
              at : {"idle", "connecting", "uploading", "approving", "cancelling", "saving",
                    "answered", "cancelled"},
              next : {s.next}]
    /\ IsEntry(s.disk) /\ IsEntry(s.mem)

IsKept(m) ==
    m \in [identity : {"none", "pending", "complete"}, session : Sessions \cup {None},
           phase : {"none", "waiting-source", "confirm-code", "identity-complete", "registered"},
           history : {m.history}, registered : {m.registered}]

IsTarget(t) ==
    /\ t \in [disk : {t.disk}, mem : {t.mem}, ready : {t.ready}, screen : {t.screen},
              at : {"idle", "creating", "created", "asking", "told", "listing", "saving",
                    "registering", "activating", "replenishing", "joining", "finalized"},
              next : {"end", "create", "register", "ready"}, got : {t.got},
              cancel : {"none", "asking", "answered", "clearing"}, of : Sessions \cup {None}]
    /\ IsKept(t.disk) /\ IsKept(t.mem)
    /\ t.at = "saving" => IsKept(t.got)
    /\ t.at = "created" => t.got \in Sessions

TypesOK ==
    /\ sessions = [s \in Sessions |-> sessions[s]]
    /\ \A s \in Sessions : IsSession(sessions[s])
    /\ IsSource(source)
    /\ IsTarget(target)

(* The invariant *)

\* The server has approved the session, whatever came of it then; it counts the
\* device as registered; it waits for the source.
Decided(x) == x.status \in {"APPROVED", "REGISTERED", "COMPLETED"}
Taken(x) == x.status \in {"REGISTERED", "COMPLETED"}
Open(x) == x.status \in {"none", "PENDING"}

\* The first n chunks are those of the plan, under the key.
Follows(chunks, n, plan, key) ==
    \A i \in 1 .. n :
        /\ chunks[i].key = key /\ chunks[i].seq = i - 1
        /\ chunks[i].content = plan[i] /\ chunks[i].prev = Prev(chunks, i)

\* Nothing is sent before a source connects, and what is approved is a chain the
\* target takes, of all that it is owed.
SessionOK(x) ==
    /\ x.key = None => x.chunks = <<>> /\ x.status \in {"none", "PENDING", "CANCELLED"}
    /\ x.status = "none" => x.key = None
    /\ Decided(x) => ChainFits(x) /\ x.owed \subseteq Imported(x.chunks)

\* An entry without a plan has sent nothing.
Fresh(e, x) ==
    /\ e.next = 0 /\ e.final = None /\ e.inFlight = None /\ e.approval = None
    /\ e.phase = "confirm-code" /\ Len(x.chunks) = 0 /\ ~Decided(x)

\* The chunk in flight is the next of the plan, after all those the server has.
FlightOK(e) ==
    e.inFlight # None =>
        /\ e.next < Len(e.plan) /\ e.approval = None
        /\ e.inFlight.key = e.key /\ e.inFlight.seq = e.next
        /\ e.inFlight.content = e.plan[e.next + 1] /\ e.inFlight.prev = e.final

\* The approval ends the plan.
ApprovalOK(e) ==
    e.approval # None =>
        /\ e.next = Len(e.plan)
        /\ e.approval.key = e.key /\ e.approval.content = Len(e.plan)
        /\ e.approval.prev = e.final

\* The server is as far as the entry with a plan, or has the chunk in flight too.
Begun(e, x) ==
    /\ x.owed = Range(e.plan)
    /\ e.next <= Len(x.chunks) /\ Len(x.chunks) <= e.next + 1 /\ e.next <= Len(e.plan)
    /\ Follows(x.chunks, e.next, e.plan, e.key)
    /\ e.final = Prev(x.chunks, e.next + 1)
    /\ Len(x.chunks) = e.next + 1 => e.inFlight # None /\ x.chunks[e.next + 1] = e.inFlight
    /\ FlightOK(e) /\ ApprovalOK(e)
    /\ Decided(x) => e.approval # None /\ x.approval = e.approval

EntryOK(e, ss) ==
    e # NoEntry =>
        /\ e.session \in Sessions /\ e.key \in Nat /\ e.phase # "none"
        /\ ss[e.session].key = e.key
        /\ IF e.plan = None THEN Fresh(e, ss[e.session]) ELSE Begun(e, ss[e.session])

\* The entry a source starts with.
Starts(e) ==
    /\ e.session \in Sessions /\ e.key \in Nat
    /\ e = [NoEntry EXCEPT !.session = e.session, !.key = e.key, !.phase = "confirm-code"]

SourceOK(s, ss) ==
    /\ EntryOK(s.mem, ss) /\ EntryOK(s.disk, ss)
    /\ s.at # "saving" => s.mem = s.disk
    /\ s.at = "connecting" => s.mem = NoEntry /\ Starts(s.next)
    /\ s.at \in {"uploading", "approving"} => s.mem # NoEntry /\ s.mem.plan # None
    /\ s.at = "uploading" => s.mem.inFlight # None
    /\ s.at = "approving" => s.mem.approval # None
    /\ s.at = "answered" =>
        IF s.mem = NoEntry THEN Starts(s.next) /\ EntryOK(s.next, ss)
        ELSE /\ s.mem.plan # None
             /\ s.mem.inFlight # None => Len(ss[s.mem.session].chunks) = s.mem.next + 1
    /\ s.at = "cancelling" => s.mem # NoEntry

\* What a device keeps of its session, once its identity is complete.
Full(m, ss) ==
    /\ m.phase \in {"waiting-source", "confirm-code"} => m.session # None
    /\ m.phase = "identity-complete" => m.identity = "complete"
    /\ m.identity = "complete" /\ m.session # None =>
        /\ ~Open(ss[m.session])
        /\ Decided(ss[m.session]) => ss[m.session].owed \subseteq m.history

\* What is stored once the save under way is done, and all that may be gone on with.
Kept(t) == IF t.at = "saving" THEN t.got ELSE t.disk
Copies(t) == {t.mem, t.disk, Kept(t)}

Creates(t) == t.at \in {"creating", "created"} \/ (t.at = "saving" /\ t.next = "create")
Registers(t) == t.at = "registering" \/ (t.at = "saving" /\ t.next = "register")

PollOK(t, ss) ==
    /\ t.at \in {"asking", "told", "listing", "joining", "finalized"} => t.mem.session # None
    /\ t.at = "told" /\ t.got.status = "APPROVED" => ~Open(ss[t.mem.session])
    /\ t.at = "listing" => ~Open(ss[t.mem.session])
    /\ t.at = "finalized" => ss[t.mem.session].status = "COMPLETED"

CancelOK(t, ss) ==
    /\ t.cancel = "asking" =>
        t.of \in Sessions /\ t.mem.session \in {t.of, None} /\ (t.mem.session = None => Taken(ss[t.of]))
    /\ t.cancel = "answered" =>
        t.mem.session # None /\ ss[t.mem.session].status = "CANCELLED"
    /\ t.cancel = "clearing" =>
        t.at \in {"idle", "saving"} /\ t.next = "end" /\ t.mem = Empty /\ ~t.screen

TargetOK(t, ss) ==
    /\ \A m \in Copies(t) : Full(m, ss)
    /\ t.mem.identity = "complete" =>
        Kept(t).identity = "complete" /\ Kept(t).session = t.mem.session
    /\ Registers(t) => t.mem.identity = "complete"
    /\ Creates(t) =>
        t.cancel = "none" /\ t.mem.session = None /\ t.mem.identity # "complete"
    /\ PollOK(t, ss) /\ CancelOK(t, ss)

\* A device that is registered has it all, and so has what it is about to store.
Has(m, s, x) ==
    m.identity = "complete" /\ x.owed \subseteq m.history /\ m.session \in {s, None}

ArrivedOK(t, ss) ==
    \A s \in Sessions : Taken(ss[s]) =>
        /\ \A m \in Copies(t) : Has(m, s, ss[s])
        /\ t.cancel \notin {"answered", "clearing"}

TransferInv ==
    /\ TypesOK
    /\ \A s \in Sessions : SessionOK(sessions[s])
    /\ SourceOK(source, sessions)
    /\ TargetOK(target, sessions)
    /\ ArrivedOK(target, sessions)

\* None is no number, no packet and no list of records; the history is a list.
Values ==
    /\ MaxSessions \in Nat
    /\ History \in Seq(Range(History))
    /\ None \notin Nat \cup Seq(Records)
    /\ \A kind, key, seq, content, prev, nonce :
          None # [kind |-> kind, key |-> key, seq |-> seq, content |-> content,
                  prev |-> prev, nonce |-> nonce]
-----------------------------------------------------------------------------
(* What the operators make of an entry, of a source and of a target.       *)

LEMMA NoEntryIs ==
    /\ IsEntry(NoEntry)
    /\ NoEntry.session = None /\ NoEntry.key = None /\ NoEntry.plan = None /\ NoEntry.final = None
    /\ NoEntry.next = 0 /\ NoEntry.inFlight = None /\ NoEntry.approval = None
    /\ NoEntry.phase = "none"
BY DEF NoEntry, IsEntry

LEMMA EmptyIs ==
    /\ IsKept(Empty)
    /\ Empty.identity = "none" /\ Empty.session = None /\ Empty.phase = "none"
    /\ Empty.history = {}
BY DEF Empty, IsKept

LEMMA SavingIs ==
    ASSUME NEW e, IsEntry(e), NEW s, IsSource(s)
    PROVE  LET n == Saving(e, s)
           IN  /\ IsSource(n) /\ n.at = "saving" /\ n.mem = e /\ n.disk = s.disk /\ n.next = e
BY DEF IsSource, Saving

LEMMA AtIs ==
    ASSUME NEW s, IsSource(s), NEW at,
           at \in {"idle", "connecting", "uploading", "approving", "cancelling", "saving",
                   "answered", "cancelled"}
    PROVE  LET n == [s EXCEPT !.at = at]
           IN  /\ IsSource(n) /\ n.at = at /\ n.mem = s.mem /\ n.disk = s.disk /\ n.next = s.next
BY DEF IsSource

LEMMA KeepingIs ==
    ASSUME NEW m, IsKept(m), IsTarget(target),
           NEW next, next \in {"end", "create", "register", "ready"}
    PROVE  LET n == Keeping(m, next)
           IN  /\ IsTarget(n) /\ n.at = "saving" /\ n.next = next
               /\ n.mem = m /\ n.got = m /\ n.disk = target.disk
               /\ n.cancel = target.cancel /\ n.of = target.of /\ n.screen = target.screen
BY DEF IsTarget, Keeping

LEMMA PacketIs ==
    ASSUME Values, NEW e, NEW kind, NEW seq, NEW content, NEW prev
    PROVE  LET p == Encrypted(e, kind, seq, content, prev)
           IN  /\ p # None
               /\ p.key = e.key /\ p.seq = seq /\ p.content = content /\ p.prev = prev
BY DEF Values, Encrypted

LEMMA ChainIs ==
    ASSUME NEW c, IsChain(c)
    PROVE  Len(c) \in Nat /\ DOMAIN c = 1 .. Len(c) /\ (Len(c) = 0 => c = <<>>)
BY LenProperties, EmptySeq DEF IsChain

LEMMA ChainGrows ==
    ASSUME NEW c, IsChain(c), NEW p
    PROVE  LET d == Append(c, p)
           IN  /\ IsChain(d) /\ Len(d) = Len(c) + 1 /\ d[Len(c) + 1] = p
               /\ \A i \in 1 .. Len(c) : d[i] = c[i]
<1> DEFINE S == Range(c) \cup {p}
           d == Append(c, p)
<1>1. c \in Seq(S)
  BY DEF IsChain
<1>2. /\ d \in Seq(S) /\ Len(d) = Len(c) + 1 /\ d[Len(c) + 1] = p
      /\ \A i \in 1 .. Len(c) : d[i] = c[i]
  BY <1>1, AppendProperties
<1>3. d \in Seq(Range(d))
  <2>1. /\ Len(d) \in Nat /\ DOMAIN d = 1 .. Len(d) /\ d \in [1 .. Len(d) -> S]
    BY <1>2, LenProperties
  <2>2. d \in [1 .. Len(d) -> Range(d)]
    BY <2>1 DEF Range
  <2> QED
    BY <2>1, <2>2, SeqDef
<1> QED
  BY <1>2, <1>3 DEF IsChain

LEMMA Lists ==
    ASSUME Values, NEW l \in Seq(Records)
    PROVE  l # None /\ Len(l) \in Nat /\ Range(l) = {l[i] : i \in 1 .. Len(l)}
BY LenProperties DEF Values, Range

-----------------------------------------------------------------------------
(* What the changes of a session leave as it is.                           *)

\* Only the status changes, to no approval that was not there.
SameChain(x, y) ==
    /\ y.key = x.key /\ y.chunks = x.chunks /\ y.approval = x.approval /\ y.owed = x.owed
    /\ Decided(y) => Decided(x)

LEMMA EntryStays ==
    ASSUME NEW e, IsEntry(e), NEW ss, NEW tt, EntryOK(e, ss),
           \A s \in Sessions : SameChain(ss[s], tt[s])
    PROVE  EntryOK(e, tt)
BY DEF EntryOK, SameChain, Fresh, Begun

LEMMA SourceStays ==
    ASSUME NEW src, IsSource(src), NEW ss, NEW tt, SourceOK(src, ss),
           \A s \in Sessions : SameChain(ss[s], tt[s])
    PROVE  SourceOK(src, tt)
<1>1. IsEntry(src.mem) /\ IsEntry(src.disk)
  BY DEF IsSource
<1>2. EntryOK(src.mem, tt) /\ EntryOK(src.disk, tt)
  BY <1>1, EntryStays DEF SourceOK
<1>3. Starts(src.next) => IsEntry(src.next)
  BY NoEntryIs DEF Starts, IsEntry
<1>4. Starts(src.next) /\ EntryOK(src.next, ss) => EntryOK(src.next, tt)
  BY <1>3, EntryStays
<1>5. src.at = "answered" /\ src.mem # NoEntry =>
        Len(tt[src.mem.session].chunks) = Len(ss[src.mem.session].chunks)
  BY <1>1 DEF SourceOK, EntryOK, SameChain
<1> QED
  BY <1>2, <1>4, <1>5 DEF SourceOK

LEMMA SessionStays ==
    ASSUME NEW x, NEW y, IsSession(y), SessionOK(x), SameChain(x, y),
           y.status = "none" => x.status = "none"
    PROVE  SessionOK(y)
BY DEF IsSession, SessionOK, SameChain, ChainFits, Decided

\* For the target: no session waits again, and what was approved stays approved,
\* taken or cancelled, for the same records.
Later(x, y) ==
    /\ Open(y) => Open(x)
    /\ ~Open(x) /\ Decided(y) => Decided(x) /\ y.owed = x.owed
    /\ Taken(x) <=> Taken(y)
    /\ x.status \in {"CANCELLED", "COMPLETED"} => y.status = x.status

LEMMA FullStays ==
    ASSUME NEW m, IsKept(m), NEW ss, NEW tt, Full(m, ss),
           \A s \in Sessions : Later(ss[s], tt[s])
    PROVE  Full(m, tt)
BY DEF IsKept, Full, Later

LEMMA CopiesAre ==
    ASSUME NEW t, IsTarget(t)
    PROVE  \A m \in Copies(t) : IsKept(m)
BY DEF IsTarget, Copies, Kept

LEMMA TargetStays ==
    ASSUME NEW t, IsTarget(t), NEW ss, NEW tt, TargetOK(t, ss), ArrivedOK(t, ss),
           \A s \in Sessions : Later(ss[s], tt[s])
    PROVE  TargetOK(t, tt) /\ ArrivedOK(t, tt)
<1>1. \A m \in Copies(t) : Full(m, tt)
  BY CopiesAre, FullStays DEF TargetOK
<1>2. t.mem.session \in Sessions \cup {None}
  BY DEF IsTarget, IsKept
<1>3. PollOK(t, tt)
  BY <1>2 DEF TargetOK, PollOK, Later
<1>4. CancelOK(t, tt)
  BY <1>2 DEF TargetOK, CancelOK, Later
<1>5. ArrivedOK(t, tt)
  BY DEF ArrivedOK, Later, Has, Taken, Open, Decided
<1> QED
  BY <1>1, <1>3, <1>4, <1>5 DEF TargetOK

-----------------------------------------------------------------------------
(* The approval, one step at a time.                                       *)

\* The chunk in flight was taken: the entry is at the next.
LEMMA Advances ==
    ASSUME Values, NEW e, IsEntry(e), e.plan \in Seq(Records), NEW x, IsSession(x), Begun(e, x),
           e.inFlight # None, Len(x.chunks) = e.next + 1
    PROVE  LET n == [e EXCEPT !.next = @ + 1, !.final = e.inFlight, !.inFlight = None]
           IN  /\ IsEntry(n) /\ Begun(n, x)
               /\ n.session = e.session /\ n.key = e.key /\ n.plan = e.plan /\ n.phase = e.phase
<1> DEFINE n == [e EXCEPT !.next = @ + 1, !.final = e.inFlight, !.inFlight = None]
<1>1. /\ e.session \in Sessions \cup {None} /\ e.key \in Nat \cup {None} /\ e.next \in Nat
      /\ e.phase \in {"none", "confirm-code", "waiting-target-registration", "waiting-target-join"}
  BY DEF IsEntry
<1>2. /\ n.session = e.session /\ n.key = e.key /\ n.plan = e.plan /\ n.phase = e.phase
      /\ n.next = e.next + 1 /\ n.final = e.inFlight /\ n.inFlight = None /\ n.approval = e.approval
  BY DEF IsEntry
<1>3. n \in [session : {n.session}, key : {n.key}, plan : {n.plan}, final : {n.final},
             next : {n.next}, inFlight : {n.inFlight}, approval : {n.approval}, phase : {n.phase}]
  BY DEF IsEntry
<1> HIDE DEF n
<1>4. IsEntry(n)
  BY <1>1, <1>2, <1>3 DEF IsEntry
<1>5. Len(e.plan) \in Nat
  BY Lists
<1>6. e.next + 1 <= Len(e.plan) /\ e.approval = None
  BY <1>1, <1>5 DEF Begun, FlightOK
<1>7. Follows(x.chunks, n.next, n.plan, n.key)
  <2> SUFFICES ASSUME NEW i \in 1 .. e.next + 1
               PROVE  /\ x.chunks[i].key = e.key /\ x.chunks[i].seq = i - 1
                      /\ x.chunks[i].content = e.plan[i] /\ x.chunks[i].prev = Prev(x.chunks, i)
    BY <1>2 DEF Follows
  <2>1. CASE i \in 1 .. e.next
    BY <2>1 DEF Begun, Follows
  <2>2. CASE i = e.next + 1
    BY <1>1, <2>2 DEF Begun, FlightOK
  <2> QED
    BY <1>1, <2>1, <2>2
<1>8. n.final = Prev(x.chunks, n.next + 1)
  BY <1>1, <1>2 DEF Begun, Prev
<1>9. FlightOK(n) /\ ApprovalOK(n)
  BY <1>2, <1>6 DEF FlightOK, ApprovalOK
<1> QED
  BY <1>1, <1>2, <1>4, <1>5, <1>6, <1>7, <1>8, <1>9 DEF Begun, n

\* The phase of an entry with a plan is for the screens.
LEMMA PhaseKeeps ==
    ASSUME NEW e, IsEntry(e), e.plan # None, NEW ss, EntryOK(e, ss), e # NoEntry,
           NEW phase, phase \in {"waiting-target-registration", "waiting-target-join"}
    PROVE  LET n == [e EXCEPT !.phase = phase] IN IsEntry(n) /\ EntryOK(n, ss)
<1> DEFINE n == [e EXCEPT !.phase = phase]
<1>1. /\ IsEntry(n) /\ n.phase = phase /\ n.session = e.session /\ n.key = e.key
      /\ n.plan = e.plan /\ n.next = e.next /\ n.final = e.final
      /\ n.inFlight = e.inFlight /\ n.approval = e.approval
  BY DEF IsEntry
<1> HIDE DEF n
<1>2. Begun(e, ss[e.session]) => Begun(n, ss[e.session])
  BY <1>1 DEF Begun, FlightOK, ApprovalOK
<1>3. EntryOK(n, ss)
  BY <1>1, <1>2 DEF EntryOK
<1> QED
  BY <1>1, <1>3 DEF n

\* The next chunk, or the approval, is prepared.
LEMMA Prepares ==
    ASSUME Values, NEW e, IsEntry(e), e.plan \in Seq(Records), NEW x, IsSession(x), Begun(e, x)
    PROVE  /\ e.next < Len(e.plan) /\ e.inFlight = None =>
                LET n == [e EXCEPT !.inFlight = Chunk(e)]
                IN  /\ IsEntry(n) /\ Begun(n, x)
                    /\ n.session = e.session /\ n.key = e.key /\ n.plan = e.plan /\ n.phase = e.phase
           /\ ~(e.next < Len(e.plan)) /\ e.approval = None =>
                LET n == [e EXCEPT !.approval = Encrypted(e, "approval", 0, Len(e.plan), e.final)]
                IN  /\ IsEntry(n) /\ Begun(n, x)
                    /\ n.session = e.session /\ n.key = e.key /\ n.plan = e.plan /\ n.phase = e.phase
<1>1. Len(e.plan) \in Nat /\ e.next \in Nat /\ Len(x.chunks) \in Nat
  BY Lists, ChainIs DEF IsEntry, IsSession
<1>2. ASSUME e.next < Len(e.plan), e.inFlight = None
      PROVE  LET n == [e EXCEPT !.inFlight = Chunk(e)]
             IN  /\ IsEntry(n) /\ Begun(n, x)
                 /\ n.session = e.session /\ n.key = e.key /\ n.plan = e.plan /\ n.phase = e.phase
  <2> DEFINE p == Chunk(e)
             n == [e EXCEPT !.inFlight = p]
  <2>1. /\ p # None /\ p.key = e.key /\ p.seq = e.next
        /\ p.content = e.plan[e.next + 1] /\ p.prev = e.final
    BY PacketIs DEF Chunk
  <2> HIDE DEF p
  <2>2. /\ IsEntry(n) /\ n.session = e.session /\ n.key = e.key /\ n.plan = e.plan /\ n.phase = e.phase
        /\ n.next = e.next /\ n.final = e.final /\ n.inFlight = p /\ n.approval = e.approval
    BY DEF IsEntry
  <2> HIDE DEF n
  <2>3. e.approval = None
    BY <1>1, <1>2 DEF Begun, ApprovalOK
  <2>4. FlightOK(n) /\ ApprovalOK(n)
    BY <1>1, <1>2, <2>1, <2>2, <2>3 DEF FlightOK, ApprovalOK
  <2>5. Begun(n, x)
    BY <1>1, <1>2, <2>2, <2>4 DEF Begun
  <2> QED
    BY <2>2, <2>5 DEF n, p
<1>3. ASSUME ~(e.next < Len(e.plan)), e.approval = None
      PROVE  LET n == [e EXCEPT !.approval = Encrypted(e, "approval", 0, Len(e.plan), e.final)]
             IN  /\ IsEntry(n) /\ Begun(n, x)
                 /\ n.session = e.session /\ n.key = e.key /\ n.plan = e.plan /\ n.phase = e.phase
  <2> DEFINE p == Encrypted(e, "approval", 0, Len(e.plan), e.final)
             n == [e EXCEPT !.approval = p]
  <2>1. p # None /\ p.key = e.key /\ p.content = Len(e.plan) /\ p.prev = e.final
    BY PacketIs
  <2> HIDE DEF p
  <2>2. /\ IsEntry(n) /\ n.session = e.session /\ n.key = e.key /\ n.plan = e.plan /\ n.phase = e.phase
        /\ n.next = e.next /\ n.final = e.final /\ n.inFlight = e.inFlight /\ n.approval = p
    BY DEF IsEntry
  <2> HIDE DEF n
  <2>3. e.next = Len(e.plan) /\ e.inFlight = None
    BY <1>1, <1>3 DEF Begun, FlightOK
  <2>4. FlightOK(n) /\ ApprovalOK(n)
    BY <2>1, <2>2, <2>3 DEF FlightOK, ApprovalOK
  <2>5. Begun(n, x)
    BY <1>1, <1>3, <2>2, <2>3, <2>4 DEF Begun
  <2> QED
    BY <2>2, <2>5 DEF n, p
<1> QED
  BY <1>2, <1>3

\* Wherever an approval is taken up, it saves, or it sends what it has saved.
LEMMA ApprovingIs ==
    ASSUME Values, NEW e, IsEntry(e), e.plan \in Seq(Records), NEW x, IsSession(x), Begun(e, x),
           NEW s, IsSource(s)
    PROVE  LET n == Approving(e, s)
           IN  /\ IsSource(n) /\ n.disk = s.disk /\ Begun(n.mem, x)
               /\ n.mem.session = e.session /\ n.mem.key = e.key
               /\ n.mem.plan = e.plan /\ n.mem.phase = e.phase
               /\ \/ n.at = "saving"
                  \/ n.at = "uploading" /\ n.mem = e /\ e.inFlight # None
                  \/ n.at = "approving" /\ n.mem = e /\ e.approval # None
<1>1. CASE e.next < Len(e.plan) /\ e.inFlight = None
  <2> DEFINE n == [e EXCEPT !.inFlight = Chunk(e)]
  <2>1. /\ IsEntry(n) /\ Begun(n, x)
        /\ n.session = e.session /\ n.key = e.key /\ n.plan = e.plan /\ n.phase = e.phase
    BY <1>1, Prepares
  <2>2. Approving(e, s) = Saving(n, s)
    BY <1>1 DEF Approving
  <2> HIDE DEF n
  <2> QED
    BY <2>1, <2>2, SavingIs
<1>2. CASE e.next < Len(e.plan) /\ e.inFlight # None
  BY <1>2 DEF Approving, IsSource
<1>3. CASE ~(e.next < Len(e.plan)) /\ e.approval = None
  <2> DEFINE n == [e EXCEPT !.approval = Encrypted(e, "approval", 0, Len(e.plan), e.final)]
  <2>1. /\ IsEntry(n) /\ Begun(n, x)
        /\ n.session = e.session /\ n.key = e.key /\ n.plan = e.plan /\ n.phase = e.phase
    BY <1>3, Prepares
  <2>2. Approving(e, s) = Saving(n, s)
    BY <1>3 DEF Approving
  <2> HIDE DEF n
  <2> QED
    BY <2>1, <2>2, SavingIs
<1>4. CASE ~(e.next < Len(e.plan)) /\ e.approval # None
  BY <1>4 DEF Approving, IsSource
<1> QED
  BY <1>1, <1>2, <1>3, <1>4

-----------------------------------------------------------------------------
(* The steps of the source that leave the sessions alone.                  *)

LEMMA SourceAlone ==
    ASSUME TransferInv, UNCHANGED <<sessions, target>>, IsSource(source'), SourceOK(source', sessions)
    PROVE  TransferInv'
BY DEF TransferInv, TypesOK

LEMMA SourceIs ==
    ASSUME TransferInv
    PROVE  /\ IsSource(source) /\ IsEntry(source.mem) /\ IsEntry(source.disk)
           /\ SourceOK(source, sessions) /\ source.records \in Seq(Records) /\ source.life \in Nat
           /\ \A s \in Sessions : IsSession(sessions[s]) /\ SessionOK(sessions[s])
           /\ EntryOK(NoEntry, sessions)
BY DEF TransferInv, TypesOK, IsSource, EntryOK

LEMMA StartOutgoingKeeps ==
    ASSUME Values, TransferInv, StartOutgoing
    PROVE  TransferInv'
<1> DEFINE e == [NoEntry EXCEPT !.session = target.mem.session, !.key = source.life + 1,
                        !.phase = "confirm-code"]
<1>1. IsSource(source) /\ source.mem = NoEntry /\ source.life \in Nat /\ source.at = "idle"
  BY SourceIs DEF StartOutgoing
<1>2. target.mem.session \in Sessions
  BY DEF TransferInv, TypesOK, IsTarget, IsKept, TargetOK, Copies, Full, StartOutgoing
<1>3. Starts(e)
  BY <1>1, <1>2, NoEntryIs DEF Starts, IsEntry
<1>4. source' = [source EXCEPT !.life = @ + 1, !.at = "connecting", !.next = e]
  BY DEF StartOutgoing
<1> HIDE DEF e
<1>5. /\ IsSource(source') /\ source'.at = "connecting" /\ source'.next = e
      /\ source'.mem = source.mem /\ source'.disk = source.disk
  <2>1. /\ source'.at = "connecting" /\ source'.next = e /\ source'.records = source.records
        /\ source'.mem = source.mem /\ source'.disk = source.disk /\ source'.life = source.life + 1
    BY <1>1, <1>4 DEF IsSource
  <2>2. source' \in [records : {source'.records}, disk : {source'.disk}, mem : {source'.mem},
                      life : {source'.life}, at : {source'.at}, next : {source'.next}]
    BY <1>1, <1>4 DEF IsSource
  <2> QED
    BY <1>1, <2>1, <2>2, SourceIs DEF IsSource
<1>6. SourceOK(source', sessions)
  BY <1>1, <1>3, <1>5, SourceIs DEF SourceOK
<1> QED
  BY <1>5, <1>6, SourceAlone DEF StartOutgoing

LEMMA SourceSavedKeeps ==
    ASSUME Values, TransferInv, SourceSaved
    PROVE  TransferInv'
<1> DEFINE e == source.mem
           s == [source EXCEPT !.disk = e, !.next = NoEntry, !.at = "idle"]
<1>1. IsEntry(e) /\ EntryOK(e, sessions)
  BY SourceIs DEF SourceOK
<1>2. IsSource(s) /\ s.mem = e /\ s.disk = e /\ s.at = "idle"
  BY SourceIs DEF IsSource
<1>3. CASE e.phase = "confirm-code" /\ e.plan # None
  <2>1. source' = Approving(e, s)
    BY <1>3 DEF SourceSaved
  <2>2. e # NoEntry
    BY <1>3, NoEntryIs
  <2>3. /\ e.session \in Sessions /\ e.plan \in Seq(Records)
        /\ IsSession(sessions[e.session]) /\ Begun(e, sessions[e.session])
    BY <1>1, <1>3, <2>2, SourceIs DEF EntryOK, IsEntry
  <2> HIDE DEF s
  <2>4. /\ IsSource(source') /\ source'.disk = e /\ Begun(source'.mem, sessions[e.session])
        /\ source'.mem.session = e.session /\ source'.mem.key = e.key
        /\ source'.mem.plan = e.plan /\ source'.mem.phase = e.phase
        /\ \/ source'.at = "saving"
           \/ source'.at = "uploading" /\ source'.mem = e /\ e.inFlight # None
           \/ source'.at = "approving" /\ source'.mem = e /\ e.approval # None
    BY <1>1, <1>2, <2>1, <2>3, ApprovingIs
  <2>5. EntryOK(source'.mem, sessions)
    BY <1>1, <1>3, <2>2, <2>4 DEF EntryOK
  <2>6. SourceOK(source', sessions)
    BY <1>1, <1>3, <2>2, <2>4, <2>5 DEF SourceOK
  <2> QED
    BY <2>4, <2>6, SourceAlone DEF SourceSaved
<1>4. CASE ~(e.phase = "confirm-code" /\ e.plan # None)
  <2>1. source' = s
    BY <1>4 DEF SourceSaved
  <2>2. SourceOK(s, sessions)
    BY <1>1, <1>2 DEF SourceOK
  <2> HIDE DEF s
  <2> QED
    BY <1>2, <2>1, <2>2, SourceAlone DEF SourceSaved
<1> QED
  BY <1>3, <1>4

LEMMA CancelOutgoingKeeps ==
    ASSUME TransferInv, CancelOutgoing
    PROVE  TransferInv'
<1>1. /\ IsSource(source') /\ source'.at = "cancelling"
      /\ source'.mem = source.mem /\ source'.disk = source.disk
  BY SourceIs, AtIs DEF CancelOutgoing
<1>2. SourceOK(source', sessions)
  BY <1>1, SourceIs, NoEntryIs DEF SourceOK, CancelOutgoing
<1> QED
  BY <1>1, <1>2, SourceAlone DEF CancelOutgoing

LEMMA SourceFailsKeeps ==
    ASSUME TransferInv, SourceFails
    PROVE  TransferInv'
<1>1. /\ IsSource(source') /\ source'.at = "idle"
      /\ source'.mem = source.mem /\ source'.disk = source.disk
  BY SourceIs DEF IsSource, SourceFails
<1>2. SourceOK(source', sessions)
  BY <1>1, SourceIs DEF SourceOK, SourceFails
<1> QED
  BY <1>1, <1>2, SourceAlone DEF SourceFails

LEMMA SourceCrashesKeeps ==
    ASSUME TransferInv, SourceCrashes
    PROVE  TransferInv'
<1>1. /\ IsSource(source') /\ source'.at = "idle"
      /\ source'.mem = source.disk /\ source'.disk = source.disk
  <2>1. /\ source'.at = "idle" /\ source'.next = NoEntry /\ source'.records = source.records
        /\ source'.mem = source.disk /\ source'.disk = source.disk /\ source'.life = source.life + 1
    BY SourceIs DEF IsSource, SourceCrashes
  <2>2. source' \in [records : {source'.records}, disk : {source'.disk}, mem : {source'.mem},
                      life : {source'.life}, at : {source'.at}, next : {source'.next}]
    BY SourceIs DEF IsSource, SourceCrashes
  <2> QED
    BY <2>1, <2>2, SourceIs DEF IsSource
<1>2. SourceOK(source', sessions)
  BY <1>1, SourceIs DEF SourceOK
<1> QED
  BY <1>1, <1>2, SourceAlone DEF SourceCrashes

LEMMA NewRecordKeeps ==
    ASSUME TransferInv, NewRecord
    PROVE  TransferInv'
<1>1. PICK r \in Coming, i \in 0 .. Len(source.records) :
        source' = [source EXCEPT !.records = SubSeq(@, 1, i) \o <<r>> \o SubSeq(@, i + 1, Len(@))]
  BY DEF NewRecord
<1> DEFINE l == source.records
           n == SubSeq(l, 1, i) \o <<r>> \o SubSeq(l, i + 1, Len(l))
<1>2. n \in Seq(Records)
  <2>1. l \in Seq(Records) /\ Len(l) \in Nat
    BY SourceIs, LenProperties
  <2>2. \A j \in 1 .. Len(l) : l[j] \in Records
    BY <2>1, ElementOfSeq
  <2>3. SubSeq(l, 1, i) \in Seq(Records)
    <3>1. \A j \in 1 .. i : l[j] \in Records
      BY <2>1, <2>2
    <3> QED
      BY <2>1, <3>1, SubSeqProperties
  <2>4. SubSeq(l, i + 1, Len(l)) \in Seq(Records)
    <3>1. \A j \in i + 1 .. Len(l) : l[j] \in Records
      BY <2>1, <2>2
    <3> QED
      BY <2>1, <3>1, SubSeqProperties
  <2>5. <<r>> \in Seq(Records)
    BY DEF Records
  <2>6. SubSeq(l, 1, i) \o <<r>> \in Seq(Records)
    BY <2>3, <2>5, ConcatProperties
  <2> QED
    BY <2>4, <2>6, ConcatProperties
<1>3. source' = [source EXCEPT !.records = n]
  BY <1>1
<1> HIDE DEF n
<1>4. /\ IsSource(source') /\ source'.at = source.at /\ source'.next = source.next
      /\ source'.mem = source.mem /\ source'.disk = source.disk
  BY <1>2, <1>3, SourceIs DEF IsSource
<1>5. SourceOK(source', sessions)
  BY <1>4, SourceIs DEF SourceOK
<1> QED
  BY <1>4, <1>5, SourceAlone DEF NewRecord

LEMMA SourceAnsweredKeeps ==
    ASSUME Values, TransferInv, SourceAnswered
    PROVE  TransferInv'
<1> DEFINE e == source.mem
<1>1. IsSource(source) /\ IsEntry(e) /\ EntryOK(e, sessions)
  BY SourceIs DEF SourceOK
<1>2. SUFFICES \E n : IsEntry(n) /\ EntryOK(n, sessions) /\ source' = Saving(n, source)
  <2>1. PICK n : IsEntry(n) /\ EntryOK(n, sessions) /\ source' = Saving(n, source)
    BY <1>2
  <2>2. /\ IsSource(source') /\ source'.at = "saving" /\ source'.mem = n
        /\ source'.disk = source.disk
    BY <1>1, <2>1, SavingIs
  <2>3. SourceOK(source', sessions)
    BY <2>1, <2>2, SourceIs DEF SourceOK
  <2> QED
    BY <2>2, <2>3, SourceAlone DEF SourceAnswered
<1>3. CASE source.at = "cancelled"
  <2>1. source' = Saving(NoEntry, source)
    BY <1>3 DEF SourceAnswered
  <2> QED
    BY <2>1, NoEntryIs, SourceIs
<1>4. CASE source.at = "answered" /\ e = NoEntry
  <2>1. source' = Saving(source.next, source)
    BY <1>4 DEF SourceAnswered
  <2>2. Starts(source.next) /\ EntryOK(source.next, sessions)
    BY <1>4, SourceIs DEF SourceOK
  <2>3. IsEntry(source.next)
    BY <2>2, NoEntryIs DEF Starts, IsEntry
  <2> QED
    BY <2>1, <2>2, <2>3
<1>5. CASE source.at = "answered" /\ e # NoEntry
  <2>1. /\ e.plan \in Seq(Records) /\ e.plan # None /\ e.session \in Sessions /\ e.key \in Nat
        /\ IsSession(sessions[e.session]) /\ Begun(e, sessions[e.session])
        /\ e.inFlight # None => Len(sessions[e.session].chunks) = e.next + 1
        /\ sessions[e.session].key = e.key /\ e.phase # "none"
    BY <1>1, <1>5, SourceIs DEF EntryOK, SourceOK, IsEntry
  <2>2. CASE e.inFlight # None
    <3> DEFINE n == [e EXCEPT !.next = @ + 1, !.final = e.inFlight, !.inFlight = None]
    <3>1. /\ IsEntry(n) /\ Begun(n, sessions[e.session])
          /\ n.session = e.session /\ n.key = e.key /\ n.plan = e.plan /\ n.phase = e.phase
      BY <1>1, <2>1, <2>2, Advances
    <3>2. source' = Saving(n, source)
      BY <1>5, <2>2 DEF SourceAnswered
    <3> HIDE DEF n
    <3>3. EntryOK(n, sessions)
      BY <2>1, <3>1 DEF EntryOK
    <3> QED
      BY <3>1, <3>2, <3>3
  <2>3. CASE e.inFlight = None
    <3> DEFINE n == [e EXCEPT !.phase = "waiting-target-registration"]
    <3>1. source' = Saving(n, source)
      BY <1>5, <2>3 DEF SourceAnswered
    <3>2. IsEntry(n) /\ EntryOK(n, sessions)
      BY <1>1, <1>5, <2>1, PhaseKeeps
    <3> QED
      BY <3>1, <3>2
  <2> QED
    BY <2>2, <2>3
<1> QED
  BY <1>3, <1>4, <1>5 DEF SourceAnswered

-----------------------------------------------------------------------------
(* The steps of the source's requests that change a session.               *)

LEMMA Put ==
    ASSUME NEW ss, ss = [z \in Sessions |-> ss[z]], NEW s \in Sessions, NEW y,
           NEW tt, tt = [ss EXCEPT ![s] = y]
    PROVE  /\ tt = [z \in Sessions |-> tt[z]] /\ tt[s] = y
           /\ \A z \in Sessions : z # s => tt[z] = ss[z]
OBVIOUS

LEMMA SessionsPut ==
    ASSUME TransferInv, NEW s \in Sessions, NEW y, IsSession(y), SessionOK(y),
           sessions' = [sessions EXCEPT ![s] = y]
    PROVE  /\ sessions' = [z \in Sessions |-> sessions'[z]] /\ sessions'[s] = y
           /\ \A z \in Sessions : z # s => sessions'[z] = sessions[z]
           /\ \A z \in Sessions : IsSession(sessions'[z]) /\ SessionOK(sessions'[z])
<1>1. sessions = [z \in Sessions |-> sessions[z]]
  BY DEF TransferInv, TypesOK
<1>2. /\ sessions' = [z \in Sessions |-> sessions'[z]] /\ sessions'[s] = y
      /\ \A z \in Sessions : z # s => sessions'[z] = sessions[z]
  BY <1>1, Put
<1> QED
  BY <1>2 DEF TransferInv, TypesOK

\* A step of the source's that the target does not see.
LEMMA SessionMoves ==
    ASSUME TransferInv, NEW s \in Sessions, NEW y, IsSession(y), SessionOK(y),
           Later(sessions[s], y),
           sessions' = [sessions EXCEPT ![s] = y], UNCHANGED target,
           IsSource(source'), SourceOK(source', sessions')
    PROVE  TransferInv'
<1>1. /\ sessions' = [z \in Sessions |-> sessions'[z]] /\ sessions'[s] = y
      /\ \A z \in Sessions : z # s => sessions'[z] = sessions[z]
      /\ \A z \in Sessions : IsSession(sessions'[z]) /\ SessionOK(sessions'[z])
  BY SessionsPut
<1>2. \A z \in Sessions : Later(sessions[z], sessions'[z])
  BY <1>1 DEF Later
<1>3. TargetOK(target, sessions') /\ ArrivedOK(target, sessions')
  BY <1>2, TargetStays DEF TransferInv, TypesOK
<1> QED
  BY <1>1, <1>3 DEF TransferInv, TypesOK

\* The status of a session alone, and whether the groups have its device.
LEMMA CancelledIs ==
    ASSUME NEW x, IsSession(x), SessionOK(x), x.status \in {"PENDING", "APPROVED", "CANCELLED"}
    PROVE  LET y == [x EXCEPT !.status = "CANCELLED"]
           IN  /\ IsSession(y) /\ SessionOK(y) /\ SameChain(x, y) /\ Later(x, y)
               /\ y.status = "CANCELLED"
<1> DEFINE y == [x EXCEPT !.status = "CANCELLED"]
<1>1. /\ IsSession(y) /\ y.status = "CANCELLED" /\ y.key = x.key /\ y.chunks = x.chunks
      /\ y.approval = x.approval /\ y.owed = x.owed
  BY DEF IsSession
<1> HIDE DEF y
<1>2. SameChain(x, y) /\ Later(x, y)
  BY <1>1 DEF SameChain, Later, Decided, Open, Taken
<1>3. SessionOK(y)
  BY <1>1, <1>2, SessionStays
<1> QED
  BY <1>1, <1>2, <1>3 DEF y

LEMMA ChainSame ==
    ASSUME TransferInv, NEW s \in Sessions, NEW y, SameChain(sessions[s], y),
           sessions'[s] = y, \A z \in Sessions : z # s => sessions'[z] = sessions[z]
    PROVE  SourceOK(source, sessions')
<1>1. \A z \in Sessions : SameChain(sessions[z], sessions'[z])
  BY DEF SameChain
<1> QED
  BY <1>1, SourceIs, SourceStays

LEMMA ServerCancelsOutgoingKeeps ==
    ASSUME TransferInv, ServerCancelsOutgoing
    PROVE  TransferInv'
<1> DEFINE s == source.mem.session
           y == [sessions[s] EXCEPT !.status = "CANCELLED"]
<1>1. s \in Sessions
  BY SourceIs DEF ServerCancelsOutgoing, SourceOK, EntryOK
<1>2. sessions' = [sessions EXCEPT ![s] = y]
  BY DEF ServerCancelsOutgoing
<1>3. IsSession(y) /\ SessionOK(y) /\ SameChain(sessions[s], y) /\ Later(sessions[s], y)
  BY <1>1, SourceIs, CancelledIs DEF ServerCancelsOutgoing, Cancellable
<1>4. /\ IsSource(source') /\ source'.at = "cancelled"
      /\ source'.mem = source.mem /\ source'.disk = source.disk
  BY SourceIs, AtIs DEF ServerCancelsOutgoing
<1> HIDE DEF y
<1>5. SourceOK(source, sessions')
  BY <1>1, <1>2, <1>3, SessionsPut, ChainSame
<1>6. SourceOK(source', sessions')
  BY <1>4, <1>5 DEF SourceOK, ServerCancelsOutgoing
<1> QED
  BY <1>1, <1>2, <1>3, <1>4, <1>6, SessionMoves DEF ServerCancelsOutgoing

LEMMA ExpireKeeps ==
    ASSUME TransferInv, Expire
    PROVE  TransferInv'
<1>1. PICK s \in Sessions : /\ sessions[s].status \in {"PENDING", "APPROVED"}
                            /\ sessions' = [sessions EXCEPT ![s].status = "CANCELLED"]
  BY DEF Expire, Sessions
<1> DEFINE y == [sessions[s] EXCEPT !.status = "CANCELLED"]
<1>2. sessions' = [sessions EXCEPT ![s] = y]
  BY <1>1
<1>3. IsSession(y) /\ SessionOK(y) /\ SameChain(sessions[s], y) /\ Later(sessions[s], y)
  BY <1>1, SourceIs, CancelledIs
<1> HIDE DEF y
<1>4. SourceOK(source, sessions')
  BY <1>2, <1>3, SessionsPut, ChainSame
<1> QED
  BY <1>2, <1>3, <1>4, SourceIs, SessionMoves DEF Expire

LEMMA ContinueOutgoingKeeps ==
    ASSUME Values, TransferInv, ContinueOutgoing
    PROVE  TransferInv'
<1> DEFINE e == source.mem
           s == e.session
           x == sessions[s]
<1>1. /\ IsSource(source) /\ IsEntry(e) /\ EntryOK(e, sessions) /\ e # NoEntry
      /\ e.phase \in {"waiting-target-registration", "waiting-target-join"}
  BY SourceIs, NoEntryIs DEF SourceOK, ContinueOutgoing
<1>2. s \in Sessions /\ e.plan # None
  BY <1>1 DEF EntryOK, Fresh
<1>3. CASE x.status = "COMPLETED"
  <2>1. source' = Saving(NoEntry, source) /\ UNCHANGED sessions
    BY <1>3 DEF ContinueOutgoing
  <2>2. /\ IsSource(source') /\ source'.at = "saving" /\ source'.mem = NoEntry
        /\ source'.disk = source.disk
    BY <1>1, <2>1, NoEntryIs, SavingIs
  <2>3. SourceOK(source', sessions)
    BY <2>2, SourceIs DEF SourceOK
  <2> QED
    BY <2>1, <2>2, <2>3, SourceAlone DEF ContinueOutgoing
<1>4. CASE x.status = "REGISTERED"
  <2> DEFINE n == [e EXCEPT !.phase = "waiting-target-join"]
             y == [x EXCEPT !.member = TRUE]
  <2>1. source' = Saving(n, source) /\ sessions' = [sessions EXCEPT ![s] = y]
    BY <1>4 DEF ContinueOutgoing
  <2>2. /\ IsSession(y) /\ y.status = x.status /\ y.key = x.key /\ y.chunks = x.chunks
        /\ y.approval = x.approval /\ y.owed = x.owed
    BY <1>2, SourceIs DEF IsSession
  <2> HIDE DEF y
  <2>3. SameChain(x, y) /\ Later(x, y)
    BY <2>2 DEF SameChain, Later, Decided, Open, Taken
  <2>4. SessionOK(y)
    BY <1>2, <2>2, <2>3, SourceIs, SessionStays
  <2>5. SourceOK(source, sessions')
    BY <1>2, <2>1, <2>2, <2>3, <2>4, SessionsPut, ChainSame
  <2>6. IsEntry(n) /\ EntryOK(n, sessions')
    BY <1>1, <1>2, <2>5, PhaseKeeps DEF SourceOK
  <2> HIDE DEF n
  <2>7. /\ IsSource(source') /\ source'.at = "saving" /\ source'.mem = n
        /\ source'.disk = source.disk
    BY <1>1, <2>1, <2>6, SavingIs
  <2>8. SourceOK(source', sessions')
    BY <2>5, <2>6, <2>7 DEF SourceOK
  <2> QED
    BY <1>2, <2>1, <2>2, <2>3, <2>4, <2>7, <2>8, SessionMoves DEF ContinueOutgoing
<1> QED
  BY <1>3, <1>4 DEF ContinueOutgoing

LEMMA ApproveOutgoingKeeps ==
    ASSUME Values, TransferInv, ApproveOutgoing
    PROVE  TransferInv'
<1> DEFINE m == source.mem
           s == m.session
           x == sessions[s]
           e == [m EXCEPT !.plan = Plan]
<1>1. /\ IsSource(source) /\ IsEntry(m) /\ EntryOK(m, sessions) /\ m # NoEntry
      /\ source.at = "idle" /\ source.disk = m /\ source.records \in Seq(Records)
  BY SourceIs, NoEntryIs DEF SourceOK, ApproveOutgoing
<1>2. s \in Sessions /\ IsSession(x) /\ SessionOK(x)
  BY <1>1, SourceIs DEF EntryOK
<1>3. CASE m.plan = None
  <2> DEFINE y == [x EXCEPT !.owed = Range(source.records)]
  <2>1. source' = Saving(e, source) /\ sessions' = [sessions EXCEPT ![s] = y] /\ UNCHANGED target
    <3>1. e.session = m.session
      BY <1>1 DEF IsEntry
    <3> QED
      BY <1>3, <3>1 DEF ApproveOutgoing
  <2>2. /\ IsEntry(e) /\ e.session = m.session /\ e.key = m.key /\ e.plan = source.records
        /\ e.next = m.next /\ e.final = m.final /\ e.inFlight = m.inFlight
        /\ e.approval = m.approval /\ e.phase = m.phase
    BY <1>1, <1>3 DEF IsEntry, Plan
  <2>3. /\ IsSession(y) /\ y.owed = Range(source.records) /\ y.status = x.status /\ y.key = x.key
        /\ y.chunks = x.chunks /\ y.approval = x.approval
    BY <1>2 DEF IsSession
  <2> HIDE DEF e, y
  <2>4. Fresh(m, x) /\ m.key \in Nat /\ x.key = m.key /\ m.phase # "none"
    BY <1>1, <1>3 DEF EntryOK
  <2>5. SessionOK(y) /\ Later(x, y) /\ Fresh(m, y)
    BY <1>2, <2>3, <2>4 DEF SessionOK, Later, Fresh, Decided, Open, Taken
  <2>6. e.plan # None /\ Len(e.plan) \in Nat
    BY <1>1, <2>2, Lists
  <2>7. Begun(e, y)
    BY <2>2, <2>3, <2>5, <2>6 DEF Fresh, Begun, Follows, FlightOK, ApprovalOK, Prev
  <2>8. sessions'[s] = y
    BY <1>2, <2>1, <2>3, <2>5, SessionsPut
  <2>9. EntryOK(e, sessions') /\ EntryOK(m, sessions')
    BY <1>2, <1>3, <2>2, <2>3, <2>4, <2>5, <2>6, <2>7, <2>8 DEF EntryOK
  <2>10. /\ IsSource(source') /\ source'.at = "saving" /\ source'.mem = e
         /\ source'.disk = source.disk
    BY <1>1, <2>1, <2>2, SavingIs
  <2>11. SourceOK(source', sessions')
    BY <1>1, <2>9, <2>10 DEF SourceOK
  <2> QED
    BY <1>2, <2>1, <2>3, <2>5, <2>10, <2>11, SessionMoves
<1>4. CASE m.plan # None
  <2>1. source' = Approving(m, source) /\ UNCHANGED <<sessions, target>>
    <3>1. e = m
      BY <1>1, <1>4 DEF IsEntry, Plan
    <3> QED
      BY <1>4, <3>1 DEF ApproveOutgoing
  <2>2. m.plan \in Seq(Records) /\ Begun(m, x)
    BY <1>1, <1>4 DEF EntryOK, IsEntry
  <2>3. /\ IsSource(source') /\ source'.disk = m /\ Begun(source'.mem, x)
        /\ source'.mem.session = s /\ source'.mem.key = m.key
        /\ source'.mem.plan = m.plan /\ source'.mem.phase = m.phase
        /\ \/ source'.at = "saving"
           \/ source'.at = "uploading" /\ source'.mem = m /\ m.inFlight # None
           \/ source'.at = "approving" /\ source'.mem = m /\ m.approval # None
    BY <1>1, <1>2, <2>1, <2>2, ApprovingIs
  <2>4. EntryOK(source'.mem, sessions)
    BY <1>1, <1>4, <2>3 DEF EntryOK
  <2>5. SourceOK(source', sessions)
    BY <1>1, <1>4, <2>3, <2>4 DEF SourceOK
  <2> QED
    BY <2>1, <2>3, <2>5, SourceAlone
<1> QED
  BY <1>3, <1>4

LEMMA ServerConnectsKeeps ==
    ASSUME Values, TransferInv, ServerConnects
    PROVE  TransferInv'
<1> DEFINE e == source.next
           s == e.session
           x == sessions[s]
           y == [x EXCEPT !.key = e.key]
<1>1. source.mem = NoEntry /\ source.disk = NoEntry /\ Starts(e) /\ source.at = "connecting"
  BY SourceIs DEF SourceOK, ServerConnects
<1>2. s \in Sessions /\ e.key \in Nat /\ e.key # None
  BY <1>1 DEF Starts, Values
<1>3. IsSession(x) /\ SessionOK(x) /\ x.status = "PENDING" /\ x.key = None
  BY <1>2, SourceIs DEF ServerConnects
<1>4. sessions' = [sessions EXCEPT ![s] = y]
  BY DEF ServerConnects
<1>5. /\ IsSession(y) /\ y.key = e.key /\ y.status = x.status
      /\ y.chunks = x.chunks /\ y.approval = x.approval /\ y.owed = x.owed
  BY <1>3 DEF IsSession
<1>6. /\ e.plan = None /\ e.final = None /\ e.next = 0 /\ e.inFlight = None /\ e.approval = None
      /\ e.phase = "confirm-code"
  BY <1>1, NoEntryIs DEF Starts, IsEntry
<1> HIDE DEF y
<1>7. SessionOK(y) /\ Later(x, y) /\ Fresh(e, y)
  BY <1>2, <1>3, <1>5, <1>6, EmptySeq DEF SessionOK, Later, Fresh, Decided, Open, Taken
<1>8. sessions'[s] = y
  BY <1>2, <1>4, <1>5, <1>7, SessionsPut
<1>9. EntryOK(e, sessions')
  BY <1>2, <1>5, <1>6, <1>7, <1>8 DEF EntryOK
<1>10. /\ IsSource(source') /\ source'.at = "answered" /\ source'.next = e
       /\ source'.mem = NoEntry /\ source'.disk = NoEntry
  BY <1>1, SourceIs, AtIs DEF ServerConnects
<1>11. SourceOK(source', sessions')
  BY <1>1, <1>9, <1>10 DEF SourceOK, EntryOK
<1> QED
  BY <1>2, <1>4, <1>5, <1>7, <1>10, <1>11, SessionMoves DEF ServerConnects

\* A chain that grows follows the plan as far as it did.
LEMMA Lengthens ==
    ASSUME NEW c, NEW d, NEW n \in Nat, \A i \in 1 .. n : d[i] = c[i],
           NEW plan, NEW key, Follows(c, n, plan, key)
    PROVE  Follows(d, n, plan, key) /\ Prev(d, n + 1) = Prev(c, n + 1)
<1>1. ASSUME NEW i \in 1 .. n + 1
      PROVE  Prev(d, i) = Prev(c, i)
  <2>1. i = 1 \/ i - 1 \in 1 .. n
    BY <1>1
  <2> QED
    BY <2>1 DEF Prev
<1>2. n + 1 \in 1 .. n + 1 /\ \A i \in 1 .. n : i \in 1 .. n + 1
  OBVIOUS
<1> QED
  BY <1>1, <1>2 DEF Follows

LEMMA ServerTakesChunkKeeps ==
    ASSUME Values, TransferInv, ServerTakesChunk
    PROVE  TransferInv'
<1> DEFINE e == source.mem
           s == e.session
           p == e.inFlight
           x == sessions[s]
           y == [x EXCEPT !.chunks = Append(@, p)]
<1>1. /\ source.at = "uploading" /\ source.disk = e /\ IsEntry(e) /\ EntryOK(e, sessions)
      /\ e # NoEntry /\ e.plan # None /\ p # None
  BY SourceIs DEF SourceOK, ServerTakesChunk
<1>2. /\ s \in Sessions /\ e.key \in Nat /\ e.key # None /\ x.key = e.key /\ e.phase # "none"
      /\ Begun(e, x) /\ e.plan \in Seq(Records) /\ e.next \in Nat
  BY <1>1 DEF EntryOK, IsEntry, Values
<1>3. IsSession(x) /\ SessionOK(x) /\ IsChain(x.chunks) /\ Len(x.chunks) \in Nat
  BY <1>2, SourceIs, ChainIs DEF IsSession
<1>4. p.seq = e.next /\ e.next < Len(e.plan)
  BY <1>1, <1>2 DEF Begun, FlightOK
<1>5. /\ IsSource(source') /\ source'.at = "answered" /\ source'.mem = e /\ source'.disk = e
  BY <1>1, SourceIs, AtIs DEF ServerTakesChunk
<1>6. x.status = "PENDING" /\ p.seq <= Len(x.chunks)
  BY <1>2, <1>3, <1>4 DEF ServerTakesChunk, Accepts
<1>7. CASE p.seq < Len(x.chunks)
  <2>1. UNCHANGED <<sessions, target>>
    BY <1>7 DEF ServerTakesChunk
  <2>2. Len(x.chunks) = e.next + 1
    BY <1>2, <1>3, <1>4, <1>7 DEF Begun
  <2>3. SourceOK(source', sessions)
    BY <1>1, <1>5, <2>2 DEF SourceOK
  <2> QED
    BY <1>5, <2>1, <2>3, SourceAlone
<1>8. CASE ~(p.seq < Len(x.chunks))
  <2>1. sessions' = [sessions EXCEPT ![s] = y]
    BY <1>8 DEF ServerTakesChunk
  <2>2. Len(x.chunks) = e.next
    BY <1>2, <1>3, <1>4, <1>6, <1>8
  <2>3. /\ IsChain(Append(x.chunks, p)) /\ Len(Append(x.chunks, p)) = e.next + 1
        /\ Append(x.chunks, p)[e.next + 1] = p
        /\ \A i \in 1 .. e.next : Append(x.chunks, p)[i] = x.chunks[i]
    <3> DEFINE c == x.chunks
    <3>1. IsChain(c) /\ Len(c) = e.next
      BY <1>3, <2>2
    <3> HIDE DEF c
    <3>2. /\ IsChain(Append(c, p)) /\ Len(Append(c, p)) = Len(c) + 1
          /\ Append(c, p)[Len(c) + 1] = p
          /\ \A i \in 1 .. Len(c) : Append(c, p)[i] = c[i]
      BY <3>1, ChainGrows
    <3> QED
      BY <3>1, <3>2 DEF c
  <2>4. /\ IsSession(y) /\ y.key = x.key /\ y.status = x.status
        /\ y.chunks = Append(x.chunks, p) /\ y.approval = x.approval /\ y.owed = x.owed
    BY <1>3, <2>3 DEF IsSession
  <2> HIDE DEF y
  <2>5. SessionOK(y) /\ Later(x, y)
    BY <1>2, <1>6, <2>4 DEF SessionOK, Later, Decided, Open, Taken
  <2>6. \A i \in 1 .. e.next : y.chunks[i] = x.chunks[i]
    BY <2>3, <2>4
  <2>7. Follows(y.chunks, e.next, e.plan, e.key) /\ e.final = Prev(y.chunks, e.next + 1)
    <3>1. Follows(x.chunks, e.next, e.plan, e.key) /\ e.final = Prev(x.chunks, e.next + 1)
      BY <1>2 DEF Begun
    <3> QED
      BY <1>2, <2>6, <3>1, Lengthens
  <2>8. Begun(e, y)
    <3>1. ~Decided(y) /\ Len(y.chunks) = e.next + 1 /\ y.chunks[e.next + 1] = e.inFlight
      BY <1>6, <2>3, <2>4 DEF Decided
    <3>2. /\ e.next <= Len(y.chunks) /\ Len(y.chunks) <= e.next + 1 /\ e.next <= Len(e.plan)
      BY <1>2, <3>1 DEF Begun
    <3> QED
      BY <1>1, <1>2, <2>4, <2>7, <3>1, <3>2 DEF Begun
  <2>9. sessions'[s] = y
    BY <1>2, <2>1, <2>4, <2>5, SessionsPut
  <2>10. EntryOK(e, sessions')
    BY <1>1, <1>2, <2>4, <2>8, <2>9 DEF EntryOK
  <2>11. SourceOK(source', sessions')
    BY <1>1, <1>5, <2>3, <2>4, <2>9, <2>10 DEF SourceOK
  <2> QED
    BY <1>2, <1>5, <2>1, <2>4, <2>5, <2>11, SessionMoves DEF ServerTakesChunk
<1> QED
  BY <1>7, <1>8

\* What is approved is a chain of all that is owed.
LEMMA ChainIsWhole ==
    ASSUME Values, NEW e, e.plan \in Seq(Records), e.next \in Nat, NEW x, IsSession(x), Begun(e, x),
           e.approval # None, x.key = e.key, NEW y, y.key = x.key, y.chunks = x.chunks,
           y.approval = e.approval, y.owed = x.owed
    PROVE  ChainFits(y) /\ y.owed \subseteq Imported(y.chunks)
<1>1. Len(e.plan) \in Nat /\ Range(e.plan) = {e.plan[i] : i \in 1 .. Len(e.plan)}
  BY Lists
<1>2. Len(x.chunks) \in Nat
  BY ChainIs DEF IsSession
<1>3. e.next = Len(e.plan) /\ e.inFlight = None
  BY <1>1 DEF Begun, ApprovalOK, FlightOK
<1>4. Len(x.chunks) = Len(e.plan)
  BY <1>1, <1>2, <1>3 DEF Begun
<1>5. ChainFits(y)
  BY <1>1, <1>3, <1>4 DEF Begun, ApprovalOK, Follows, ChainFits
<1>6. y.owed \subseteq Imported(y.chunks)
  BY <1>1, <1>3, <1>4 DEF Begun, Follows, Imported
<1> QED
  BY <1>5, <1>6

LEMMA ServerApprovesKeeps ==
    ASSUME Values, TransferInv, ServerApproves
    PROVE  TransferInv'
<1> DEFINE e == source.mem
           s == e.session
           x == sessions[s]
           y == [x EXCEPT !.status = "APPROVED", !.approval = e.approval]
<1>1. /\ source.at = "approving" /\ source.disk = e /\ IsEntry(e) /\ EntryOK(e, sessions)
      /\ e # NoEntry /\ e.plan # None /\ e.approval # None
  BY SourceIs DEF SourceOK, ServerApproves
<1>2. /\ s \in Sessions /\ e.key \in Nat /\ e.key # None /\ x.key = e.key /\ e.phase # "none"
      /\ Begun(e, x) /\ e.plan \in Seq(Records) /\ e.next \in Nat
  BY <1>1 DEF EntryOK, IsEntry, Values
<1>3. IsSession(x) /\ SessionOK(x)
  BY <1>2, SourceIs
<1>4. x.status = "PENDING" \/ (x.status = "APPROVED" /\ x.approval = e.approval)
  BY DEF ServerApproves
<1>5. /\ IsSource(source') /\ source'.at = "answered" /\ source'.mem = e /\ source'.disk = e
  BY <1>1, SourceIs, AtIs DEF ServerApproves
<1>6. /\ IsSession(y) /\ y.key = x.key /\ y.status = "APPROVED"
      /\ y.chunks = x.chunks /\ y.approval = e.approval /\ y.owed = x.owed
  BY <1>3 DEF IsSession
<1>7. sessions' = [sessions EXCEPT ![s] = y]
  BY DEF ServerApproves
<1> HIDE DEF y
<1>8. SessionOK(y)
  BY <1>1, <1>2, <1>3, <1>6, ChainIsWhole DEF SessionOK
<1>9. Later(x, y)
  BY <1>4, <1>6 DEF Later, Decided, Open, Taken
<1>10. Begun(e, y)
  BY <1>1, <1>2, <1>6 DEF Begun
<1>11. sessions'[s] = y
  BY <1>2, <1>6, <1>7, <1>8, SessionsPut
<1>12. EntryOK(e, sessions')
  BY <1>1, <1>2, <1>6, <1>10, <1>11 DEF EntryOK
<1>13. e.inFlight = None
  BY <1>1, <1>2 DEF Begun, FlightOK
<1>14. SourceOK(source', sessions')
  BY <1>1, <1>5, <1>12, <1>13 DEF SourceOK
<1> QED
  BY <1>2, <1>5, <1>6, <1>7, <1>8, <1>9, <1>14, SessionMoves DEF ServerApproves

-----------------------------------------------------------------------------
(* The steps of the target.                                                *)

LEMMA TargetAlone ==
    ASSUME TransferInv, UNCHANGED <<sessions, source>>, IsTarget(target'),
           TargetOK(target', sessions), ArrivedOK(target', sessions)
    PROVE  TransferInv'
BY DEF TransferInv, TypesOK

LEMMA TargetIs ==
    ASSUME TransferInv
    PROVE  /\ IsTarget(target) /\ IsKept(target.mem) /\ IsKept(target.disk)
           /\ TargetOK(target, sessions) /\ ArrivedOK(target, sessions)
           /\ Full(target.mem, sessions) /\ Full(target.disk, sessions)
           /\ Full(Kept(target), sessions) /\ Full(Empty, sessions)
           /\ target.at = "saving" => Kept(target) = target.got
           /\ target.at # "saving" => Kept(target) = target.disk
<1>1. Full(Empty, sessions)
  BY EmptyIs DEF Full
<1> QED
  BY <1>1 DEF TransferInv, TypesOK, IsTarget, TargetOK, Copies, Kept

\* A call goes on; what is kept and stored stays.
LEMMA CallMoves ==
    ASSUME TransferInv, target.at # "saving", target.cancel # "clearing",
           IsTarget(target'), target'.at # "saving",
           target'.mem = target.mem, target'.disk = target.disk,
           target'.cancel = target.cancel, target'.of = target.of,
           PollOK(target', sessions),
           target'.at = "registering" => target.mem.identity = "complete",
           Creates(target') =>
                /\ target.cancel = "none" /\ target.mem.session = None
                /\ target.mem.identity # "complete",
           UNCHANGED <<sessions, source>>
    PROVE  TransferInv'
<1>1. Kept(target) = target.disk /\ Kept(target') = target'.disk
  BY DEF Kept
<1>2. Copies(target') = Copies(target)
  BY <1>1 DEF Copies
<1>3. CancelOK(target', sessions)
  BY TargetIs DEF TargetOK, CancelOK
<1>4. TargetOK(target', sessions)
  BY <1>1, <1>2, <1>3, TargetIs DEF TargetOK, Registers
<1>5. ArrivedOK(target', sessions)
  BY <1>2, TargetIs DEF ArrivedOK, Has, Copies
<1> QED
  BY <1>4, <1>5, TargetAlone

\* The same session and all that was there.
Extends(n, m) ==
    /\ n.session = m.session /\ m.history \subseteq n.history
    /\ m.identity = "complete" => n.identity = "complete"

\* A call persists what extends what it had.
LEMMA KeepMoves ==
    ASSUME TransferInv, target.at # "saving", target.cancel # "clearing",
           NEW m, IsKept(m), Extends(m, target.mem), Full(m, sessions),
           NEW next, next \in {"end", "register", "ready"},
           next = "register" => m.identity = "complete",
           target' = Keeping(m, next), UNCHANGED <<sessions, source>>
    PROVE  TransferInv'
<1>1. /\ IsTarget(target') /\ target'.at = "saving" /\ target'.next = next
      /\ target'.mem = m /\ target'.got = m /\ target'.disk = target.disk
      /\ target'.cancel = target.cancel /\ target'.of = target.of
  BY TargetIs, KeepingIs
<1>2. Kept(target') = m /\ Copies(target') = {m, target.disk} /\ target.disk \in Copies(target)
  BY <1>1 DEF Kept, Copies
<1>3. CancelOK(target', sessions)
  BY <1>1, TargetIs DEF TargetOK, CancelOK, Extends
<1>4. PollOK(target', sessions)
  BY <1>1 DEF PollOK
<1>5. TargetOK(target', sessions)
  BY <1>1, <1>2, <1>3, <1>4, TargetIs DEF TargetOK, Registers, Creates
<1>6. ArrivedOK(target', sessions)
  <2>1. ASSUME NEW s \in Sessions, Taken(sessions[s])
        PROVE  /\ Has(m, s, sessions[s]) /\ Has(target.disk, s, sessions[s])
               /\ target'.cancel \notin {"answered", "clearing"}
    BY <1>1, <1>2, <2>1, TargetIs DEF ArrivedOK, Has, Extends, Creates, Copies
  <2> QED
    BY <1>2, <2>1 DEF ArrivedOK
<1> QED
  BY <1>1, <1>5, <1>6, TargetAlone

\* While a cancellation clears what is stored, the target only saves.
LEMMA NotClearing ==
    ASSUME TransferInv, target.at \notin {"idle", "saving"}
    PROVE  target.cancel # "clearing"
BY TargetIs DEF TargetOK, CancelOK

LEMMA PollIncomingKeeps ==
    ASSUME TransferInv, PollIncoming
    PROVE  TransferInv'
<1>1. /\ target.at = "idle" /\ target.screen /\ target.mem.session # None
      /\ UNCHANGED <<sessions, source>>
  BY DEF PollIncoming
<1>2. target.cancel # "clearing"
  BY <1>1, TargetIs DEF TargetOK, CancelOK
<1>3. \E at \in {"joining", "registering", "asking"} :
        /\ target' = [target EXCEPT !.at = at]
        /\ at = "registering" => target.mem.phase = "identity-complete"
  BY DEF PollIncoming
<1>4. PICK at \in {"joining", "registering", "asking"} :
        /\ target' = [target EXCEPT !.at = at]
        /\ at = "registering" => target.mem.phase = "identity-complete"
  BY <1>3
<1>5. /\ IsTarget(target') /\ target'.at = at /\ target'.mem = target.mem /\ target'.disk = target.disk
      /\ target'.cancel = target.cancel /\ target'.of = target.of
  BY <1>1, <1>4, TargetIs DEF IsTarget
<1>6. at = "registering" => target.mem.identity = "complete"
  BY <1>4, TargetIs DEF Full
<1>7. PollOK(target', sessions) /\ ~Creates(target')
  BY <1>1, <1>5 DEF PollOK, Creates
<1> QED
  BY <1>1, <1>2, <1>5, <1>6, <1>7, CallMoves

LEMMA ServerTellsKeeps ==
    ASSUME TransferInv, ServerTells
    PROVE  TransferInv'
<1>1. target.at = "asking" /\ UNCHANGED <<sessions, source>> /\ target.mem.session # None
  BY TargetIs DEF ServerTells, TargetOK, PollOK
<1>2. /\ IsTarget(target') /\ target'.at = "told" /\ target'.got = sessions[target.mem.session]
      /\ target'.mem = target.mem /\ target'.disk = target.disk
      /\ target'.cancel = target.cancel /\ target'.of = target.of
  BY <1>1, TargetIs DEF ServerTells, IsTarget
<1>3. PollOK(target', sessions) /\ ~Creates(target')
  BY <1>1, <1>2 DEF PollOK, Creates, Open
<1> QED
  BY <1>1, <1>2, <1>3, NotClearing, CallMoves

LEMMA ToldKeeps ==
    ASSUME TransferInv, Told
    PROVE  TransferInv'
<1> DEFINE session == target.got
<1>1. /\ target.at = "told" /\ UNCHANGED <<sessions, source>> /\ target.mem.session # None
      /\ session.status = "APPROVED" => ~Open(sessions[target.mem.session])
      /\ target.cancel # "clearing"
  BY TargetIs, NotClearing DEF Told, TargetOK, PollOK
<1>2. CASE session.key # None /\ session.status = "PENDING"
  <2> DEFINE m == [target.mem EXCEPT !.phase = "confirm-code"]
  <2>1. target' = Keeping(m, "end")
    BY <1>2 DEF Told
  <2>2. /\ IsKept(m) /\ m.phase = "confirm-code" /\ m.session = target.mem.session
        /\ m.identity = target.mem.identity /\ m.history = target.mem.history
    BY TargetIs DEF IsKept
  <2> HIDE DEF m
  <2>3. Extends(m, target.mem) /\ Full(m, sessions)
    BY <1>1, <2>2, TargetIs DEF Extends, Full
  <2> QED
    BY <1>1, <2>1, <2>2, <2>3, KeepMoves
<1>3. CASE /\ ~(session.key # None /\ session.status = "PENDING")
           /\ session.key # None /\ session.status = "APPROVED"
           /\ session.approval.key = session.key
  <2>1. target' = [target EXCEPT !.at = "listing"]
    BY <1>3 DEF Told
  <2>2. /\ IsTarget(target') /\ target'.at = "listing"
        /\ target'.mem = target.mem /\ target'.disk = target.disk
        /\ target'.cancel = target.cancel /\ target'.of = target.of
    BY <2>1, TargetIs DEF IsTarget
  <2>3. PollOK(target', sessions) /\ ~Creates(target')
    BY <1>1, <1>3, <2>2 DEF PollOK, Creates
  <2> QED
    BY <1>1, <2>2, <2>3, CallMoves
<1>4. CASE /\ ~(session.key # None /\ session.status = "PENDING")
           /\ ~(session.key # None /\ session.status = "APPROVED"
                  /\ session.approval.key = session.key)
  <2>1. target' = [target EXCEPT !.at = "idle", !.got = None]
    BY <1>4 DEF Told
  <2>2. /\ IsTarget(target') /\ target'.at = "idle"
        /\ target'.mem = target.mem /\ target'.disk = target.disk
        /\ target'.cancel = target.cancel /\ target'.of = target.of
    BY <2>1, TargetIs DEF IsTarget
  <2>3. PollOK(target', sessions) /\ ~Creates(target')
    BY <2>2 DEF PollOK, Creates
  <2> QED
    BY <1>1, <2>2, <2>3, CallMoves
<1> QED
  BY <1>2, <1>3, <1>4

LEMMA ChunksArriveKeeps ==
    ASSUME TransferInv, ChunksArrive
    PROVE  TransferInv'
<1> DEFINE s == target.mem.session
           m == Transferred(target.mem, sessions[s].chunks)
<1>1. /\ target.at = "listing" /\ UNCHANGED <<sessions, source>> /\ s \in Sessions
      /\ ~Open(sessions[s]) /\ target.cancel # "clearing"
  BY TargetIs, NotClearing DEF ChunksArrive, TargetOK, PollOK, IsKept
<1>2. target' = Keeping(m, "register")
  BY DEF ChunksArrive
<1>3. /\ IsKept(m) /\ m.identity = "complete" /\ m.phase = "identity-complete" /\ m.session = s
      /\ m.history = target.mem.history \cup Imported(sessions[s].chunks)
  BY TargetIs DEF IsKept, Transferred
<1> HIDE DEF m
<1>4. Decided(sessions[s]) => sessions[s].owed \subseteq m.history
  BY <1>1, <1>3, SourceIs DEF SessionOK
<1>5. Extends(m, target.mem) /\ Full(m, sessions)
  BY <1>1, <1>3, <1>4 DEF Extends, Full
<1> QED
  BY <1>1, <1>2, <1>3, <1>5, KeepMoves

LEMMA ChunksFailKeeps ==
    ASSUME TransferInv, ChunksFail
    PROVE  TransferInv'
<1>1. target.at = "listing" /\ UNCHANGED <<sessions, source>> /\ target.cancel # "clearing"
  BY NotClearing DEF ChunksFail
<1>2. \E h : target' = [target EXCEPT !.at = "idle", !.got = None, !.mem.history = @ \cup h]
  BY DEF ChunksFail
<1>3. PICK h : target' = [target EXCEPT !.at = "idle", !.got = None, !.mem.history = @ \cup h]
  BY <1>2
<1> DEFINE m == [target.mem EXCEPT !.history = @ \cup h]
<1>4. /\ IsKept(m) /\ m.identity = target.mem.identity /\ m.session = target.mem.session
      /\ m.phase = target.mem.phase /\ m.history = target.mem.history \cup h
  BY TargetIs DEF IsKept
<1>5. target' = [target EXCEPT !.at = "idle", !.got = None, !.mem = m]
  BY <1>3, TargetIs DEF IsTarget, IsKept
<1> HIDE DEF m
<1>6. /\ IsTarget(target') /\ target'.at = "idle" /\ target'.mem = m /\ target'.disk = target.disk
      /\ target'.cancel = target.cancel /\ target'.of = target.of
  BY <1>4, <1>5, TargetIs DEF IsTarget
<1>7. Kept(target') = target.disk /\ Copies(target') = {m, target.disk} /\ Kept(target) = target.disk
  BY <1>1, <1>6 DEF Kept, Copies
<1>8. Full(m, sessions)
  BY <1>4, TargetIs DEF Full
<1>9. TargetOK(target', sessions)
  BY <1>1, <1>4, <1>6, <1>7, <1>8, TargetIs DEF TargetOK, Registers, Creates, PollOK, CancelOK
<1>10. ArrivedOK(target', sessions)
  <2>1. ASSUME NEW s \in Sessions, Taken(sessions[s])
        PROVE  /\ Has(m, s, sessions[s]) /\ Has(target.disk, s, sessions[s])
               /\ target'.cancel \notin {"answered", "clearing"}
    BY <1>4, <1>6, <2>1, TargetIs DEF ArrivedOK, Has, Creates, Copies
  <2> QED
    BY <1>7, <2>1 DEF ArrivedOK
<1> QED
  BY <1>1, <1>6, <1>9, <1>10, TargetAlone

LEMMA SetupDeviceKeeps ==
    ASSUME TransferInv, SetupDevice
    PROVE  TransferInv'
<1>1. /\ target.at = "idle" /\ target.cancel = "none" /\ target.mem.identity = "complete"
      /\ UNCHANGED <<sessions, source>>
  BY DEF SetupDevice, TargetFree
<1>2. /\ IsTarget(target') /\ target'.at = "registering"
      /\ target'.mem = target.mem /\ target'.disk = target.disk
      /\ target'.cancel = target.cancel /\ target'.of = target.of
  BY TargetIs DEF SetupDevice, IsTarget
<1>3. PollOK(target', sessions) /\ ~Creates(target')
  BY <1>2 DEF PollOK, Creates
<1> QED
  BY <1>1, <1>2, <1>3, CallMoves

LEMMA ActivatedKeeps ==
    ASSUME TransferInv, Activated
    PROVE  TransferInv'
<1> DEFINE m == [target.mem EXCEPT !.registered = TRUE]
<1>1. target.at = "activating" /\ UNCHANGED <<sessions, source>> /\ target.cancel # "clearing"
  BY NotClearing DEF Activated
<1>2. target' = Keeping(m, "ready")
  BY DEF Activated
<1>3. /\ IsKept(m) /\ m.identity = target.mem.identity /\ m.session = target.mem.session
      /\ m.phase = target.mem.phase /\ m.history = target.mem.history
  BY TargetIs DEF IsKept
<1> HIDE DEF m
<1>4. Extends(m, target.mem) /\ Full(m, sessions)
  BY <1>3, TargetIs DEF Extends, Full
<1> QED
  BY <1>1, <1>2, <1>3, <1>4, KeepMoves

LEMMA ReplenishedKeeps ==
    ASSUME TransferInv, Replenished
    PROVE  TransferInv'
<1> DEFINE m == IF target.screen THEN [target.mem EXCEPT !.phase = "registered"] ELSE target.mem
<1>1. target.at = "replenishing" /\ UNCHANGED <<sessions, source>> /\ target.cancel # "clearing"
  BY NotClearing DEF Replenished
<1>2. target' = Keeping(m, "end")
  BY DEF Replenished
<1>3. /\ IsKept(m) /\ m.identity = target.mem.identity /\ m.session = target.mem.session
      /\ m.phase \in {target.mem.phase, "registered"} /\ m.history = target.mem.history
  BY TargetIs DEF IsKept
<1> HIDE DEF m
<1>4. Extends(m, target.mem) /\ Full(m, sessions)
  BY <1>3, TargetIs DEF Extends, Full
<1> QED
  BY <1>1, <1>2, <1>3, <1>4, KeepMoves

\* A persist of what has no session: one that has ended, or none yet.
LEMMA KeepAnew ==
    ASSUME TransferInv, target.at # "saving", target.cancel # "clearing",
           NEW m, IsKept(m), Full(m, sessions),
           NEW next, next \in {"end", "create"},
           next = "create" =>
                target.cancel = "none" /\ m.session = None /\ m.identity # "complete",
           target.cancel = "none" \/ (target.cancel = "asking" /\ m.session = None
                                        /\ Taken(sessions[target.of])),
           \A s \in Sessions : Taken(sessions[s]) => Has(m, s, sessions[s]),
           target' = Keeping(m, next), UNCHANGED <<sessions, source>>
    PROVE  TransferInv'
<1>1. /\ IsTarget(target') /\ target'.at = "saving" /\ target'.next = next
      /\ target'.mem = m /\ target'.got = m /\ target'.disk = target.disk
      /\ target'.cancel = target.cancel /\ target'.of = target.of
  BY TargetIs, KeepingIs
<1>2. Kept(target') = m /\ Copies(target') = {m, target.disk} /\ target.disk \in Copies(target)
  BY <1>1 DEF Kept, Copies
<1>3. CancelOK(target', sessions) /\ PollOK(target', sessions)
  BY <1>1, TargetIs DEF TargetOK, CancelOK, PollOK
<1>4. TargetOK(target', sessions)
  BY <1>1, <1>2, <1>3, TargetIs DEF TargetOK, Registers, Creates
<1>5. ArrivedOK(target', sessions)
  <2>1. ASSUME NEW s \in Sessions, Taken(sessions[s])
        PROVE  /\ Has(m, s, sessions[s]) /\ Has(target.disk, s, sessions[s])
               /\ target'.cancel \notin {"answered", "clearing"}
    BY <1>1, <1>2, <2>1, TargetIs DEF ArrivedOK, Creates
  <2> QED
    BY <1>2, <2>1 DEF ArrivedOK
<1> QED
  BY <1>1, <1>4, <1>5, TargetAlone

\* A target whose identity is not complete has nothing that was taken.
LEMMA NoneTaken ==
    ASSUME TransferInv, target.mem.identity # "complete"
    PROVE  \A s \in Sessions : ~Taken(sessions[s])
BY TargetIs DEF ArrivedOK, Has, Copies

LEMMA StartIncomingKeeps ==
    ASSUME TransferInv, StartIncoming
    PROVE  TransferInv'
<1>1. /\ target.at = "idle" /\ target.cancel = "none" /\ target.mem.identity # "complete"
      /\ UNCHANGED <<sessions, source>>
  BY DEF StartIncoming, TargetFree
<1>2. CASE target.mem.session # None
  <2>1. target' = [target EXCEPT !.screen = TRUE]
    BY <1>2 DEF StartIncoming
  <2>2. /\ IsTarget(target') /\ target'.at = "idle"
        /\ target'.mem = target.mem /\ target'.disk = target.disk
        /\ target'.cancel = target.cancel /\ target'.of = target.of
    BY <1>1, <2>1, TargetIs DEF IsTarget
  <2>3. PollOK(target', sessions) /\ ~Creates(target')
    BY <2>2 DEF PollOK, Creates
  <2> QED
    BY <1>1, <2>2, <2>3, CallMoves
<1>3. CASE target.mem.session = None /\ target.mem.identity = "pending"
  <2>1. target' = [[target EXCEPT !.at = "creating"] EXCEPT !.screen = TRUE]
    BY <1>3 DEF StartIncoming
  <2>2. /\ IsTarget(target') /\ target'.at = "creating"
        /\ target'.mem = target.mem /\ target'.disk = target.disk
        /\ target'.cancel = target.cancel /\ target'.of = target.of
    BY <1>1, <2>1, TargetIs DEF IsTarget
  <2>3. PollOK(target', sessions)
    BY <2>2 DEF PollOK
  <2> QED
    BY <1>1, <1>3, <2>2, <2>3, CallMoves
<1>4. CASE target.mem.session = None /\ target.mem.identity # "pending"
  <2> DEFINE m == [Empty EXCEPT !.identity = "pending"]
             t == Keeping(m, "create")
  <2>1. target' = [t EXCEPT !.screen = TRUE]
    BY <1>4 DEF StartIncoming
  <2>2. IsKept(m) /\ m.identity = "pending" /\ m.session = None /\ m.phase = "none"
    BY EmptyIs DEF IsKept
  <2> HIDE DEF m
  <2>3. /\ IsTarget(t) /\ t.at = "saving" /\ t.next = "create" /\ t.mem = m /\ t.got = m
        /\ t.disk = target.disk /\ t.cancel = target.cancel /\ t.of = target.of
    BY <2>2, TargetIs, KeepingIs
  <2> HIDE DEF t
  <2>4. /\ IsTarget(target') /\ target'.at = "saving" /\ target'.next = "create"
        /\ target'.mem = m /\ target'.got = m /\ target'.disk = target.disk
        /\ target'.cancel = target.cancel /\ target'.of = target.of
    BY <2>1, <2>3 DEF IsTarget
  <2>5. Kept(target') = m /\ Copies(target') = {m, target.disk}
    BY <2>4 DEF Kept, Copies
  <2>6. Full(m, sessions)
    BY <2>2 DEF Full
  <2>7. TargetOK(target', sessions)
    BY <1>1, <2>2, <2>4, <2>5, <2>6, TargetIs DEF TargetOK, Registers, Creates, PollOK, CancelOK
  <2>8. ArrivedOK(target', sessions)
    BY <1>1, NoneTaken DEF ArrivedOK
  <2> QED
    BY <1>1, <2>4, <2>7, <2>8, TargetAlone
<1> QED
  BY <1>2, <1>3, <1>4

LEMMA CreatedKeeps ==
    ASSUME Values, TransferInv, Created
    PROVE  TransferInv'
<1> DEFINE m == [target.mem EXCEPT !.session = target.got, !.phase = "waiting-source"]
<1>1. /\ target.at = "created" /\ target.cancel = "none" /\ target.mem.session = None
      /\ target.got \in Sessions /\ UNCHANGED <<sessions, source>> /\ Creates(target)
  BY TargetIs DEF Created, TargetOK, Creates, IsTarget
<1>2. target' = Keeping(m, "end")
  BY DEF Created
<1>3. /\ IsKept(m) /\ m.identity = target.mem.identity /\ m.session = target.got
      /\ m.phase = "waiting-source" /\ m.history = target.mem.history
  BY <1>1, TargetIs DEF IsKept
<1>4. target.mem.identity # "complete"
  BY <1>1, TargetIs DEF TargetOK
<1>5. \A s \in Sessions : ~Taken(sessions[s])
  BY <1>4, NoneTaken
<1> HIDE DEF m
<1>6. Full(m, sessions)
  <2>1. target.got # None
    BY <1>1 DEF Values, Sessions
  <2> QED
    BY <1>3, <1>4, <2>1 DEF Full
<1> QED
  BY <1>1, <1>2, <1>3, <1>5, <1>6, KeepAnew

LEMMA FinalizedKeeps ==
    ASSUME TransferInv, Finalized
    PROVE  TransferInv'
<1> DEFINE m == [target.mem EXCEPT !.session = None, !.phase = "none"]
<1>1. /\ target.at = "finalized" /\ UNCHANGED <<sessions, source>> /\ target.cancel # "clearing"
  BY NotClearing DEF Finalized
<1>2. target' = Keeping(m, "end")
  BY DEF Finalized
<1>3. /\ IsKept(m) /\ m.identity = target.mem.identity /\ m.session = None
      /\ m.phase = "none" /\ m.history = target.mem.history
  BY TargetIs DEF IsKept
<1>4. target.mem.session # None /\ sessions[target.mem.session].status = "COMPLETED"
  BY <1>1, TargetIs DEF TargetOK, PollOK
<1>5. target.cancel = "none" \/ (target.cancel = "asking" /\ Taken(sessions[target.of]))
  BY <1>1, <1>4, TargetIs DEF TargetOK, CancelOK, Taken, IsTarget
<1> HIDE DEF m
<1>6. Full(m, sessions)
  BY <1>3 DEF Full
<1>7. \A s \in Sessions : Taken(sessions[s]) => Has(m, s, sessions[s])
  BY <1>3, TargetIs DEF ArrivedOK, Has, Copies
<1> QED
  BY <1>1, <1>2, <1>3, <1>5, <1>6, <1>7, KeepAnew

LEMMA TargetSavedKeeps ==
    ASSUME TransferInv, TargetSaved
    PROVE  TransferInv'
<1> DEFINE n == target.got
<1>1. target.at = "saving" /\ IsKept(n) /\ UNCHANGED <<sessions, source>> /\ Kept(target) = n
  BY TargetIs DEF TargetSaved, IsTarget
<1>2. PICK at \in {"creating", "registering", "replenishing", "idle"} :
        /\ target' = [target EXCEPT !.disk = n, !.got = None, !.next = "end",
                         !.ready = @ \/ target.next = "ready", !.at = at]
        /\ at = "creating" => target.next = "create"
        /\ at = "registering" => target.next = "register"
        /\ target.next = "end" => at = "idle"
  BY TargetIs DEF TargetSaved, IsTarget
<1>3. /\ IsTarget(target') /\ target'.at = at /\ target'.mem = target.mem /\ target'.disk = n
      /\ target'.cancel = target.cancel /\ target'.of = target.of
      /\ target'.next = "end" /\ target'.screen = target.screen
  BY <1>1, <1>2, TargetIs DEF IsTarget
<1>4. Kept(target') = n /\ Copies(target') = {target.mem, n} /\ Copies(target) = {target.mem, target.disk, n}
  BY <1>1, <1>3 DEF Kept, Copies
<1>5. /\ at = "creating" => Creates(target)
      /\ at = "registering" => Registers(target)
  BY <1>1, <1>2 DEF Creates, Registers
<1>6. PollOK(target', sessions)
  BY <1>3 DEF PollOK
<1>7. CancelOK(target', sessions)
  BY <1>2, <1>3, TargetIs DEF TargetOK, CancelOK
<1>8. TargetOK(target', sessions)
  BY <1>1, <1>3, <1>4, <1>5, <1>6, <1>7, TargetIs DEF TargetOK, Registers, Creates
<1>9. ArrivedOK(target', sessions)
  BY <1>3, <1>4, TargetIs DEF ArrivedOK
<1> QED
  BY <1>1, <1>3, <1>8, <1>9, TargetAlone

LEMMA TargetFailsKeeps ==
    ASSUME TransferInv, TargetFails
    PROVE  TransferInv'
<1>1. /\ target.at \notin {"idle", "saving"} /\ UNCHANGED <<sessions, source>>
      /\ target.cancel # "clearing"
  BY NotClearing DEF TargetFails
<1>2. /\ IsTarget(target') /\ target'.at = "idle"
      /\ target'.mem = target.mem /\ target'.disk = target.disk
      /\ target'.cancel = target.cancel /\ target'.of = target.of
  BY <1>1, TargetIs DEF TargetFails, IsTarget
<1>3. PollOK(target', sessions) /\ ~Creates(target')
  BY <1>2 DEF PollOK, Creates
<1> QED
  BY <1>1, <1>2, <1>3, CallMoves

LEMMA TargetCrashesKeeps ==
    ASSUME TransferInv, TargetCrashes
    PROVE  TransferInv'
<1> DEFINE d == target.disk
           m == IF d.registered /\ d.phase = "identity-complete"
                THEN [d EXCEPT !.phase = "registered"] ELSE d
           t == [target EXCEPT !.mem = m, !.ready = d.registered, !.screen = FALSE, !.at = "idle",
                    !.next = "end", !.got = None, !.cancel = "none", !.of = None]
<1>1. /\ IsKept(m) /\ m.identity = d.identity /\ m.session = d.session /\ m.history = d.history
      /\ m.phase \in {d.phase, "registered"}
  BY TargetIs DEF IsKept
<1>2. target' = (IF m = d THEN t ELSE [t EXCEPT !.at = "saving", !.got = m])
      /\ UNCHANGED <<sessions, source>>
  BY DEF TargetCrashes
<1> HIDE DEF m
<1>3. /\ IsTarget(t) /\ t.mem = m /\ t.disk = d /\ t.at = "idle" /\ t.next = "end" /\ t.cancel = "none"
  BY <1>1, TargetIs DEF IsTarget
<1> HIDE DEF t
<1>4. /\ IsTarget(target') /\ target'.mem = m /\ target'.disk = d /\ target'.next = "end"
      /\ target'.cancel = "none" /\ target'.at \in {"idle", "saving"} /\ Kept(target') = m
  BY <1>1, <1>2, <1>3 DEF IsTarget, Kept
<1>5. Copies(target') = {m, d} /\ d \in Copies(target)
  BY <1>4 DEF Copies
<1>6. Full(m, sessions)
  BY <1>1, TargetIs DEF Full
<1>7. TargetOK(target', sessions)
  BY <1>4, <1>5, <1>6, TargetIs DEF TargetOK, Registers, Creates, PollOK, CancelOK
<1>8. ArrivedOK(target', sessions)
  BY <1>1, <1>4, <1>5, TargetIs DEF ArrivedOK, Has
<1> QED
  BY <1>2, <1>4, <1>7, <1>8, TargetAlone

\* A cancellation, beside a call: what is kept and stored stays, and so does the call.
LEMMA CancelMoves ==
    ASSUME TransferInv, NEW c, c \in {"none", "asking"}, NEW o, o \in Sessions \cup {None},
           target' = [target EXCEPT !.cancel = c, !.of = o], c # "none" => ~Creates(target),
           c = "asking" => o \in Sessions /\ o # None /\ target.mem.session = o,
           UNCHANGED <<sessions, source>>
    PROVE  TransferInv'
<1>1. /\ IsTarget(target') /\ target'.at = target.at /\ target'.next = target.next
      /\ target'.mem = target.mem /\ target'.disk = target.disk /\ target'.got = target.got
      /\ target'.cancel = c /\ target'.of = o
  BY TargetIs DEF IsTarget
<1>2. Kept(target') = Kept(target) /\ Copies(target') = Copies(target)
  BY <1>1 DEF Kept, Copies
<1>3. Creates(target') = Creates(target) /\ Registers(target') = Registers(target)
  BY <1>1 DEF Creates, Registers
<1>4. PollOK(target', sessions) /\ CancelOK(target', sessions)
  <2>1. PollOK(target', sessions)
    BY <1>1, TargetIs DEF TargetOK, PollOK
  <2>2. CancelOK(target', sessions)
    BY <1>1 DEF CancelOK
  <2> QED
    BY <2>1, <2>2
<1>5. TargetOK(target', sessions)
  BY <1>1, <1>2, <1>3, <1>4, TargetIs DEF TargetOK
<1>6. ArrivedOK(target', sessions)
  BY <1>1, <1>2, TargetIs DEF ArrivedOK
<1> QED
  BY <1>1, <1>5, <1>6, TargetAlone

LEMMA CancelIncomingKeeps ==
    ASSUME TransferInv, CancelIncoming
    PROVE  TransferInv'
<1>1. target.mem.session \in Sessions
  BY TargetIs DEF CancelIncoming, IsKept
<1>2. ~Creates(target)
  BY TargetIs DEF CancelIncoming, TargetOK
<1> QED
  BY <1>1, <1>2, CancelMoves DEF CancelIncoming

LEMMA CancelFailsKeeps ==
    ASSUME TransferInv, CancelFails
    PROVE  TransferInv'
BY CancelMoves DEF CancelFails

LEMMA DestroyedKeeps ==
    ASSUME TransferInv, Destroyed
    PROVE  TransferInv'
<1>1. target.cancel = "answered" /\ UNCHANGED <<sessions, source>>
  BY DEF Destroyed
<1>2. \E at \in {"idle", "saving"}, got \in {None, target.got} :
        /\ target' = [target EXCEPT !.cancel = "clearing", !.mem = Empty, !.screen = FALSE,
                         !.next = "end", !.ready = FALSE, !.at = at, !.got = got]
        /\ at = "saving" => target.at = "saving" /\ got = target.got
        /\ at = "idle" => target.at # "saving"
  BY DEF Destroyed
<1>3. PICK at \in {"idle", "saving"}, got \in {None, target.got} :
        /\ target' = [target EXCEPT !.cancel = "clearing", !.mem = Empty, !.screen = FALSE,
                         !.next = "end", !.ready = FALSE, !.at = at, !.got = got]
        /\ at = "saving" => target.at = "saving" /\ got = target.got
        /\ at = "idle" => target.at # "saving"
  BY <1>2
<1>4. /\ target'.cancel = "clearing" /\ target'.mem = Empty /\ target'.screen = FALSE
      /\ target'.next = "end" /\ target'.at = at /\ target'.got = got
      /\ target'.disk = target.disk /\ target'.of = target.of
  BY <1>3, TargetIs DEF IsTarget
<1>5. IsTarget(target')
  <2>1. target' \in [disk : {target'.disk}, mem : {target'.mem}, ready : {target'.ready},
                     screen : {target'.screen}, at : {target'.at}, next : {target'.next},
                     got : {target'.got}, cancel : {target'.cancel}, of : {target'.of}]
    BY <1>3, TargetIs DEF IsTarget
  <2>2. target'.of \in Sessions \cup {None} /\ (at = "saving" => IsKept(got))
    BY <1>3, <1>4, TargetIs DEF IsTarget
  <2>3. IsKept(target'.disk) /\ IsKept(target'.mem) /\ (target'.at = "saving" => IsKept(target'.got))
    BY <1>4, <2>2, TargetIs, EmptyIs
  <2>4. target'.at \in {"idle", "saving"} /\ target'.next = "end" /\ target'.cancel = "clearing"
    BY <1>4
  <2> QED
    BY <2>1, <2>2, <2>3, <2>4, <1>4 DEF IsTarget
<1>6. Kept(target') = Kept(target) /\ Copies(target') = {Empty, target.disk, Kept(target)}
  BY <1>3, <1>4 DEF Kept, Copies
<1>7. TargetOK(target', sessions)
  BY <1>3, <1>4, <1>6, TargetIs, EmptyIs DEF TargetOK, Registers, Creates, PollOK, CancelOK
<1>8. ArrivedOK(target', sessions)
  BY <1>1, TargetIs DEF ArrivedOK
<1> QED
  BY <1>1, <1>5, <1>7, <1>8, TargetAlone

LEMMA ClearedKeeps ==
    ASSUME TransferInv, Cleared
    PROVE  TransferInv'
<1>1. target.cancel = "clearing" /\ UNCHANGED <<sessions, source>> /\ target.mem = Empty
      /\ target.at \in {"idle", "saving"} /\ target.next = "end"
  BY TargetIs DEF Cleared, TargetOK, CancelOK
<1>2. /\ IsTarget(target') /\ target'.cancel = "none" /\ target'.disk = Empty
      /\ target'.mem = target.mem /\ target'.at = target.at /\ target'.got = target.got
      /\ target'.next = target.next
  BY TargetIs, EmptyIs DEF Cleared, IsTarget
<1>3. Full(Kept(target'), sessions) /\ Copies(target') = {Empty, Kept(target')}
  BY <1>1, <1>2, TargetIs DEF Kept, Copies
<1>4. TargetOK(target', sessions)
  BY <1>1, <1>2, <1>3, TargetIs, EmptyIs DEF TargetOK, Registers, Creates, PollOK, CancelOK
<1>5. ArrivedOK(target', sessions)
  BY <1>1, TargetIs DEF ArrivedOK
<1> QED
  BY <1>1, <1>2, <1>4, <1>5, TargetAlone

-----------------------------------------------------------------------------
(* The steps of the target's requests that change a session.               *)

\* A session that the source does not see change, and what follows at the target.
LEMMA TargetMoves ==
    ASSUME TransferInv, NEW s \in Sessions, NEW y, IsSession(y), SessionOK(y),
           SameChain(sessions[s], y), sessions' = [sessions EXCEPT ![s] = y], UNCHANGED source,
           IsTarget(target'), TargetOK(target', sessions'), ArrivedOK(target', sessions')
    PROVE  TransferInv'
<1>1. SourceOK(source, sessions')
  BY SessionsPut, ChainSame
<1> QED
  BY <1>1, SessionsPut, SourceIs DEF TransferInv, TypesOK

LEMMA ServerCreatesKeeps ==
    ASSUME TransferInv, ServerCreates
    PROVE  TransferInv'
<1>1. PICK s \in Sessions :
        /\ sessions[s].status = "none" /\ sessions' = [sessions EXCEPT ![s].status = "PENDING"]
        /\ target' = [target EXCEPT !.at = "created", !.got = s]
  BY DEF ServerCreates, Made, Sessions
<1> DEFINE x == sessions[s]
           y == [x EXCEPT !.status = "PENDING"]
<1>2. sessions' = [sessions EXCEPT ![s] = y] /\ UNCHANGED source /\ target.at = "creating"
  BY <1>1 DEF ServerCreates
<1>3. /\ IsSession(y) /\ y.status = "PENDING" /\ y.key = x.key /\ y.chunks = x.chunks
      /\ y.approval = x.approval /\ y.owed = x.owed
  BY SourceIs DEF IsSession
<1> HIDE DEF y
<1>4. SameChain(x, y) /\ Later(x, y) /\ SessionOK(y)
  BY <1>1, <1>3, SourceIs DEF SameChain, Later, SessionOK, Decided, Open, Taken
<1>5. sessions'[s] = y /\ \A z \in Sessions : z # s => sessions'[z] = sessions[z]
  BY <1>2, <1>3, <1>4, SessionsPut
<1>6. \A z \in Sessions : Later(sessions[z], sessions'[z])
  BY <1>4, <1>5 DEF Later
<1>7. TargetOK(target, sessions') /\ ArrivedOK(target, sessions')
  BY <1>6, TargetIs, TargetStays
<1>8. /\ IsTarget(target') /\ target'.at = "created" /\ target'.mem = target.mem
      /\ target'.disk = target.disk /\ target'.cancel = target.cancel /\ target'.of = target.of
  BY <1>1, <1>2, TargetIs DEF IsTarget
<1>9. Kept(target') = Kept(target) /\ Copies(target') = Copies(target)
  BY <1>2, <1>8 DEF Kept, Copies
<1>10. Creates(target) /\ target.cancel = "none"
  BY <1>2, TargetIs DEF Creates, TargetOK
<1>11. TargetOK(target', sessions')
  BY <1>7, <1>8, <1>9, <1>10 DEF TargetOK, Registers, Creates, PollOK, CancelOK
<1>12. ArrivedOK(target', sessions')
  BY <1>7, <1>8, <1>9 DEF ArrivedOK
<1> QED
  BY <1>2, <1>3, <1>4, <1>8, <1>11, <1>12, TargetMoves

LEMMA ServerFinalizesKeeps ==
    ASSUME TransferInv, ServerFinalizes
    PROVE  TransferInv'
<1> DEFINE s == target.mem.session
           x == sessions[s]
           y == [x EXCEPT !.status = "COMPLETED"]
<1>1. /\ target.at = "joining" /\ x.status = "REGISTERED" /\ UNCHANGED source
      /\ sessions' = [sessions EXCEPT ![s] = y]
      /\ target' = [target EXCEPT !.at = "finalized"]
  BY DEF ServerFinalizes
<1>2. s \in Sessions /\ s # None /\ target.cancel # "clearing"
  BY <1>1, TargetIs, NotClearing DEF TargetOK, PollOK, IsKept
<1>3. /\ IsSession(y) /\ y.status = "COMPLETED" /\ y.key = x.key /\ y.chunks = x.chunks
      /\ y.approval = x.approval /\ y.owed = x.owed
  BY <1>2, SourceIs DEF IsSession
<1> HIDE DEF y
<1>4. SameChain(x, y) /\ Later(x, y)
  BY <1>1, <1>3 DEF SameChain, Later, Decided, Open, Taken
<1>5. SessionOK(y)
  BY <1>2, <1>3, <1>4, SourceIs, SessionStays
<1>6. sessions'[s] = y /\ \A z \in Sessions : z # s => sessions'[z] = sessions[z]
  BY <1>1, <1>2, <1>3, <1>5, SessionsPut
<1>7. \A z \in Sessions : Later(sessions[z], sessions'[z])
  BY <1>2, <1>4, <1>6 DEF Later
<1>8. TargetOK(target, sessions') /\ ArrivedOK(target, sessions')
  BY <1>7, TargetIs, TargetStays
<1>9. /\ IsTarget(target') /\ target'.at = "finalized" /\ target'.mem = target.mem
      /\ target'.disk = target.disk /\ target'.cancel = target.cancel /\ target'.of = target.of
  BY <1>1, TargetIs DEF IsTarget
<1>10. Kept(target') = Kept(target) /\ Copies(target') = Copies(target)
  BY <1>1, <1>9 DEF Kept, Copies
<1>11. PollOK(target', sessions') /\ CancelOK(target', sessions')
  BY <1>2, <1>3, <1>6, <1>8, <1>9 DEF TargetOK, PollOK, CancelOK
<1>12. TargetOK(target', sessions')
  BY <1>8, <1>9, <1>10, <1>11 DEF TargetOK, Registers, Creates
<1>13. ArrivedOK(target', sessions')
  BY <1>8, <1>9, <1>10 DEF ArrivedOK
<1> QED
  BY <1>1, <1>2, <1>3, <1>4, <1>5, <1>9, <1>12, <1>13, TargetMoves

LEMMA ServerCancelsIncomingKeeps ==
    ASSUME TransferInv, ServerCancelsIncoming
    PROVE  TransferInv'
<1> DEFINE s == target.of
           x == sessions[s]
           y == [x EXCEPT !.status = "CANCELLED"]
<1>1. /\ target.cancel = "asking" /\ x.status \in {"PENDING", "APPROVED", "CANCELLED"}
      /\ UNCHANGED source /\ sessions' = [sessions EXCEPT ![s] = y]
      /\ target' = [target EXCEPT !.cancel = "answered", !.of = None]
  BY DEF ServerCancelsIncoming, Cancellable
<1>2. /\ s \in Sessions /\ ~Taken(x) /\ target.mem.session = s /\ s # None
      /\ ~Creates(target)
  BY <1>1, TargetIs DEF TargetOK, CancelOK, Taken
<1>3. /\ IsSession(y) /\ SessionOK(y) /\ SameChain(x, y) /\ Later(x, y)
      /\ y.status = "CANCELLED"
  BY <1>1, <1>2, SourceIs, CancelledIs
<1> HIDE DEF y
<1>4. sessions'[s] = y /\ \A z \in Sessions : z # s => sessions'[z] = sessions[z]
  BY <1>1, <1>2, <1>3, SessionsPut
<1>5. \A z \in Sessions : Later(sessions[z], sessions'[z])
  BY <1>2, <1>3, <1>4 DEF Later
<1>6. TargetOK(target, sessions') /\ ArrivedOK(target, sessions')
  BY <1>5, TargetIs, TargetStays
<1>7. /\ IsTarget(target') /\ target'.at = target.at /\ target'.next = target.next
      /\ target'.mem = target.mem /\ target'.disk = target.disk /\ target'.got = target.got
      /\ target'.cancel = "answered" /\ target'.of = None
  BY <1>1, TargetIs DEF IsTarget
<1>8. Kept(target') = Kept(target) /\ Copies(target') = Copies(target)
  BY <1>7 DEF Kept, Copies
<1>9. PollOK(target', sessions')
  BY <1>6, <1>7 DEF TargetOK, PollOK
<1>10. CancelOK(target', sessions')
  BY <1>2, <1>3, <1>4, <1>7 DEF CancelOK
<1>11. TargetOK(target', sessions')
  BY <1>2, <1>6, <1>7, <1>8, <1>9, <1>10 DEF TargetOK, Registers, Creates
<1>12. \A z \in Sessions : ~Taken(sessions'[z])
  <2> SUFFICES ASSUME NEW z \in Sessions, Taken(sessions'[z]) PROVE FALSE
    OBVIOUS
  <2>1. z # s
    BY <1>3, <1>4 DEF Taken
  <2>2. target.mem.session \in {z, None}
    BY <1>6 DEF ArrivedOK, Has, Copies
  <2> QED
    BY <1>2, <2>1, <2>2
<1>13. ArrivedOK(target', sessions')
  BY <1>12 DEF ArrivedOK
<1> QED
  BY <1>1, <1>2, <1>3, <1>7, <1>11, <1>13, TargetMoves

\* A session is taken once the device has stored all that it is owed.
LEMMA ServerRegistersKeeps ==
    ASSUME Values, TransferInv, ServerRegisters
    PROVE  TransferInv'
<1> DEFINE s == target.mem.session
           x == sessions[s]
           y == [x EXCEPT !.status = "REGISTERED"]
<1>1. /\ target.at = "registering" /\ UNCHANGED source /\ target.cancel # "clearing"
      /\ target' = [target EXCEPT !.at = "activating"]
  BY NotClearing DEF ServerRegisters
<1>2. /\ IsTarget(target') /\ target'.at = "activating" /\ target'.mem = target.mem
      /\ target'.disk = target.disk /\ target'.cancel = target.cancel /\ target'.of = target.of
  BY <1>1, TargetIs DEF IsTarget
<1>3. /\ Kept(target) = target.disk /\ Kept(target') = target.disk
      /\ Copies(target) = {target.mem, target.disk} /\ Copies(target') = {target.mem, target.disk}
  BY <1>1, <1>2 DEF Kept, Copies
<1>4. PollOK(target', sessions') /\ ~Creates(target')
  BY <1>2 DEF PollOK, Creates
<1>5. CASE x.status # "APPROVED" \/ s = None
  <2>1. UNCHANGED sessions
    <3>1. CASE x.status # "APPROVED"
      BY <3>1 DEF ServerRegisters
    <3>2. CASE x.status = "APPROVED" /\ s = None
      <4>1. sessions = [z \in Sessions |-> sessions[z]] /\ None \notin Sessions
        BY DEF TransferInv, TypesOK, Values, Sessions
      <4>2. sessions' = [sessions EXCEPT ![None].status = "REGISTERED"]
        BY <3>2 DEF ServerRegisters
      <4> QED
        BY <4>1, <4>2
    <3> QED
      BY <1>5, <3>1, <3>2
  <2> QED
    BY <1>1, <1>2, <1>4, <2>1, CallMoves
<1>6. CASE x.status = "APPROVED" /\ s # None
  <2>1. s \in Sessions /\ sessions' = [sessions EXCEPT ![s] = y]
    BY <1>6, TargetIs DEF ServerRegisters, IsKept
  <2>2. /\ IsSession(y) /\ y.status = "REGISTERED" /\ y.key = x.key /\ y.chunks = x.chunks
        /\ y.approval = x.approval /\ y.owed = x.owed
    BY <2>1, SourceIs DEF IsSession
  <2> HIDE DEF y
  <2>3. SameChain(x, y)
    BY <1>6, <2>2 DEF SameChain, Decided
  <2>4. SessionOK(y)
    BY <2>1, <2>2, <2>3, <1>6, SourceIs, SessionStays
  <2>5. /\ sessions'[s] = y /\ \A z \in Sessions : z # s => sessions'[z] = sessions[z]
    BY <2>1, <2>2, <2>4, SessionsPut
  <2>6. /\ target.mem.identity = "complete" /\ target.disk.identity = "complete"
        /\ target.disk.session = s
    BY <1>1, <1>3, TargetIs DEF TargetOK, Registers
  <2>7. y.owed \subseteq target.mem.history /\ y.owed \subseteq target.disk.history
    BY <1>6, <2>2, <2>6, TargetIs DEF Full, Decided
  <2>8. \A m \in Copies(target') : Full(m, sessions')
    <3>1. Full(target.mem, sessions')
      BY <2>2, <2>5, <2>6, <2>7, TargetIs DEF Full, Open
    <3>2. Full(target.disk, sessions')
      BY <2>2, <2>5, <2>6, <2>7, TargetIs DEF Full, Open
    <3> QED
      BY <1>3, <3>1, <3>2
  <2>9. CancelOK(target', sessions') /\ target.cancel # "answered"
    BY <1>1, <1>2, <1>6, <2>2, <2>5, TargetIs DEF TargetOK, CancelOK, Taken
  <2>10. TargetOK(target', sessions')
    BY <1>1, <1>2, <1>3, <1>4, <2>6, <2>8, <2>9 DEF TargetOK, Registers
  <2>11. \A z \in Sessions : z # s => ~Taken(sessions'[z])
    BY <1>6, <2>5, TargetIs DEF ArrivedOK, Has, Copies
  <2>12. ArrivedOK(target', sessions')
    BY <1>1, <1>2, <1>3, <2>5, <2>6, <2>7, <2>9, <2>11 DEF ArrivedOK, Has
  <2> QED
    BY <1>1, <1>2, <2>1, <2>2, <2>3, <2>4, <2>10, <2>12, TargetMoves
<1> QED
  BY <1>5, <1>6

-----------------------------------------------------------------------------
(* The theorems *)

LEMMA TransferStarts ==
    ASSUME Values, Init
    PROVE  TransferInv
<1>1. /\ NoSession.status = "none" /\ NoSession.key = None /\ NoSession.chunks = <<>>
      /\ IsSession(NoSession)
  BY EmptySeq DEF NoSession, IsSession, IsChain
<1>2. sessions = [s \in Sessions |-> sessions[s]] /\ \A s \in Sessions : sessions[s] = NoSession
  BY DEF Init, Sessions
<1>3. SessionOK(NoSession) /\ ~Taken(NoSession)
  BY <1>1 DEF SessionOK, Decided, Taken
<1>4. /\ source.at = "idle" /\ source.mem = NoEntry /\ source.disk = NoEntry
      /\ IsSource(source)
  <2>1. History \in Seq(Records)
    BY SeqMonotonic DEF Values, Records
  <2> QED
    BY <2>1, NoEntryIs DEF Init, IsSource
<1>5. SourceOK(source, sessions)
  BY <1>4 DEF SourceOK, EntryOK
<1>6. /\ IsTarget(target) /\ target.at = "idle" /\ target.mem = Empty /\ target.disk = Empty
      /\ target.cancel = "none"
  BY EmptyIs DEF Init, IsTarget
<1>7. Copies(target) = {Empty}
  BY <1>6 DEF Copies, Kept
<1>8. TargetOK(target, sessions)
  BY <1>6, <1>7, EmptyIs DEF TargetOK, Full, Registers, Creates, PollOK, CancelOK
<1>9. ArrivedOK(target, sessions)
  BY <1>2, <1>3 DEF ArrivedOK
<1> QED
  BY <1>1, <1>2, <1>3, <1>4, <1>5, <1>6, <1>8, <1>9 DEF TransferInv, TypesOK

LEMMA TransferStutters ==
    ASSUME TransferInv, UNCHANGED vars
    PROVE  TransferInv'
BY SourceAlone, SourceIs DEF vars

LEMMA TransferKeeps ==
    ASSUME Values, TransferInv, [Next]_vars
    PROVE  TransferInv'
<1>1. CASE SourceNext
  BY <1>1, StartOutgoingKeeps, ApproveOutgoingKeeps, ContinueOutgoingKeeps, CancelOutgoingKeeps,
     SourceSavedKeeps, SourceAnsweredKeeps, SourceFailsKeeps, SourceCrashesKeeps, NewRecordKeeps,
     ServerConnectsKeeps, ServerTakesChunkKeeps, ServerApprovesKeeps, ServerCancelsOutgoingKeeps
     DEF SourceNext
<1>2. CASE TargetNext
  BY <1>2, StartIncomingKeeps, CreatedKeeps, PollIncomingKeeps, ToldKeeps, ChunksArriveKeeps,
     ChunksFailKeeps, SetupDeviceKeeps, ActivatedKeeps, ReplenishedKeeps, FinalizedKeeps,
     TargetSavedKeeps, TargetFailsKeeps, TargetCrashesKeeps, CancelIncomingKeeps,
     CancelFailsKeeps, DestroyedKeeps, ClearedKeeps, ServerCreatesKeeps, ServerTellsKeeps,
     ServerRegistersKeeps, ServerFinalizesKeeps, ServerCancelsIncomingKeeps
     DEF TargetNext
<1>3. CASE Expire
  BY <1>3, ExpireKeeps
<1>4. CASE UNCHANGED vars
  BY <1>4, TransferStutters
<1> QED
  BY <1>1, <1>2, <1>3, <1>4 DEF Next

LEMMA TransferHolds == ASSUME Values PROVE Spec => []TransferInv
<1>1. Init => TransferInv
  BY TransferStarts
<1>2. TransferInv /\ [Next]_vars => TransferInv'
  BY TransferKeeps
<1> QED
  BY <1>1, <1>2, PTL DEF Spec

\* Once the server counts a device as registered by a transfer, the device has
\* stored its identity and every record that the transfer was approved for,
\* however often the source, the target or a request failed on the way
\* (completeIncomingDeviceTransfer, completeRegistration).
THEOREM TransferredHistoryArrives == Values => (Spec => []HistoryArrives)
<1> SUFFICES ASSUME Values PROVE Spec => []HistoryArrives
  OBVIOUS
<1>1. TransferInv => HistoryArrives
  BY DEF TransferInv, ArrivedOK, Has, Copies, Taken, HistoryArrives, Sessions
<1>2. Spec => []TransferInv
  BY TransferHolds
<1> QED
  BY <1>1, <1>2, PTL

\* What a transfer that is taken up again sends is what it sent, so that the
\* server never has to refuse it, and what it approves is a chain the target
\* takes (approveOutgoingDeviceTransfer).
THEOREM TransferResumesAsSent == Values => (Spec => []ResumesAsSent)
<1> SUFFICES ASSUME Values PROVE Spec => []ResumesAsSent
  OBVIOUS
<1>1. TransferInv => ResumesAsSent
  <2> SUFFICES ASSUME TransferInv PROVE ResumesAsSent
    OBVIOUS
  <2> DEFINE e == source.mem
             x == sessions[e.session]
  <2>1. \A s \in Sessions : sessions[s].status = "APPROVED" => ChainFits(sessions[s])
    BY SourceIs DEF SessionOK, Decided
  <2>2. source.at \in {"uploading", "approving"} =>
          /\ IsEntry(e) /\ e.session \in Sessions /\ e.plan # None /\ Begun(e, x) /\ IsSession(x)
    BY SourceIs DEF SourceOK, EntryOK
  <2>3. ASSUME source.at = "uploading", x.status = "PENDING"
        PROVE  Accepts(x, e.inFlight)
    <3>1. e.inFlight # None /\ e.inFlight.seq = e.next /\ e.next \in Nat /\ Len(x.chunks) \in Nat
      BY <2>2, <2>3, SourceIs, ChainIs DEF SourceOK, Begun, FlightOK, IsEntry, IsSession
    <3>2. e.next <= Len(x.chunks) /\ Len(x.chunks) <= e.next + 1
      BY <2>2, <2>3 DEF Begun
    <3>3. Len(x.chunks) = e.next + 1 => x.chunks[e.next + 1] = e.inFlight
      BY <2>2, <2>3 DEF Begun
    <3> QED
      BY <2>3, <3>1, <3>2, <3>3 DEF Accepts
  <2>4. source.at = "approving" /\ x.status = "APPROVED" => x.approval = e.approval
    BY <2>2 DEF Begun, Decided
  <2> QED
    BY <2>1, <2>3, <2>4 DEF ResumesAsSent, Sessions
<1>2. Spec => []TransferInv
  BY TransferHolds
<1> QED
  BY <1>1, <1>2, PTL
=============================================================================
