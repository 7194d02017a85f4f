----------------------- MODULE ThreadActivationProofs -----------------------
(***************************************************************************)
(* Proofs about ThreadActivation, for any devices and any bounds.          *)
(***************************************************************************)
EXTENDS ThreadActivation, TLAPS

-----------------------------------------------------------------------------
(* Types *)

\* A candidate that is prepared: its group and the one it replaces, 0 for none.
Body == [group : Nat, previous : Nat]
Welcome == [to : Devices, group : Nat, replaces : Nat]
Stored == [group : Nat, pending : Body \cup {None}]
Memory == [at : {"off", "idle", "saving", "welcomes", "activate", "finish", "resolve",
                 "recover", "join", "ack"},
           next : {"idle", "welcomes", "activate", "finish", "recover", "join", "ack"},
           after : {"end", "retry", "recover", "check"}, restoring : BOOLEAN,
           group : Nat, pending : Body \cup {None}, welcome : Welcome \cup {None}]
Thread == [group : Nat, joined : SUBSET Devices, waiting : SUBSET Welcome, expired : BOOLEAN,
           expiries : Nat, stale : SUBSET Nat, taken : SUBSET Nat]
Request == [from : Devices, body : Body]

\* The call of a memory is at a step, or comes to it after its save.
Comes(s, at) == s.at = at \/ (s.at = "saving" /\ s.next = at)

\* What is to be sent is prepared, what is to be joined was listed, what is to be
\* acknowledged was joined, and a client that is gone has nothing.
CallOK(s) ==
    /\ Comes(s, "finish") \/ s.at = "resolve" => s.pending # None
    /\ Comes(s, "join") \/ Comes(s, "ack") => s.welcome # None
    /\ Comes(s, "ack") => s.group = s.welcome.group
    /\ s.at = "off" => s.group = 0

TypeOK ==
    /\ local \in [Devices -> Memory]
    /\ saved \in [Devices -> Stored]
    /\ thread \in Thread
    /\ requests \subseteq Request
    /\ made \in Nat
    /\ \A d \in Devices : CallOK(local[d])

(* The invariant *)

\* The server's group is the last that it took, and every Welcome is to it and
\* to a device that has not joined it, one to each.
ServerOK ==
    /\ thread.group <= made
    /\ thread.group # 0 => thread.group \in thread.taken
    /\ \A w \in thread.waiting :
        /\ w.group = thread.group /\ w.replaces < w.group
        /\ w.to \notin thread.joined
        /\ \A v \in thread.waiting : v.to = w.to => v = w

\* A candidate is newer than what it replaces, which is the server's group or
\* was, and whose deadline has passed.
BodyOK(b) ==
    /\ b.previous < b.group /\ b.group <= made
    /\ b.previous <= thread.group
    /\ b.previous # 0 /\ thread.group = b.previous => thread.expired

\* The server will never take the candidate: its key packages are gone, another
\* group came, or everyone has joined the one it was to replace.
Dead(b) ==
    \/ b.group \in thread.stale
    \/ thread.group > b.previous
    \/ b.previous # 0 /\ Ready

\* A group is a candidate or was taken.
StateOK(g, p) ==
    /\ p # None => g = p.group /\ BodyOK(p)
    /\ p = None /\ g # 0 => g \in thread.taken

Keep(g, p) == g \in {0, thread.group} \/ p = [group |-> g, previous |-> thread.group]

\* A Welcome that was listed is to the server's group or to one before it.
WelcomeOK(w) == w.group \in thread.taken /\ w.replaces < w.group /\ w.group <= thread.group

DeviceOK(d) ==
    LET s == local[d]
        t == saved[d]
    IN  /\ StateOK(s.group, s.pending) /\ StateOK(t.group, t.pending)
        /\ d \in thread.joined => Keep(s.group, s.pending) /\ Keep(t.group, t.pending)
        /\ s.at \notin {"off", "saving"} => s.group = t.group /\ s.pending = t.pending
        /\ s.welcome # None => s.welcome.to = d /\ WelcomeOK(s.welcome)
        /\ s.at = "resolve" => Dead(s.pending)
        /\ Comes(s, "join") /\ d \in thread.joined => s.group > s.welcome.group

\* A request that the server may still take is for what its device has prepared.
LateOK(r) ==
    /\ BodyOK(r.body)
    /\ ~Dead(r.body) =>
        /\ saved[r.from].pending = r.body
        /\ local[r.from].at # "off" => local[r.from].pending = r.body

ActivationInv ==
    /\ ServerOK
    /\ \A d \in Devices : DeviceOK(d)
    /\ \A r \in requests : LateOK(r)

\* None is no candidate and no Welcome: the one thing asked of the constants.
Distinct == None \notin Body \cup Welcome
-----------------------------------------------------------------------------
(* What the operators make of a device's memory.                           *)

Points == {"off", "idle", "saving", "welcomes", "activate", "finish", "resolve",
           "recover", "join", "ack"}
Nexts == {"idle", "welcomes", "activate", "finish", "recover", "join", "ack"}

LEMMA OffIs == /\ Off \in Memory /\ CallOK(Off)
               /\ Off.at = "off" /\ Off.group = 0 /\ Off.pending = None /\ Off.welcome = None
<1>1. Off \in Memory
  BY DEF Off, Memory
<1> QED
  BY <1>1 DEF Off, CallOK, Comes

LEMMA AtIs ==
    ASSUME NEW s \in Memory, NEW at \in Points
    PROVE  LET n == [s EXCEPT !.at = at]
           IN  /\ n \in Memory /\ n.at = at /\ n.next = s.next
               /\ n.group = s.group /\ n.pending = s.pending /\ n.welcome = s.welcome
BY DEF Memory, Points

LEMMA SavingIs ==
    ASSUME NEW s \in Memory, NEW next \in Nexts
    PROVE  LET n == Saving(s, next)
           IN  /\ n \in Memory /\ n.at = "saving" /\ n.next = next
               /\ n.group = s.group /\ n.pending = s.pending /\ n.welcome = s.welcome
BY DEF Memory, Saving, Nexts

LEMMA EndedIs ==
    ASSUME NEW s \in Memory
    PROVE  LET n == Ended(s)
           IN  /\ n \in Memory /\ n.at = "idle"
               /\ n.group = s.group /\ n.pending = s.pending /\ n.welcome = None
BY DEF Memory, Ended

LEMMA FailedIs ==
    ASSUME NEW s \in Memory
    PROVE  Failed(s) = Off \/ Failed(s) = Ended(s)
BY DEF Failed

LEMMA DiscardedIs ==
    ASSUME NEW s \in Memory
    PROVE  LET n == Discarded(s)
           IN  /\ n \in Memory /\ n.at = s.at /\ n.next = s.next
               /\ n.group = 0 /\ n.pending = None /\ n.welcome = s.welcome
BY DEF Memory, Discarded

LEMMA PendingNone ==
    ASSUME NEW s \in Memory
    PROVE  LET n == [s EXCEPT !.pending = None]
           IN  /\ n \in Memory /\ n.at = s.at /\ n.next = s.next
               /\ n.group = s.group /\ n.pending = None /\ n.welcome = s.welcome
BY DEF Memory

LEMMA GroupIs ==
    ASSUME NEW s \in Memory, NEW g \in Nat, NEW p \in Body \cup {None}
    PROVE  LET n == [s EXCEPT !.group = g, !.pending = p]
           IN  /\ n \in Memory /\ n.at = s.at /\ n.next = s.next
               /\ n.group = g /\ n.pending = p /\ n.welcome = s.welcome
BY DEF Memory

-----------------------------------------------------------------------------
(* What each step does.                                                    *)

\* Only the memory of d changes.
Moves(d) ==
    /\ local' \in [Devices -> Memory]
    /\ \A e \in Devices : CallOK(local'[e])
    /\ \A e \in Devices : e # d => local'[e] = local[e]

\* The client of d is gone, or its call has ended.
Ends(d) ==
    \/ local'[d] = Off
    \/ /\ local'[d].at = "idle" /\ local'[d].welcome = None
       /\ local'[d].group = local[d].group /\ local'[d].pending = local[d].pending

\* The call of d goes on with what it has, on the Welcome w.
GoesOn(d, at, w) ==
    /\ local'[d].at = at /\ local'[d].welcome = w
    /\ local'[d].group = local[d].group /\ local'[d].pending = local[d].pending

\* The client of d is about to store group g and the candidate p.
Saves(d, next, g, p, w) ==
    /\ local'[d].at = "saving" /\ local'[d].next = next /\ local'[d].welcome = w
    /\ local'[d].group = g /\ local'[d].pending = p

LEMMA GoesMoves ==
    ASSUME TypeOK, NEW d \in Devices, NEW n \in Memory, CallOK(n), Goes(d, n)
    PROVE  Moves(d) /\ local'[d] = n
BY DEF TypeOK, Goes, Moves

LEMMA EndsMoves ==
    ASSUME TypeOK, NEW d \in Devices, Goes(d, Failed(local[d])) \/ Goes(d, Ended(local[d]))
    PROVE  Moves(d) /\ Ends(d)
<1>1. local[d] \in Memory
  BY DEF TypeOK
<1>2. PICK n \in {Off, Ended(local[d])} : Goes(d, n)
  BY <1>1, FailedIs
<1>3. n \in Memory /\ CallOK(n)
  BY <1>1, OffIs, EndedIs DEF CallOK, Comes
<1>4. Moves(d) /\ local'[d] = n
  BY <1>2, <1>3, GoesMoves
<1> QED
  BY <1>1, <1>4, EndedIs DEF Ends

LEMMA GoesOnMoves ==
    ASSUME TypeOK, NEW d \in Devices, NEW at \in Points \ {"off", "saving"},
           at \in {"finish", "resolve"} => local[d].pending # None,
           at \in {"join", "ack"} => local[d].welcome # None,
           at = "ack" => local[d].group = local[d].welcome.group,
           Goes(d, [local[d] EXCEPT !.at = at])
    PROVE  Moves(d) /\ GoesOn(d, at, local[d].welcome)
<1>1. local[d] \in Memory
  BY DEF TypeOK
<1> DEFINE n == [local[d] EXCEPT !.at = at]
<1>2. /\ n \in Memory /\ n.at = at
      /\ n.group = local[d].group /\ n.pending = local[d].pending /\ n.welcome = local[d].welcome
  BY <1>1, AtIs
<1>3. Goes(d, n)
  OBVIOUS
<1> HIDE DEF n
<1>4. CallOK(n)
  BY <1>2 DEF CallOK, Comes
<1>5. Moves(d) /\ local'[d] = n
  BY <1>2, <1>3, <1>4, GoesMoves
<1> QED
  BY <1>2, <1>5 DEF GoesOn

LEMMA SavesMoves ==
    ASSUME TypeOK, NEW d \in Devices, NEW next \in Nexts, NEW n \in Memory,
           n.at = "saving", n.next = next,
           next = "finish" => n.pending # None,
           next \in {"join", "ack"} => n.welcome # None,
           next = "ack" => n.group = n.welcome.group,
           Goes(d, n)
    PROVE  Moves(d) /\ Saves(d, next, n.group, n.pending, n.welcome)
<1>1. CallOK(n)
  BY DEF CallOK, Comes
<1>2. Moves(d) /\ local'[d] = n
  BY <1>1, GoesMoves
<1> QED
  BY <1>2 DEF Saves

-----------------------------------------------------------------------------
(* What the server does: what it has taken it keeps, and a candidate that is *)
(* dead stays dead.                                                        *)

Grows ==
    /\ ServerOK'
    /\ thread.group <= thread'.group /\ thread.taken \subseteq thread'.taken
    /\ \A b \in Body : BodyOK(b) => BodyOK(b)' /\ (Dead(b) => Dead(b)')

\* No device but those of D joins, and only to the server's same group.
JoinsOnly(D) ==
    \A e \in Devices \ D : e \in thread'.joined => e \in thread.joined /\ thread'.group = thread.group

LEMMA ThreadFields ==
    ASSUME TypeOK
    PROVE  /\ thread.group \in Nat /\ thread.joined \subseteq Devices
           /\ thread.waiting \subseteq Welcome /\ thread.expired \in BOOLEAN
           /\ thread.stale \subseteq Nat /\ thread.taken \subseteq Nat
           /\ made \in Nat
BY DEF TypeOK, Thread

LEMMA BodyFields ==
    ASSUME NEW b \in Body
    PROVE  b.group \in Nat /\ b.previous \in Nat
BY DEF Body

LEMMA WelcomeFields ==
    ASSUME NEW w \in Welcome
    PROVE  w.to \in Devices /\ w.group \in Nat /\ w.replaces \in Nat
BY DEF Welcome

LEMMA SameGrows ==
    ASSUME TypeOK, ServerOK, thread' = thread, made' \in Nat, made <= made'
    PROVE  Grows /\ JoinsOnly({})
<1> USE ThreadFields
<1>1. ServerOK'
  BY DEF ServerOK
<1>2. ASSUME NEW b \in Body PROVE BodyOK(b) => BodyOK(b)' /\ (Dead(b) => Dead(b)')
  BY <1>2, BodyFields DEF BodyOK, Dead, Ready
<1> QED
  BY <1>1, <1>2 DEF Grows, JoinsOnly

LEMMA ExpireGrows ==
    ASSUME TypeOK, ServerOK, made' = made,
           thread' = [thread EXCEPT !.expired = TRUE, !.expiries = @ + 1]
    PROVE  Grows /\ JoinsOnly({})
<1> USE ThreadFields
<1>0. /\ thread'.group = thread.group /\ thread'.joined = thread.joined
      /\ thread'.waiting = thread.waiting /\ thread'.expired = TRUE
      /\ thread'.stale = thread.stale /\ thread'.taken = thread.taken
  BY DEF TypeOK, Thread
<1>1. ServerOK'
  BY <1>0 DEF ServerOK
<1>2. ASSUME NEW b \in Body PROVE BodyOK(b) => BodyOK(b)' /\ (Dead(b) => Dead(b)')
  BY <1>0, BodyFields DEF BodyOK, Dead, Ready
<1> QED
  BY <1>0, <1>1, <1>2 DEF Grows, JoinsOnly

LEMMA ClaimsGrows ==
    ASSUME TypeOK, ServerOK, made' = made, NEW g,
           thread' = [thread EXCEPT !.stale = @ \cup {g}]
    PROVE  Grows /\ JoinsOnly({})
<1> USE ThreadFields
<1>0. /\ thread'.group = thread.group /\ thread'.joined = thread.joined
      /\ thread'.waiting = thread.waiting /\ thread'.expired = thread.expired
      /\ thread'.stale = thread.stale \cup {g} /\ thread'.taken = thread.taken
  BY DEF TypeOK, Thread
<1>1. ServerOK'
  BY <1>0 DEF ServerOK
<1>2. ASSUME NEW b \in Body PROVE BodyOK(b) => BodyOK(b)' /\ (Dead(b) => Dead(b)')
  BY <1>0, BodyFields DEF BodyOK, Dead, Ready
<1> QED
  BY <1>0, <1>1, <1>2 DEF Grows, JoinsOnly

LEMMA JoinGrows ==
    ASSUME TypeOK, ServerOK, made' = made, NEW w \in thread.waiting,
           thread' = [thread EXCEPT !.waiting = @ \ {w}, !.joined = @ \cup {w.to}]
    PROVE  Grows /\ JoinsOnly({w.to}) /\ thread'.group = thread.group
<1> USE ThreadFields
<1>0. /\ thread'.group = thread.group /\ thread'.joined = thread.joined \cup {w.to}
      /\ thread'.waiting = thread.waiting \ {w} /\ thread'.expired = thread.expired
      /\ thread'.stale = thread.stale /\ thread'.taken = thread.taken
  BY DEF TypeOK, Thread
<1>1. w.to \in Devices
  BY WelcomeFields
<1>2. ServerOK'
  BY <1>0 DEF ServerOK
<1>3. ASSUME NEW b \in Body PROVE BodyOK(b) => BodyOK(b)' /\ (Dead(b) => Dead(b)')
  BY <1>0, <1>1, BodyFields DEF BodyOK, Dead, Ready
<1> QED
  BY <1>0, <1>2, <1>3 DEF Grows, JoinsOnly

LEMMA TakenGrows ==
    ASSUME TypeOK, ServerOK, made' = made, NEW d \in Devices, NEW b \in Body,
           BodyOK(b), Accepts(b), thread' = Taken(d, b)
    PROVE  /\ Grows /\ JoinsOnly({d}) /\ thread'.group = b.group
           /\ thread.group < thread'.group
<1> USE ThreadFields, BodyFields
<1> DEFINE W == [to : Devices \ {d}, group : {b.group}, replaces : {b.previous}]
<1>0. /\ thread'.group = b.group /\ thread'.joined = {d}
      /\ thread'.waiting = W /\ thread'.expired = FALSE
      /\ thread'.stale = thread.stale /\ thread'.taken = thread.taken \cup {b.group}
  BY DEF TypeOK, Thread, Taken
<1>1. thread.group = b.previous /\ b.previous < b.group /\ b.group <= made
  BY DEF Accepts, BodyOK
<1>2. \A w \in W : w.to \in Devices /\ w.to # d /\ w.group = b.group /\ w.replaces = b.previous
  OBVIOUS
<1>2a. \A v, w \in W : v.to = w.to => v = w
  OBVIOUS
<1> HIDE DEF W
<1>3. ServerOK'
  <2>1. thread'.group <= made' /\ thread'.group \in thread'.taken
    BY <1>0, <1>1
  <2>2. ASSUME NEW w \in thread'.waiting
        PROVE  /\ w.group = thread'.group /\ w.replaces < w.group /\ w.to \notin thread'.joined
               /\ \A v \in thread'.waiting : v.to = w.to => v = w
    BY <1>0, <1>1, <1>2, <1>2a
  <2> QED
    BY <2>1, <2>2 DEF ServerOK
<1>4. ASSUME NEW c \in Body PROVE BodyOK(c) => BodyOK(c)' /\ (Dead(c) => Dead(c)')
  <2> HAVE BodyOK(c)
  <2>1. BodyOK(c)'
    BY <1>0, <1>1, BodyFields DEF BodyOK
  <2>2. Dead(c) => Dead(c)'
    BY <1>0, <1>1, BodyFields DEF BodyOK, Dead
  <2> QED
    BY <2>1, <2>2
<1> QED
  BY <1>0, <1>1, <1>3, <1>4 DEF Grows, JoinsOnly

-----------------------------------------------------------------------------
(* What is kept, step by step.                                             *)

LEMMA MemoryFields ==
    ASSUME TypeOK, NEW d \in Devices
    PROVE  /\ local[d] \in Memory /\ local[d].at \in Points
           /\ local[d].group \in Nat /\ local[d].pending \in Body \cup {None}
           /\ local[d].welcome \in Welcome \cup {None}
           /\ saved[d] \in Stored /\ saved[d].group \in Nat /\ saved[d].pending \in Body \cup {None}
           /\ CallOK(local[d])
<1>1. local[d] \in Memory /\ saved[d] \in Stored /\ CallOK(local[d])
  BY DEF TypeOK
<1> QED
  BY <1>1 DEF Memory, Stored, Points

\* A state that is right stays right, and so does a Welcome that was listed.
LEMMA StateStays ==
    ASSUME Grows, NEW g, NEW p \in Body \cup {None}, StateOK(g, p)
    PROVE  StateOK(g, p)'
BY DEF Grows, StateOK

LEMMA WelcomeStays ==
    ASSUME TypeOK, TypeOK', Grows, NEW w \in Welcome, WelcomeOK(w)
    PROVE  WelcomeOK(w)'
<1>1. thread.group \in Nat /\ thread'.group \in Nat
  BY DEF TypeOK, Thread
<1> QED
  BY <1>1, WelcomeFields DEF Grows, WelcomeOK

LEMMA KeepStays ==
    ASSUME NEW g, NEW p, Keep(g, p), thread'.group = thread.group
    PROVE  Keep(g, p)'
BY DEF Keep

\* A device that does nothing.
LEMMA RestKept ==
    ASSUME Distinct, TypeOK, TypeOK', Grows, NEW e \in Devices, DeviceOK(e),
           local'[e] = local[e], saved'[e] = saved[e],
           e \in thread'.joined => e \in thread.joined /\ thread'.group = thread.group
    PROVE  DeviceOK(e)'
<1>1. PICK s \in Memory : s = local[e]
  BY MemoryFields
<1>2. PICK t \in Stored : t = saved[e]
  BY MemoryFields
<1>3. /\ s.group \in Nat /\ s.pending \in Body \cup {None} /\ s.welcome \in Welcome \cup {None}
      /\ t.group \in Nat /\ t.pending \in Body \cup {None}
  BY DEF Memory, Stored
<1>4. /\ StateOK(s.group, s.pending) /\ StateOK(t.group, t.pending)
      /\ e \in thread.joined => Keep(s.group, s.pending) /\ Keep(t.group, t.pending)
      /\ s.at \notin {"off", "saving"} => s.group = t.group /\ s.pending = t.pending
      /\ s.welcome # None => s.welcome.to = e /\ WelcomeOK(s.welcome)
      /\ s.at = "resolve" => Dead(s.pending)
      /\ Comes(s, "join") /\ e \in thread.joined => s.group > s.welcome.group
  BY <1>1, <1>2 DEF DeviceOK
<1>5. StateOK(s.group, s.pending)' /\ StateOK(t.group, t.pending)'
  BY <1>3, <1>4, StateStays
<1>6. e \in thread'.joined => Keep(s.group, s.pending)' /\ Keep(t.group, t.pending)'
  BY <1>4, KeepStays
<1>7. s.welcome # None => s.welcome.to = e /\ WelcomeOK(s.welcome)'
  BY <1>3, <1>4, WelcomeStays
<1>8. s.at = "resolve" => Dead(s.pending)'
  <2> HAVE s.at = "resolve"
  <2>1. s.pending # None
    BY <1>1, MemoryFields DEF CallOK
  <2>2. s.pending \in Body /\ BodyOK(s.pending) /\ Dead(s.pending)
    BY <1>3, <1>4, <2>1 DEF StateOK
  <2> QED
    BY <2>2 DEF Grows
<1>9. Comes(s, "join") /\ e \in thread'.joined => s.group > s.welcome.group
  BY <1>4
<1>10. s = local'[e] /\ t = saved'[e]
  BY <1>1, <1>2
<1> QED
  BY <1>4, <1>5, <1>6, <1>7, <1>8, <1>9, <1>10 DEF DeviceOK

\* A device whose call has ended.
LEMMA EndsKept ==
    ASSUME Distinct, TypeOK, TypeOK', Grows, NEW d \in Devices, DeviceOK(d),
           Ends(d), saved'[d] = saved[d], local[d].at \notin {"off", "saving"},
           d \in thread'.joined =>
               \/ d \in thread.joined /\ thread'.group = thread.group
               \/ saved[d].group = thread'.group
    PROVE  DeviceOK(d)'
<1>1. PICK t \in Stored : t = saved[d]
  BY MemoryFields
<1>2. PICK n \in Memory : n = local'[d]
  BY MemoryFields DEF TypeOK
<1>3. /\ n.group \in Nat /\ n.pending \in Body \cup {None}
      /\ t.group \in Nat /\ t.pending \in Body \cup {None}
  BY DEF Memory, Stored
<1>4. /\ StateOK(t.group, t.pending)
      /\ d \in thread.joined => Keep(t.group, t.pending)
      /\ local[d].group = t.group /\ local[d].pending = t.pending
  BY <1>1 DEF DeviceOK
<1>5. /\ n.welcome = None /\ n.at \in {"off", "idle"} /\ ~Comes(n, "join")
      /\ n.at = "off" => n.group = 0 /\ n.pending = None
      /\ n.at # "off" => n.group = t.group /\ n.pending = t.pending
  BY <1>2, <1>4, OffIs DEF Ends, Comes
<1>6. StateOK(t.group, t.pending)' /\ (d \in thread'.joined => Keep(t.group, t.pending)')
  <2>1. CASE saved[d].group = thread'.group
    BY <1>1, <1>3, <1>4, <2>1, StateStays DEF Keep
  <2>2. CASE d \in thread'.joined => d \in thread.joined /\ thread'.group = thread.group
    BY <1>3, <1>4, <2>2, StateStays, KeepStays
  <2> QED
    BY <2>1, <2>2
<1>7. StateOK(n.group, n.pending)' /\ (d \in thread'.joined => Keep(n.group, n.pending)')
  <2>1. CASE n.at = "off"
    BY <1>5, <2>1 DEF StateOK, Keep
  <2>2. CASE n.at # "off"
    BY <1>5, <1>6, <2>2
  <2> QED
    BY <2>1, <2>2
<1>8. n = local'[d] /\ t = saved'[d]
  BY <1>1, <1>2
<1> QED
  BY <1>5, <1>6, <1>7, <1>8 DEF DeviceOK

\* A device whose call goes on with what it has.
LEMMA GoesOnKept ==
    ASSUME Distinct, TypeOK, TypeOK', Grows, NEW d \in Devices, DeviceOK(d),
           NEW at \in Points \ {"off", "saving"}, NEW w \in Welcome \cup {None},
           GoesOn(d, at, w), saved'[d] = saved[d], local[d].at \notin {"off", "saving"},
           w # None => w.to = d /\ WelcomeOK(w),
           at = "resolve" => local[d].pending # None /\ Dead(local[d].pending),
           at = "join" => d \notin thread'.joined,
           d \in thread'.joined =>
               \/ d \in thread.joined /\ thread'.group = thread.group
               \/ saved[d].group = thread'.group
    PROVE  DeviceOK(d)'
<1>1. PICK t \in Stored : t = saved[d]
  BY MemoryFields
<1>2. PICK n \in Memory : n = local'[d]
  BY MemoryFields DEF TypeOK
<1>3. /\ t.group \in Nat /\ t.pending \in Body \cup {None}
  BY DEF Memory, Stored
<1>4. /\ StateOK(t.group, t.pending)
      /\ d \in thread.joined => Keep(t.group, t.pending)
      /\ local[d].group = t.group /\ local[d].pending = t.pending
  BY <1>1 DEF DeviceOK
<1>5. /\ n.welcome = w /\ n.at = at /\ n.group = t.group /\ n.pending = t.pending
  BY <1>2, <1>4 DEF GoesOn
<1>6. StateOK(t.group, t.pending)'
  BY <1>3, <1>4, StateStays
<1>7. ASSUME d \in thread'.joined PROVE Keep(t.group, t.pending)'
  <2>1. CASE saved[d].group = thread'.group
    BY <1>1, <2>1 DEF Keep
  <2>2. CASE d \in thread.joined /\ thread'.group = thread.group
    BY <1>4, <2>2, KeepStays
  <2> QED
    BY <1>7, <2>1, <2>2
<1>8. w # None => w.to = d /\ WelcomeOK(w)'
  BY WelcomeStays
<1>9. n.at = "resolve" => Dead(n.pending)'
  <2> HAVE n.at = "resolve"
  <2>1. t.pending # None /\ Dead(t.pending)
    BY <1>4, <1>5
  <2>2. t.pending \in Body /\ BodyOK(t.pending)
    BY <1>3, <1>4, <2>1 DEF StateOK
  <2> QED
    BY <1>5, <2>1, <2>2 DEF Grows
<1>10. ~(Comes(n, "join") /\ d \in thread'.joined)
  BY <1>5 DEF Comes
<1>11. n = local'[d] /\ t = saved'[d]
  BY <1>1, <1>2
<1> QED
  BY <1>5, <1>6, <1>7, <1>8, <1>9, <1>10, <1>11 DEF DeviceOK

\* A device that is about to store.
LEMMA SavesKept ==
    ASSUME Distinct, TypeOK, TypeOK', Grows, NEW d \in Devices, DeviceOK(d),
           NEW next, NEW g, NEW p, NEW w \in Welcome \cup {None},
           Saves(d, next, g, p, w), saved'[d] = saved[d],
           w # None => w.to = d /\ WelcomeOK(w),
           StateOK(g, p)',
           next = "join" => d \notin thread'.joined,
           d \in thread'.joined => Keep(g, p)',
           d \in thread'.joined =>
               \/ d \in thread.joined /\ thread'.group = thread.group
               \/ saved[d].group = thread'.group
    PROVE  DeviceOK(d)'
<1>1. PICK t \in Stored : t = saved[d]
  BY MemoryFields
<1>2. PICK n \in Memory : n = local'[d]
  BY MemoryFields DEF TypeOK
<1>3. /\ t.group \in Nat /\ t.pending \in Body \cup {None}
  BY DEF Memory, Stored
<1>4. /\ StateOK(t.group, t.pending)
      /\ d \in thread.joined => Keep(t.group, t.pending)
  BY <1>1 DEF DeviceOK
<1>5. /\ n.welcome = w /\ n.at = "saving" /\ n.next = next /\ n.group = g /\ n.pending = p
  BY <1>2 DEF Saves
<1>6. StateOK(t.group, t.pending)'
  BY <1>3, <1>4, StateStays
<1>7. ASSUME d \in thread'.joined PROVE Keep(t.group, t.pending)'
  <2>1. CASE saved[d].group = thread'.group
    BY <1>1, <2>1 DEF Keep
  <2>2. CASE d \in thread.joined /\ thread'.group = thread.group
    BY <1>4, <2>2, KeepStays
  <2> QED
    BY <1>7, <2>1, <2>2
<1>8. w # None => w.to = d /\ WelcomeOK(w)'
  BY WelcomeStays
<1>10. ~(Comes(n, "join") /\ d \in thread'.joined)
  BY <1>5 DEF Comes
<1>11. n = local'[d] /\ t = saved'[d]
  BY <1>1, <1>2
<1> QED
  BY <1>5, <1>6, <1>7, <1>8, <1>10, <1>11 DEF DeviceOK

-----------------------------------------------------------------------------
(* From one device to the system.                                          *)

\* The client d has prepared the candidate b, also in what it has stored.
Holds(d, b) == saved[d].pending = b /\ (local[d].at # "off" => local[d].pending = b)

\* It gives none up that the server may still take.
HoldsOn(d) == \A b \in Body : Holds(d, b) /\ ~Dead(b)' => Holds(d, b)'

LEMMA TypeStays ==
    ASSUME TypeOK, NEW d \in Devices, Moves(d), saved' = saved, thread' \in Thread,
           requests' \subseteq Request, made' \in Nat
    PROVE  TypeOK'
BY DEF TypeOK, Moves

LEMMA Assemble ==
    ASSUME TypeOK, ActivationInv, Grows, NEW d \in Devices,
           \A e \in Devices : e # d => local'[e] = local[e] /\ saved'[e] = saved[e],
           \A e \in Devices : DeviceOK(e)', HoldsOn(d),
           \A r \in requests' :
               \/ r \in requests
               \/ r \in Request /\ r.from = d /\ BodyOK(r.body) /\ Holds(d, r.body)
    PROVE  ActivationInv'
<1>1. ASSUME NEW r \in requests' PROVE LateOK(r)'
  <2>1. r \in Request /\ BodyOK(r.body) /\ (~Dead(r.body) => Holds(r.from, r.body))
    <3>1. CASE r \in requests
      BY <3>1 DEF ActivationInv, LateOK, Holds, TypeOK
    <3>2. CASE r \notin requests
      BY <3>2
    <3> QED
      BY <3>1, <3>2
  <2>2. PICK b \in Body, f \in Devices : b = r.body /\ f = r.from
    BY <2>1 DEF Request
  <2>3. BodyOK(b) /\ (~Dead(b) => Holds(f, b))
    BY <2>1, <2>2
  <2>4. BodyOK(b)' /\ (Dead(b) => Dead(b)')
    BY <2>3 DEF Grows
  <2>5. ~Dead(b)' => Holds(f, b)'
    <3>1. CASE f = d
      BY <2>3, <2>4, <3>1 DEF HoldsOn
    <3>2. CASE f # d
      BY <2>3, <2>4, <3>2 DEF Holds
    <3> QED
      BY <3>1, <3>2
  <2>6. /\ saved'[f].pending = b <=> (saved[f].pending = b)'
        /\ LateOK(r)' <=>
             /\ BodyOK(r.body)'
             /\ ~Dead(r.body)' =>
                 /\ saved'[r.from].pending = r.body
                 /\ local'[r.from].at # "off" => local'[r.from].pending = r.body
    BY DEF LateOK
  <2>7. BodyOK(r.body)' /\ (Dead(r.body)' <=> Dead(b)')
    BY <2>2, <2>4
  <2> QED
    BY <2>2, <2>5, <2>6, <2>7 DEF Holds
<1> QED
  BY <1>1 DEF ActivationInv, Grows

\* How a step of d that leaves what is stored keeps what it has prepared.
LEMMA EndsHolds ==
    ASSUME NEW d \in Devices, Ends(d), saved' = saved, local[d].at # "off"
    PROVE  HoldsOn(d)
BY OffIs DEF Ends, HoldsOn, Holds

LEMMA GoesOnHolds ==
    ASSUME NEW d \in Devices, NEW at, NEW w, GoesOn(d, at, w), saved' = saved, local[d].at # "off"
    PROVE  HoldsOn(d)
BY DEF GoesOn, HoldsOn, Holds

LEMMA SavesHolds ==
    ASSUME Distinct, TypeOK, Grows, NEW d \in Devices, NEW next, NEW g, NEW p, NEW w, Saves(d, next, g, p, w),
           saved' = saved, local[d].at # "off", NEW q, q = local[d].pending,
           p = q \/ q = None \/ (BodyOK(q) /\ Dead(q)) \/ Dead(q)'
    PROVE  HoldsOn(d)
<1> SUFFICES ASSUME NEW b \in Body, Holds(d, b), ~Dead(b)'
             PROVE  Holds(d, b)'
  BY DEF HoldsOn
<1>1. q = b /\ b # None
  BY DEF Holds, Distinct
<1>2. q \in Body /\ ~Dead(q)'
  BY <1>1
<1>3. p = b
  BY <1>1, <1>2 DEF Grows
<1> QED
  BY <1>3 DEF Holds, Saves

-----------------------------------------------------------------------------
(* The steps at which the server's conversation stays as it is.            *)

\* A step of d alone.
Quiet(d) ==
    /\ Moves(d)
    /\ saved' = saved /\ thread' = thread /\ requests' = requests
    /\ made' \in Nat /\ made <= made'

LEMMA QuietStep ==
    ASSUME Distinct, TypeOK, ActivationInv, NEW d \in Devices, Quiet(d)
    PROVE  /\ TypeOK' /\ Grows /\ thread'.group = thread.group /\ thread'.joined = thread.joined
           /\ DeviceOK(d)' /\ HoldsOn(d) => ActivationInv'
<1>1. Grows /\ JoinsOnly({})
  BY SameGrows DEF Quiet, ActivationInv
<1>2. TypeOK'
  <2>1. thread' \in Thread /\ requests' \subseteq Request /\ made' \in Nat
    BY DEF Quiet, TypeOK
  <2> QED
    BY <2>1, TypeStays DEF Quiet
<1>3. ASSUME NEW e \in Devices, e # d PROVE DeviceOK(e)'
  <2>1. local'[e] = local[e] /\ saved'[e] = saved[e] /\ DeviceOK(e)
    BY <1>3 DEF Quiet, Moves, ActivationInv
  <2> QED
    BY <1>1, <1>2, <2>1, RestKept DEF Quiet
<1>4. \A e \in Devices : e # d => local'[e] = local[e] /\ saved'[e] = saved[e]
  BY DEF Quiet, Moves
<1>5. DeviceOK(d)' /\ HoldsOn(d) => ActivationInv'
  <2> HAVE DeviceOK(d)' /\ HoldsOn(d)
  <2>1. \A e \in Devices : DeviceOK(e)'
    BY <1>3
  <2> QED
    BY <1>1, <1>4, <2>1, Assemble DEF Quiet
<1> QED
  BY <1>1, <1>2, <1>5 DEF Quiet

LEMMA EndsStep ==
    ASSUME Distinct, TypeOK, ActivationInv, NEW d \in Devices, Quiet(d), Ends(d),
           local[d].at \notin {"off", "saving"}
    PROVE  TypeOK' /\ ActivationInv'
<1>1. TypeOK' /\ Grows /\ thread'.group = thread.group /\ thread'.joined = thread.joined
  BY QuietStep
<1>2. DeviceOK(d)'
  BY <1>1, EndsKept DEF Quiet, ActivationInv
<1>3. HoldsOn(d)
  BY EndsHolds DEF Quiet
<1> QED
  BY <1>1, <1>2, <1>3, QuietStep

LEMMA GoesOnStep ==
    ASSUME Distinct, TypeOK, ActivationInv, NEW d \in Devices, Quiet(d),
           NEW at \in Points \ {"off", "saving"}, NEW w \in Welcome \cup {None},
           GoesOn(d, at, w), local[d].at \notin {"off", "saving"},
           w # None => w.to = d /\ WelcomeOK(w),
           at = "resolve" => local[d].pending # None /\ Dead(local[d].pending),
           at = "join" => d \notin thread.joined
    PROVE  TypeOK' /\ ActivationInv'
<1>1. TypeOK' /\ Grows /\ thread'.group = thread.group /\ thread'.joined = thread.joined
  BY QuietStep
<1>2. DeviceOK(d)'
  BY <1>1, GoesOnKept DEF Quiet, ActivationInv
<1>3. HoldsOn(d)
  BY GoesOnHolds DEF Quiet
<1> QED
  BY <1>1, <1>2, <1>3, QuietStep

LEMMA SavesStep ==
    ASSUME Distinct, TypeOK, ActivationInv, NEW d \in Devices, Quiet(d),
           NEW next, NEW g, NEW p, NEW w \in Welcome \cup {None},
           Saves(d, next, g, p, w), local[d].at \notin {"off", "saving"},
           w # None => w.to = d /\ WelcomeOK(w),
           StateOK(g, p)', d \in thread.joined => Keep(g, p),
           next = "join" => d \notin thread.joined,
           NEW q, q = local[d].pending, p = q \/ q = None \/ (BodyOK(q) /\ Dead(q))
    PROVE  TypeOK' /\ ActivationInv'
<1>1. TypeOK' /\ Grows /\ thread'.group = thread.group /\ thread'.joined = thread.joined
  BY QuietStep
<1>2. d \in thread'.joined => Keep(g, p)'
  BY <1>1, KeepStays
<1>3. DeviceOK(d)'
  BY <1>1, <1>2, SavesKept DEF Quiet, ActivationInv
<1>4. HoldsOn(d)
  BY <1>1, SavesHolds DEF Quiet
<1> QED
  BY <1>1, <1>3, <1>4, QuietStep

-----------------------------------------------------------------------------
(* activateThread and recoverExpiredActivation                             *)

\* What is known of a client that makes a call, of its Welcome and its candidate.
LEMMA Known ==
    ASSUME TypeOK, ActivationInv, NEW d \in Devices
    PROVE  /\ ServerOK /\ DeviceOK(d)
           /\ local[d].welcome # None => local[d].welcome.to = d /\ WelcomeOK(local[d].welcome)
           /\ StateOK(local[d].group, local[d].pending)
           /\ d \in thread.joined => Keep(local[d].group, local[d].pending)
           /\ local[d].pending # None =>
                /\ local[d].pending \in Body /\ BodyOK(local[d].pending)
                /\ local[d].group = local[d].pending.group
           /\ local[d].pending = None /\ local[d].group # 0 => local[d].group \in thread.taken
           /\ local[d].at = "resolve" => Dead(local[d].pending)
<1>1. ServerOK /\ DeviceOK(d)
  BY DEF ActivationInv
<1> QED
  BY <1>1, MemoryFields DEF DeviceOK, StateOK

LEMMA CallEnds ==
    ASSUME Distinct, TypeOK, ActivationInv, NEW d \in Devices,
           Goes(d, Failed(local[d])) \/ Goes(d, Ended(local[d])),
           UNCHANGED <<saved, thread, requests, made>>,
           local[d].at \notin {"off", "saving"}
    PROVE  TypeOK' /\ ActivationInv'
<1>1. Moves(d) /\ Ends(d)
  BY EndsMoves
<1>2. Quiet(d)
  BY <1>1, ThreadFields DEF Quiet
<1> QED
  BY <1>1, <1>2, EndsStep

LEMMA CallGoesOn ==
    ASSUME Distinct, TypeOK, ActivationInv, NEW d \in Devices, NEW at \in Points \ {"off", "saving", "join", "ack"},
           Goes(d, [local[d] EXCEPT !.at = at]),
           UNCHANGED <<saved, thread, requests, made>>,
           local[d].at \notin {"off", "saving"},
           at \in {"finish", "resolve"} => local[d].pending # None,
           at = "resolve" => Dead(local[d].pending)
    PROVE  TypeOK' /\ ActivationInv'
<1>1. Moves(d) /\ GoesOn(d, at, local[d].welcome)
  BY GoesOnMoves
<1>2. Quiet(d)
  BY <1>1, ThreadFields DEF Quiet
<1>3. PICK w \in Welcome \cup {None} : w = local[d].welcome
  BY MemoryFields
<1>4. GoesOn(d, at, w) /\ (w # None => w.to = d /\ WelcomeOK(w))
  BY <1>1, <1>3, Known
<1> QED
  BY <1>2, <1>4, GoesOnStep

\* A save of a memory that is worked out from the one before.
LEMMA CallSaves ==
    ASSUME Distinct, TypeOK, ActivationInv, NEW d \in Devices, NEW next \in Nexts \ {"join"},
           NEW n \in Memory, n.at = "saving", n.next = next, Goes(d, n),
           next = "finish" => n.pending # None,
           next = "ack" => n.welcome # None /\ n.group = n.welcome.group,
           n.welcome = local[d].welcome,
           UNCHANGED <<saved, thread, requests>>, made' \in Nat, made <= made',
           local[d].at \notin {"off", "saving"},
           StateOK(n.group, n.pending)',
           d \in thread.joined => Keep(n.group, n.pending),
           \/ n.pending = local[d].pending
           \/ local[d].pending = None
           \/ BodyOK(local[d].pending) /\ Dead(local[d].pending)
    PROVE  TypeOK' /\ ActivationInv'
<1>1. Moves(d) /\ Saves(d, next, n.group, n.pending, n.welcome)
  BY SavesMoves
<1>2. Quiet(d)
  BY <1>1 DEF Quiet
<1>3. n.welcome \in Welcome \cup {None}
  BY MemoryFields
<1>4. n.welcome # None => n.welcome.to = d /\ WelcomeOK(n.welcome)
  BY Known
<1>5. PICK g, p, w, q : g = n.group /\ p = n.pending /\ w = n.welcome /\ q = local[d].pending
  OBVIOUS
<1>6. p = q \/ q = None \/ (BodyOK(q) /\ Dead(q))
  BY <1>5
<1>7. StateOK(g, p)' /\ (d \in thread.joined => Keep(g, p))
  BY <1>5
<1> QED
  BY <1>1, <1>2, <1>3, <1>4, <1>5, <1>6, <1>7, SavesStep

LEMMA CandidateStep ==
    ASSUME Distinct, TypeOK, ActivationInv, NEW d \in Devices,
           Candidate(d, thread.group), UNCHANGED <<saved, thread, requests>>,
           local[d].at \notin {"off", "saving"},
           thread.group # 0 => thread.expired,
           local[d].pending = None \/ (local[d].pending.previous = 0 /\ thread.group # 0)
    PROVE  TypeOK' /\ ActivationInv'
<1> USE ThreadFields
<1>1. PICK g \in Nat, p \in Body : g = made + 1 /\ p = [group |-> g, previous |-> thread.group]
  <2>1. made + 1 \in Nat
    OBVIOUS
  <2>2. [group |-> made + 1, previous |-> thread.group] \in Body
    BY <2>1 DEF Body
  <2> QED
    BY <2>1, <2>2
<1>2. p.group = g /\ p.previous = thread.group /\ p # None
  BY <1>1 DEF Distinct
<1>3. PICK m \in Memory : m = [local[d] EXCEPT !.group = g, !.pending = p]
  BY MemoryFields, GroupIs
<1>4. m.group = g /\ m.pending = p /\ m.welcome = local[d].welcome
  <2>1. PICK s \in Memory : s = local[d]
    BY MemoryFields
  <2>2. m = [s EXCEPT !.group = g, !.pending = p]
    BY <1>3, <2>1
  <2> QED
    BY <2>1, <2>2 DEF Memory
<1>5. PICK n \in Memory : n = Saving(m, "finish")
  BY SavingIs DEF Nexts
<1>6. /\ n.at = "saving" /\ n.next = "finish" /\ n.group = g /\ n.pending = p
      /\ n.welcome = local[d].welcome
  BY <1>4, <1>5, SavingIs DEF Nexts
<1>7. made' = g /\ made <= made' /\ made' \in Nat /\ Goes(d, n)
  BY <1>1, <1>3, <1>5 DEF Candidate
<1>8. StateOK(n.group, n.pending)'
  <2>1. thread.group <= made
    BY Known DEF ServerOK
  <2>2. BodyOK(p)'
    BY <1>1, <1>2, <1>7, <2>1 DEF BodyOK
  <2> QED
    BY <1>2, <1>6, <2>2 DEF StateOK
<1>9. d \in thread.joined => Keep(n.group, n.pending)
  BY <1>1, <1>6 DEF Keep
<1>10. local[d].pending = None \/ (BodyOK(local[d].pending) /\ Dead(local[d].pending))
  BY Known, BodyFields DEF Dead
<1> QED
  BY <1>2, <1>6, <1>7, <1>8, <1>9, <1>10, CallSaves DEF Nexts

LEMMA ActivateStep ==
    ASSUME Distinct, TypeOK, ActivationInv, NEW d \in Devices, ActivateThread(d)
    PROVE  TypeOK' /\ ActivationInv'
<1> USE DEF ActivateThread
<1>0. UNCHANGED <<saved, thread, requests>> /\ local[d].at \notin {"off", "saving"}
  OBVIOUS
<1>1. CASE local[d].pending # None /\ Goes(d, [local[d] EXCEPT !.at = "finish"]) /\ UNCHANGED made
  BY <1>0, <1>1, CallGoesOn DEF Points
<1>2. CASE local[d].pending = None /\ thread.group = 0 /\ Candidate(d, 0)
  <2>1. Candidate(d, thread.group)
    BY <1>2
  <2> QED
    BY <1>0, <1>2, <2>1, CandidateStep
<1>3. CASE (Goes(d, Failed(local[d])) \/ Goes(d, Ended(local[d]))) /\ UNCHANGED made
  BY <1>0, <1>3, CallEnds
<1>4. CASE Goes(d, [local[d] EXCEPT !.at = "welcomes", !.after = "recover"]) /\ UNCHANGED made
  <2>1. PICK n \in Memory : n = [local[d] EXCEPT !.at = "welcomes", !.after = "recover"]
    BY MemoryFields DEF Memory
  <2>2. /\ n.at = "welcomes" /\ n.welcome = local[d].welcome
        /\ n.group = local[d].group /\ n.pending = local[d].pending
    BY <2>1, MemoryFields DEF Memory
  <2>3. CallOK(n)
    BY <2>2 DEF CallOK, Comes
  <2>4. Moves(d) /\ local'[d] = n
    BY <1>4, <2>1, <2>3, GoesMoves
  <2>5. PICK w \in Welcome \cup {None} : w = local[d].welcome
    BY MemoryFields
  <2>6. GoesOn(d, "welcomes", w) /\ (w # None => w.to = d /\ WelcomeOK(w))
    BY <2>2, <2>4, <2>5, Known DEF GoesOn
  <2>7. Quiet(d)
    BY <1>0, <1>4, <2>4, ThreadFields DEF Quiet
  <2> QED
    BY <1>0, <2>6, <2>7, GoesOnStep DEF Points
<1> QED
  BY <1>1, <1>2, <1>3, <1>4

LEMMA RecoverStep ==
    ASSUME Distinct, TypeOK, ActivationInv, NEW d \in Devices, RecoverExpiredActivation(d)
    PROVE  TypeOK' /\ ActivationInv'
<1> USE DEF RecoverExpiredActivation
<1>0. UNCHANGED <<saved, thread, requests>> /\ local[d].at \notin {"off", "saving"}
  OBVIOUS
<1>1. CASE local[d].pending # None /\ local[d].pending.previous # 0
  <2>1. Goes(d, [local[d] EXCEPT !.at = "finish"]) /\ UNCHANGED made
    BY <1>1
  <2> QED
    BY <1>0, <1>1, <2>1, CallGoesOn DEF Points
<1>2. CASE /\ ~(local[d].pending # None /\ local[d].pending.previous # 0)
           /\ RecoveryAllowed /\ local[d].group \in {0, thread.group}
  <2>1. Candidate(d, thread.group)
    BY <1>2
  <2>2. thread.group # 0 /\ thread.expired
    BY <1>2 DEF RecoveryAllowed
  <2> QED
    BY <1>0, <1>2, <2>1, <2>2, CandidateStep
<1>3. CASE Goes(d, Failed(local[d])) /\ UNCHANGED made
  BY <1>0, <1>3, CallEnds
<1> QED
  BY <1>1, <1>2, <1>3

-----------------------------------------------------------------------------
(* finishActivation and resolveActivationConflict                          *)

\* A candidate that the server does not take it never will, and one that it has
\* taken is not taken again.
LEMMA Refused ==
    ASSUME TypeOK, NEW b \in Body, BodyOK(b), ~Accepts(b)
    PROVE  Dead(b)
BY ThreadFields, BodyFields DEF BodyOK, Accepts, Dead, RecoveryAllowed

LEMMA Current ==
    ASSUME TypeOK, NEW b \in Body, BodyOK(b), thread.group = b.group
    PROVE  Dead(b)
BY ThreadFields, BodyFields DEF BodyOK, Dead

LEMMA ActivatedStep ==
    ASSUME Distinct, TypeOK, ActivationInv, NEW d \in Devices, local[d].pending # None,
           thread.group = local[d].pending.group, Goes(d, Activated(local[d])),
           UNCHANGED <<saved, thread, requests, made>>, local[d].at \notin {"off", "saving"}
    PROVE  TypeOK' /\ ActivationInv'
<1> USE ThreadFields
<1>1. PICK next \in {"recover", "idle"} :
         Goes(d, Saving([local[d] EXCEPT !.pending = None], next))
  BY DEF Activated
<1>2. PICK m \in Memory : m = [local[d] EXCEPT !.pending = None]
  BY MemoryFields, PendingNone
<1>3. m.group = local[d].group /\ m.pending = None /\ m.welcome = local[d].welcome
  BY <1>2, MemoryFields, PendingNone
<1>4. PICK n \in Memory : n = Saving(m, next)
  BY SavingIs DEF Nexts
<1>5. /\ n.at = "saving" /\ n.next = next /\ n.group = local[d].group /\ n.pending = None
      /\ n.welcome = local[d].welcome
  BY <1>3, <1>4, SavingIs DEF Nexts
<1>6. Goes(d, n)
  BY <1>1, <1>2, <1>4
<1>7. local[d].group = thread.group /\ thread.group # 0 /\ BodyOK(local[d].pending)
  BY Known, BodyFields DEF BodyOK
<1>8. Dead(local[d].pending)
  BY <1>7, Known, Current
<1>9. n.group = thread.group /\ n.group \in thread.taken
  BY <1>5, <1>7, Known DEF ServerOK
<1>10. StateOK(n.group, n.pending)'
  BY <1>5, <1>9 DEF StateOK
<1>11. Keep(n.group, n.pending)
  BY <1>9 DEF Keep
<1>12. next \in Nexts \ {"join"} /\ next # "finish" /\ next # "ack"
  BY DEF Nexts
<1> QED
  BY <1>5, <1>6, <1>7, <1>8, <1>10, <1>11, <1>12, CallSaves

LEMMA DiscardedStep ==
    ASSUME Distinct, TypeOK, ActivationInv, NEW d \in Devices, local[d].pending # None,
           NEW n \in Memory, n.at = "saving", n.next \in {"activate", "welcomes"},
           n.group = 0, n.pending = None, n.welcome = local[d].welcome, Goes(d, n),
           Dead(local[d].pending),
           UNCHANGED <<saved, thread, requests, made>>, local[d].at \notin {"off", "saving"}
    PROVE  TypeOK' /\ ActivationInv'
<1>1. StateOK(n.group, n.pending)' /\ Keep(n.group, n.pending)
  BY DEF StateOK, Keep
<1>2. BodyOK(local[d].pending)
  BY Known
<1>3. n.next \in Nexts \ {"join"} /\ n.next # "finish" /\ n.next # "ack"
  BY DEF Nexts
<1> QED
  BY <1>1, <1>2, <1>3, ThreadFields, CallSaves

LEMMA ResolveStep ==
    ASSUME Distinct, TypeOK, ActivationInv, NEW d \in Devices, ResolveActivationConflict(d)
    PROVE  TypeOK' /\ ActivationInv'
<1>0. /\ local[d].at = "resolve" /\ UNCHANGED <<saved, thread, requests, made>>
      /\ local[d].pending # None /\ Dead(local[d].pending)
  BY Known, MemoryFields DEF ResolveActivationConflict, CallOK
<1>1. PICK m \in Memory : m = Discarded(local[d])
  BY MemoryFields, DiscardedIs
<1>2. m.group = 0 /\ m.pending = None /\ m.welcome = local[d].welcome
  BY <1>1, MemoryFields, DiscardedIs
<1>3. CASE thread.group = local[d].pending.group
  BY <1>0, <1>3, ActivatedStep DEF ResolveActivationConflict
<1>4. CASE thread.group # local[d].pending.group /\ thread.group = 0
  <2>1. PICK n \in Memory : n = Saving(m, "activate")
    BY SavingIs DEF Nexts
  <2>2. /\ n.at = "saving" /\ n.next = "activate" /\ n.group = 0 /\ n.pending = None
        /\ n.welcome = local[d].welcome
    BY <1>2, <2>1, SavingIs DEF Nexts
  <2>3. Goes(d, n)
    BY <1>1, <1>4, <2>1 DEF ResolveActivationConflict
  <2> QED
    BY <1>0, <2>2, <2>3, DiscardedStep
<1>5. CASE thread.group # local[d].pending.group /\ thread.group # 0
  <2>1. PICK s \in Memory : s = Saving(m, "welcomes")
    BY SavingIs DEF Nexts
  <2>2. /\ s.at = "saving" /\ s.next = "welcomes" /\ s.group = 0 /\ s.pending = None
        /\ s.welcome = local[d].welcome
    BY <1>2, <2>1, SavingIs DEF Nexts
  <2>3. PICK n \in Memory : n = [s EXCEPT !.after = "check"]
    BY DEF Memory
  <2>4. /\ n.at = s.at /\ n.next = s.next /\ n.group = s.group /\ n.pending = s.pending
        /\ n.welcome = s.welcome
    BY <2>3 DEF Memory
  <2>5. Goes(d, n)
    BY <1>1, <1>5, <2>1, <2>3 DEF ResolveActivationConflict
  <2> QED
    BY <1>0, <2>2, <2>4, <2>5, DiscardedStep
<1> QED
  BY <1>3, <1>4, <1>5

-----------------------------------------------------------------------------
(* joinPendingWelcomes                                                     *)

LEMMA OpenStep ==
    ASSUME Distinct, TypeOK, ActivationInv, NEW d \in Devices, OpenThread(d)
    PROVE  TypeOK' /\ ActivationInv'
<1>0. /\ local[d].at = "idle" /\ UNCHANGED <<saved, thread, requests, made>>
      /\ Goes(d, [local[d] EXCEPT !.at = "welcomes", !.after = "end"])
  BY DEF OpenThread
<1>1. PICK n \in Memory : n = [local[d] EXCEPT !.at = "welcomes", !.after = "end"]
  BY MemoryFields DEF Memory
<1>2. /\ n.at = "welcomes" /\ n.welcome = local[d].welcome
      /\ n.group = local[d].group /\ n.pending = local[d].pending
  BY <1>1, MemoryFields DEF Memory
<1>3. CallOK(n)
  BY <1>2 DEF CallOK, Comes
<1>4. Moves(d) /\ local'[d] = n
  BY <1>0, <1>1, <1>3, GoesMoves
<1>5. PICK w \in Welcome \cup {None} : w = local[d].welcome
  BY MemoryFields
<1>6. GoesOn(d, "welcomes", w) /\ (w # None => w.to = d /\ WelcomeOK(w))
  BY <1>2, <1>4, <1>5, Known DEF GoesOn
<1>7. Quiet(d)
  BY <1>0, <1>4, ThreadFields DEF Quiet
<1> QED
  BY <1>0, <1>6, <1>7, GoesOnStep DEF Points

LEMMA NoWelcomeStep ==
    ASSUME Distinct, TypeOK, ActivationInv, NEW d \in Devices, NoWelcome(d)
    PROVE  TypeOK' /\ ActivationInv'
<1>0. local[d].at = "welcomes" /\ UNCHANGED <<saved, thread, requests, made>>
  BY DEF NoWelcome
<1>1. \/ local[d].pending # None /\ Goes(d, [local[d] EXCEPT !.at = "finish"])
      \/ Goes(d, [local[d] EXCEPT !.at = "recover"])
      \/ Goes(d, Failed(local[d]))
      \/ Goes(d, Ended(local[d]))
  BY DEF NoWelcome
<1>2. CASE local[d].pending # None /\ Goes(d, [local[d] EXCEPT !.at = "finish"])
  BY <1>0, <1>2, CallGoesOn DEF Points
<1>3. CASE Goes(d, [local[d] EXCEPT !.at = "recover"])
  BY <1>0, <1>3, CallGoesOn DEF Points
<1>4. CASE Goes(d, Failed(local[d])) \/ Goes(d, Ended(local[d]))
  BY <1>0, <1>4, CallEnds
<1> QED
  BY <1>1, <1>2, <1>3, <1>4

\* A Welcome that is listed is right, and its device has not joined.
LEMMA Listed ==
    ASSUME TypeOK, ServerOK, NEW w \in thread.waiting
    PROVE  /\ w \in Welcome /\ WelcomeOK(w) /\ w.to \notin thread.joined
           /\ w.group = thread.group /\ w.replaces < thread.group
<1>1. w \in Welcome /\ w.group = thread.group /\ w.replaces < w.group /\ w.to \notin thread.joined
  BY ThreadFields DEF ServerOK
<1>2. thread.group # 0
  BY <1>1, WelcomeFields
<1> QED
  BY <1>1, <1>2, ThreadFields DEF ServerOK, WelcomeOK

LEMMA ListStep ==
    ASSUME Distinct, TypeOK, ActivationInv, NEW d \in Devices, ListWelcome(d)
    PROVE  TypeOK' /\ ActivationInv'
<1>0. local[d].at = "welcomes" /\ UNCHANGED <<saved, thread, requests, made>>
  BY DEF ListWelcome
<1>1. PICK w \in thread.waiting : w.to = d /\
         LET s == [local[d] EXCEPT !.welcome = w]
         IN  Goes(d, IF s.group \notin {0, w.group} /\ s.pending # None
                        /\ s.pending.group = s.group /\ s.pending.previous = w.replaces
                     THEN Saving(Discarded(s), "join")
                     ELSE [s EXCEPT !.at = "join"])
  BY DEF ListWelcome
<1>2. /\ w \in Welcome /\ WelcomeOK(w) /\ d \notin thread.joined /\ w # None
      /\ w.group = thread.group /\ w.replaces < thread.group /\ w.to = d
  <2>1. w \in Welcome /\ WelcomeOK(w) /\ d \notin thread.joined
        /\ w.group = thread.group /\ w.replaces < thread.group
    BY <1>1, Known, Listed
  <2>2. w # None
    BY <2>1 DEF Distinct
  <2> QED
    BY <1>1, <2>1, <2>2
<1>3. PICK m \in Memory, s \in Memory : m = local[d] /\ s = [m EXCEPT !.welcome = w]
  <2>1. PICK m \in Memory : m = local[d]
    BY MemoryFields
  <2>2. [m EXCEPT !.welcome = w] \in Memory
    BY <1>2 DEF Memory
  <2> QED
    BY <2>1, <2>2
<1>4. /\ s.group = local[d].group /\ s.pending = local[d].pending /\ s.welcome = w
      /\ s.at = "welcomes"
  BY <1>0, <1>2, <1>3 DEF Memory
<1>5. Quiet(d) <=> Moves(d)
  BY <1>0, ThreadFields DEF Quiet
<1>6. CASE /\ s.group \notin {0, w.group} /\ s.pending # None
           /\ s.pending.group = s.group /\ s.pending.previous = w.replaces
  <2>1. PICK k \in Memory : k = Discarded(s)
    BY DiscardedIs
  <2>2. k.group = 0 /\ k.pending = None /\ k.welcome = w
    BY <1>4, <2>1, DiscardedIs
  <2>3. PICK n \in Memory : n = Saving(k, "join")
    BY SavingIs DEF Nexts
  <2>4. /\ n.at = "saving" /\ n.next = "join" /\ n.group = 0 /\ n.pending = None
        /\ n.welcome = w
    BY <2>2, <2>3, SavingIs DEF Nexts
  <2>5. Goes(d, n)
    BY <1>1, <1>3, <1>6, <2>1, <2>3
  <2>6. Moves(d) /\ Saves(d, "join", 0, None, w)
    BY <1>2, <2>4, <2>5, SavesMoves DEF Nexts
  <2>7. StateOK(0, None)' /\ Keep(0, None)
    BY DEF StateOK, Keep
  <2>8. PICK q \in Body : q = local[d].pending /\ BodyOK(q)
    BY <1>4, <1>6, Known
  <2>9. Dead(q)
    BY <1>2, <1>4, <1>6, <2>8, ThreadFields, BodyFields DEF Dead
  <2> QED
    BY <1>0, <1>2, <1>5, <2>6, <2>7, <2>8, <2>9, SavesStep
<1>7. CASE ~(/\ s.group \notin {0, w.group} /\ s.pending # None
             /\ s.pending.group = s.group /\ s.pending.previous = w.replaces)
  <2>1. PICK n \in Memory : n = [s EXCEPT !.at = "join"]
    BY AtIs DEF Points
  <2>2. /\ n.at = "join" /\ n.group = local[d].group /\ n.pending = local[d].pending
        /\ n.welcome = w
    BY <1>4, <2>1, AtIs DEF Points
  <2>3. CallOK(n)
    BY <1>2, <2>2 DEF CallOK, Comes
  <2>4. Goes(d, n)
    BY <1>1, <1>3, <1>7, <2>1
  <2>5. Moves(d) /\ local'[d] = n
    BY <2>3, <2>4, GoesMoves
  <2>6. GoesOn(d, "join", w)
    BY <2>2, <2>5 DEF GoesOn
  <2> QED
    BY <1>0, <1>2, <1>5, <2>5, <2>6, GoesOnStep DEF Points
<1> QED
  BY <1>6, <1>7

LEMMA JoinStep ==
    ASSUME Distinct, TypeOK, ActivationInv, NEW d \in Devices, JoinWelcome(d)
    PROVE  TypeOK' /\ ActivationInv'
<1>0. local[d].at = "join" /\ UNCHANGED <<saved, thread, requests, made>>
  BY DEF JoinWelcome
<1>1. PICK w \in Welcome : w = local[d].welcome
  BY <1>0, MemoryFields DEF CallOK, Comes
<1>2. /\ WelcomeOK(w) /\ w # None /\ w.to = d
      /\ d \in thread.joined => local[d].group > w.group
  BY <1>0, <1>1, Known DEF DeviceOK, Comes, Distinct
<1>3. /\ w.group \in Nat /\ w.replaces \in Nat /\ w.group \in thread.taken
      /\ w.replaces < w.group /\ w.group <= thread.group
  BY <1>2, WelcomeFields DEF WelcomeOK
<1>4. PICK s \in Memory : s = local[d]
  BY MemoryFields
<1>5. s.group \in Nat /\ s.pending \in Body \cup {None} /\ s.welcome = w
  BY <1>1, <1>4 DEF Memory
<1>6. CASE s.group \in {0, w.group}
  <2>1. d \notin thread.joined
    BY <1>2, <1>3, <1>4, <1>6
  <2>2. PICK m \in Memory : m = [s EXCEPT !.group = w.group]
    BY <1>3 DEF Memory
  <2>3. m.group = w.group /\ m.pending = s.pending /\ m.welcome = w
    BY <1>3, <1>5, <2>2 DEF Memory
  <2>4. PICK n \in Memory : n = Saving(m, "ack")
    BY SavingIs DEF Nexts
  <2>5. /\ n.at = "saving" /\ n.next = "ack" /\ n.group = w.group
        /\ n.pending = s.pending /\ n.welcome = w
    BY <2>3, <2>4, SavingIs DEF Nexts
  <2>6. Goes(d, n)
    BY <1>1, <1>4, <1>6, <2>2, <2>4 DEF JoinWelcome
  <2>7. StateOK(w.group, s.pending)
    BY <1>3, <1>4, <1>5, <1>6, Known, BodyFields DEF StateOK, BodyOK
  <2>8. Grows
    BY <1>0, Known, ThreadFields, SameGrows
  <2>9. StateOK(n.group, n.pending)'
    <3>1. StateOK(n.group, n.pending) /\ n.pending \in Body \cup {None}
      BY <1>5, <2>5, <2>7
    <3> QED
      BY <2>8, <3>1, StateStays
  <2> QED
    BY <1>0, <1>1, <1>2, <1>4, <2>1, <2>5, <2>6, <2>9, ThreadFields, CallSaves DEF Nexts
<1>7. CASE s.group \notin {0, w.group} /\ s.group = w.replaces
  <2>1. d \notin thread.joined
    BY <1>2, <1>3, <1>4, <1>7
  <2>2. PICK m \in Memory : m = [s EXCEPT !.group = w.group, !.pending = None]
    BY <1>3, GroupIs
  <2>3. m.group = w.group /\ m.pending = None /\ m.welcome = w
    BY <1>3, <1>5, <2>2 DEF Memory
  <2>4. PICK n \in Memory : n = Saving(m, "ack")
    BY SavingIs DEF Nexts
  <2>5. /\ n.at = "saving" /\ n.next = "ack" /\ n.group = w.group
        /\ n.pending = None /\ n.welcome = w
    BY <2>3, <2>4, SavingIs DEF Nexts
  <2>6. Goes(d, n)
    BY <1>1, <1>4, <1>7, <2>2, <2>4 DEF JoinWelcome
  <2>7. StateOK(n.group, n.pending)'
    BY <1>0, <1>3, <2>5 DEF StateOK
  <2>8. local[d].pending # None => BodyOK(local[d].pending) /\ Dead(local[d].pending)
    <3> HAVE local[d].pending # None
    <3>1. PICK q \in Body : q = local[d].pending /\ BodyOK(q) /\ s.group = q.group
      BY <1>4, Known
    <3>2. Dead(q)
      BY <1>3, <1>7, <3>1, ThreadFields, BodyFields DEF BodyOK, Dead
    <3> QED
      BY <3>1, <3>2
  <2> QED
    BY <1>0, <1>1, <1>2, <2>1, <2>5, <2>6, <2>7, <2>8, ThreadFields, CallSaves DEF Nexts
<1>8. CASE s.group \notin {0, w.group, w.replaces}
  <2>1. \/ Goes(d, [local[d] EXCEPT !.at = "recover"])
        \/ Goes(d, Failed(local[d]))
    BY <1>1, <1>4, <1>8 DEF JoinWelcome
  <2> QED
    BY <1>0, <2>1, CallEnds, CallGoesOn DEF Points
<1> QED
  BY <1>6, <1>7, <1>8

LEMMA RequestFailsStep ==
    ASSUME Distinct, TypeOK, ActivationInv, NEW d \in Devices, RequestFails(d)
    PROVE  TypeOK' /\ ActivationInv'
BY CallEnds DEF RequestFails

-----------------------------------------------------------------------------
(* A save, a crash, and the start that follows it                          *)

LEMMA SaveStep ==
    ASSUME Distinct, TypeOK, ActivationInv, NEW d \in Devices, Save(d)
    PROVE  TypeOK' /\ ActivationInv'
<1>0. /\ local[d].at = "saving" /\ UNCHANGED <<thread, requests, made>>
      /\ saved' = [saved EXCEPT ![d] = [group |-> local[d].group, pending |-> local[d].pending]]
  BY DEF Save
<1>1. PICK s \in Memory : s = local[d] /\ CallOK(s) /\ s.at = "saving"
  BY <1>0, MemoryFields
<1>2. /\ s.group \in Nat /\ s.pending \in Body \cup {None} /\ s.welcome \in Welcome \cup {None}
      /\ s.next \in Nexts
  BY DEF Memory, Nexts
<1>3. PICK n \in Memory : /\ n = IF s.next = "idle" THEN Ended(s) ELSE [s EXCEPT !.at = s.next]
                          /\ n.group = s.group /\ n.pending = s.pending
                          /\ n.at = s.next
                          /\ n.welcome = (IF s.next = "idle" THEN None ELSE s.welcome)
  <2>1. CASE s.next = "idle"
    BY <2>1, EndedIs
  <2>2. CASE s.next # "idle"
    <3>1. s.next \in Points
      BY <1>2 DEF Points, Nexts
    <3>2. PICK at \in Points : at = s.next
      BY <3>1
    <3>3. PICK n \in Memory : n = [s EXCEPT !.at = at]
      BY AtIs
    <3>4. n.group = s.group /\ n.pending = s.pending /\ n.at = at /\ n.welcome = s.welcome
      BY <3>3, AtIs
    <3> QED
      BY <2>2, <3>2, <3>3, <3>4
  <2> QED
    BY <2>1, <2>2
<1>4. CallOK(n)
  BY <1>1, <1>2, <1>3 DEF CallOK, Comes, Nexts
<1>5. Goes(d, n)
  BY <1>1, <1>3 DEF Save
<1>6. Moves(d) /\ local'[d] = n
  BY <1>4, <1>5, GoesMoves
<1>7. PICK t \in Stored : t = [group |-> s.group, pending |-> s.pending]
  BY <1>2 DEF Stored
<1>8. t.group = s.group /\ t.pending = s.pending
  BY <1>7
<1>9. /\ saved' \in [Devices -> Stored] /\ saved'[d] = t
      /\ \A e \in Devices : e # d => saved'[e] = saved[e]
  BY <1>0, <1>1, <1>7 DEF TypeOK
<1>10. TypeOK'
  BY <1>0, <1>6, <1>9 DEF TypeOK, Moves
<1>11. Grows
  BY <1>0, Known, ThreadFields, SameGrows
<1>12. DeviceOK(d)'
  <2>1. /\ StateOK(s.group, s.pending)
        /\ d \in thread.joined => Keep(s.group, s.pending)
        /\ s.welcome # None => s.welcome.to = d /\ WelcomeOK(s.welcome)
        /\ Comes(s, "join") /\ d \in thread.joined => s.group > s.welcome.group
    BY <1>1, Known DEF DeviceOK
  <2>2. StateOK(s.group, s.pending)'
    BY <1>2, <1>11, <2>1, StateStays
  <2>3. d \in thread'.joined => Keep(s.group, s.pending)'
    BY <1>0, <2>1, KeepStays
  <2>4. s.welcome # None => s.welcome.to = d /\ WelcomeOK(s.welcome)'
    BY <1>2, <1>10, <1>11, <2>1, WelcomeStays
  <2>5. n.at # "resolve" /\ n.at # "saving" /\ n.at # "off"
    BY <1>2, <1>3 DEF Nexts
  <2>6. Comes(n, "join") /\ d \in thread'.joined => n.group > n.welcome.group
    BY <1>0, <1>1, <1>3, <2>1, <2>5 DEF Comes
  <2>7. n.welcome # None => n.welcome = s.welcome
    BY <1>3
  <2> QED
    BY <1>3, <1>6, <1>8, <1>9, <2>2, <2>3, <2>4, <2>5, <2>6, <2>7 DEF DeviceOK
<1>13. HoldsOn(d)
  BY <1>1, <1>3, <1>6, <1>8, <1>9 DEF HoldsOn, Holds
<1>14. ASSUME NEW e \in Devices, e # d PROVE DeviceOK(e)'
  <2>1. local'[e] = local[e] /\ saved'[e] = saved[e] /\ DeviceOK(e)
    BY <1>6, <1>9, <1>14, Known DEF Moves
  <2> QED
    BY <1>0, <1>10, <1>11, <2>1, RestKept
<1>15. \A e \in Devices : DeviceOK(e)'
  BY <1>12, <1>14
<1>16. \A e \in Devices : e # d => local'[e] = local[e] /\ saved'[e] = saved[e]
  BY <1>6, <1>9 DEF Moves
<1>17. \A r \in requests' : r \in requests
  BY <1>0
<1> QED
  BY <1>10, <1>11, <1>13, <1>15, <1>16, <1>17, Assemble

LEMMA CrashStep ==
    ASSUME Distinct, TypeOK, ActivationInv, NEW d \in Devices, Crash(d)
    PROVE  TypeOK' /\ ActivationInv'
<1>0. /\ local[d].at # "off" /\ Goes(d, Off) /\ UNCHANGED <<saved, thread, requests, made>>
  BY DEF Crash
<1>1. Moves(d) /\ local'[d] = Off
  BY <1>0, OffIs, GoesMoves
<1>2. Quiet(d)
  BY <1>0, <1>1, ThreadFields DEF Quiet
<1>3. TypeOK' /\ Grows
  BY <1>2, QuietStep
<1>4. DeviceOK(d)'
  <2>1. PICK t \in Stored : t = saved[d]
    BY MemoryFields
  <2>2. t.pending \in Body \cup {None}
    BY DEF Stored
  <2>3. StateOK(t.group, t.pending) /\ (d \in thread.joined => Keep(t.group, t.pending))
    BY <2>1, Known DEF DeviceOK
  <2>4. StateOK(t.group, t.pending)' /\ (d \in thread'.joined => Keep(t.group, t.pending)')
    BY <1>0, <1>3, <2>2, <2>3, StateStays, KeepStays
  <2>5. StateOK(0, None)' /\ Keep(0, None)'
    BY DEF StateOK, Keep
  <2>6. ~Comes(Off, "join") /\ Off.at = "off" /\ Off.welcome = None /\ Off.group = 0 /\ Off.pending = None
    BY OffIs DEF Comes
  <2>7. saved'[d] = t
    BY <1>0, <2>1
  <2> QED
    BY <1>1, <2>4, <2>5, <2>6, <2>7 DEF DeviceOK
<1>5. HoldsOn(d)
  BY <1>0, <1>1, OffIs DEF HoldsOn, Holds
<1> QED
  BY <1>2, <1>4, <1>5, QuietStep

LEMMA RestoreStep ==
    ASSUME Distinct, TypeOK, ActivationInv, NEW d \in Devices, Restore(d)
    PROVE  TypeOK' /\ ActivationInv'
<1>0. /\ local[d].at = "off" /\ UNCHANGED <<saved, thread, requests, made>>
  BY DEF Restore
<1>1. PICK t \in Stored : t = saved[d]
  BY MemoryFields
<1>2. t.group \in Nat /\ t.pending \in Body \cup {None}
  BY DEF Stored
<1>3. PICK n \in Memory :
         n = [Off EXCEPT !.at = "welcomes", !.after = "retry", !.restoring = TRUE,
                         !.group = t.group, !.pending = t.pending]
  BY <1>2, OffIs DEF Memory
<1>4. n.at = "welcomes" /\ n.welcome = None /\ n.group = t.group /\ n.pending = t.pending
  BY <1>2, <1>3, OffIs DEF Off
<1>5. Goes(d, n)
  BY <1>1, <1>3 DEF Restore
<1>6. CallOK(n)
  BY <1>4 DEF CallOK, Comes
<1>7. Moves(d) /\ local'[d] = n
  BY <1>5, <1>6, GoesMoves
<1>8. Quiet(d)
  BY <1>0, <1>7, ThreadFields DEF Quiet
<1>9. TypeOK' /\ Grows
  BY <1>8, QuietStep
<1>10. DeviceOK(d)'
  <2>1. StateOK(t.group, t.pending) /\ (d \in thread.joined => Keep(t.group, t.pending))
    BY <1>1, Known DEF DeviceOK
  <2>2. StateOK(t.group, t.pending)' /\ (d \in thread'.joined => Keep(t.group, t.pending)')
    BY <1>0, <1>2, <1>9, <2>1, StateStays, KeepStays
  <2>3. ~Comes(n, "join")
    BY <1>4 DEF Comes
  <2>4. saved'[d] = t
    BY <1>0, <1>1
  <2> QED
    BY <1>4, <1>7, <2>2, <2>3, <2>4 DEF DeviceOK
<1>11. HoldsOn(d)
  BY <1>0, <1>1, <1>4, <1>7 DEF HoldsOn, Holds
<1> QED
  BY <1>8, <1>10, <1>11, QuietStep

-----------------------------------------------------------------------------
(* A request that the server gets                                          *)

\* The server's conversation after it has taken a candidate is one.
LEMMA TakenType ==
    ASSUME TypeOK, NEW d \in Devices, NEW b \in Body
    PROVE  Taken(d, b) \in Thread /\ Taken(d, b).joined = {d}
<1>1. [to : Devices \ {d}, group : {b.group}, replaces : {b.previous}] \subseteq Welcome
  BY BodyFields DEF Welcome
<1> QED
  BY <1>1, BodyFields DEF TypeOK, Thread, Taken

\* Its device has stored the group, and any other is not joined to it.
LEMMA TakenOthers ==
    ASSUME Distinct, TypeOK, TypeOK', ActivationInv, NEW d \in Devices, NEW b \in Body,
           BodyOK(b), Accepts(b), thread' = Taken(d, b), UNCHANGED <<saved, made>>,
           \A e \in Devices : e # d => local'[e] = local[e]
    PROVE  /\ Grows /\ thread'.group = b.group /\ thread.group < thread'.group
           /\ \A e \in Devices : e # d => DeviceOK(e)'
<1>1. Grows /\ JoinsOnly({d}) /\ thread'.group = b.group /\ thread.group < thread'.group
  BY TakenGrows DEF ActivationInv
<1>2. thread'.joined = {d}
  BY TakenType
<1>3. ASSUME NEW e \in Devices, e # d PROVE DeviceOK(e)'
  <2>1. local'[e] = local[e] /\ saved'[e] = saved[e] /\ DeviceOK(e) /\ e \notin thread'.joined
    BY <1>2, <1>3 DEF ActivationInv
  <2> QED
    BY <1>1, <2>1, RestKept
<1> QED
  BY <1>1, <1>3

LEMMA FinishStep ==
    ASSUME Distinct, TypeOK, ActivationInv, NEW d \in Devices, Finish(d)
    PROVE  TypeOK' /\ ActivationInv'
<1>0. local[d].at = "finish" /\ UNCHANGED <<saved, requests, made>>
  BY DEF Finish
<1>1. PICK b \in Body : b = local[d].pending /\ BodyOK(b) /\ local[d].group = b.group /\ b # None
  BY <1>0, Known, MemoryFields DEF CallOK, Comes
<1>2. CASE Accepts(b) /\ thread' = Taken(d, b) /\ Goes(d, Saving([local[d] EXCEPT !.pending = None], "idle"))
  <2>1. PICK m \in Memory : m = [local[d] EXCEPT !.pending = None]
    BY MemoryFields, PendingNone
  <2>2. m.group = b.group /\ m.pending = None /\ m.welcome = local[d].welcome
    BY <1>1, <2>1, MemoryFields, PendingNone
  <2>3. PICK n \in Memory : n = Saving(m, "idle")
    BY SavingIs DEF Nexts
  <2>4. /\ n.at = "saving" /\ n.next = "idle" /\ n.group = b.group /\ n.pending = None
        /\ n.welcome = local[d].welcome
    BY <2>2, <2>3, SavingIs DEF Nexts
  <2>5. Goes(d, n)
    BY <1>2, <2>1, <2>3
  <2>6. Moves(d) /\ Saves(d, "idle", n.group, n.pending, n.welcome)
    BY <2>4, <2>5, SavesMoves DEF Nexts
  <2>7. PICK w \in Welcome \cup {None} : w = local[d].welcome /\ (w # None => w.to = d /\ WelcomeOK(w))
    BY Known, MemoryFields
  <2>8. Saves(d, "idle", b.group, None, w)
    BY <2>4, <2>6, <2>7
  <2>9. TypeOK'
    BY <1>0, <1>2, <2>6, TakenType, TypeStays, ThreadFields DEF TypeOK
  <2>10. /\ Grows /\ thread'.group = b.group /\ thread.group < thread'.group
         /\ \A e \in Devices : e # d => DeviceOK(e)'
    BY <1>0, <1>1, <1>2, <2>6, <2>9, TakenOthers DEF Moves
  <2>11. StateOK(b.group, None)'
    <3>1. thread'.group # 0
      BY <2>10, ThreadFields, BodyFields
    <3> QED
      BY <2>10, <3>1 DEF StateOK, Grows, ServerOK
  <2>12. Keep(b.group, None)'
    BY <2>10 DEF Keep
  <2>13. saved[d].group = thread'.group
    BY <1>0, <1>1, <2>10, Known DEF DeviceOK
  <2>14. DeviceOK(d)'
    BY <1>0, <2>7, <2>8, <2>9, <2>10, <2>11, <2>12, <2>13, SavesKept, Known
  <2>15. Dead(b)'
    <3>1. thread'.group > b.previous
      BY <1>2, <2>10 DEF Accepts
    <3> QED
      BY <3>1 DEF Dead
  <2>16. HoldsOn(d)
    BY <1>0, <1>1, <2>8, <2>10, <2>15, SavesHolds
  <2>17. \A e \in Devices : DeviceOK(e)'
    BY <2>10, <2>14
  <2>18. \A e \in Devices : e # d => local'[e] = local[e] /\ saved'[e] = saved[e]
    BY <1>0, <2>6 DEF Moves
  <2>19. \A r \in requests' : r \in requests
    BY <1>0
  <2> QED
    BY <2>9, <2>10, <2>16, <2>17, <2>18, <2>19, Assemble
<1>3. CASE thread.group = b.group /\ Goes(d, Activated(local[d])) /\ UNCHANGED thread
  BY <1>0, <1>1, <1>3, ActivatedStep
<1>4. CASE ~Accepts(b) /\ Goes(d, [local[d] EXCEPT !.at = "resolve"]) /\ UNCHANGED thread
  <2>1. Dead(b)
    BY <1>1, <1>4, Refused
  <2> QED
    BY <1>0, <1>1, <1>4, <2>1, CallGoesOn DEF Points
<1> QED
  BY <1>1, <1>2, <1>3, <1>4 DEF Finish

LEMMA FinishFailsStep ==
    ASSUME Distinct, TypeOK, ActivationInv, NEW d \in Devices, FinishFails(d)
    PROVE  TypeOK' /\ ActivationInv'
<1>0. /\ local[d].at = "finish" /\ UNCHANGED <<saved, made>> /\ Goes(d, Failed(local[d]))
  BY DEF FinishFails
<1>1. PICK b \in Body : b = local[d].pending /\ BodyOK(b) /\ local[d].group = b.group /\ b # None
  BY <1>0, Known, MemoryFields DEF CallOK, Comes
<1>2. saved[d].pending = b /\ saved[d].group = b.group
  BY <1>0, <1>1, Known DEF DeviceOK
<1>3. Moves(d) /\ Ends(d)
  BY <1>0, EndsMoves
<1>4. HoldsOn(d)
  BY <1>0, <1>3, EndsHolds
<1>5. CASE Accepts(b) /\ thread' = Taken(d, b) /\ UNCHANGED requests
  <2>1. TypeOK'
    BY <1>0, <1>3, <1>5, TakenType, TypeStays, ThreadFields DEF TypeOK
  <2>2. /\ Grows /\ thread'.group = b.group /\ thread.group < thread'.group
        /\ \A e \in Devices : e # d => DeviceOK(e)'
    BY <1>0, <1>1, <1>3, <1>5, <2>1, TakenOthers DEF Moves
  <2>3. saved[d].group = thread'.group
    BY <1>2, <2>2
  <2>4. DeviceOK(d)'
    BY <1>0, <1>3, <2>1, <2>2, <2>3, EndsKept, Known
  <2>5. \A e \in Devices : DeviceOK(e)'
    BY <2>2, <2>4
  <2>6. \A e \in Devices : e # d => local'[e] = local[e] /\ saved'[e] = saved[e]
    BY <1>0, <1>3 DEF Moves
  <2>7. \A r \in requests' : r \in requests
    BY <1>5
  <2> QED
    BY <1>4, <2>1, <2>2, <2>5, <2>6, <2>7, Assemble
<1>6. CASE requests' \in {requests, {[from |-> d, body |-> b]}} /\ UNCHANGED thread
  <2>1. PICK r \in Request : r = [from |-> d, body |-> b]
    BY DEF Request
  <2>2. r.from = d /\ r.body = b
    BY <2>1
  <2>3. TypeOK'
    BY <1>0, <1>3, <1>6, <2>1, TypeStays, ThreadFields DEF TypeOK
  <2>4. Grows /\ thread' = thread
    BY <1>0, <1>6, Known, ThreadFields, SameGrows
  <2>5. DeviceOK(d)'
    BY <1>0, <1>3, <2>3, <2>4, EndsKept, Known
  <2>6. ASSUME NEW e \in Devices, e # d PROVE DeviceOK(e)'
    <3>1. local'[e] = local[e] /\ saved'[e] = saved[e] /\ DeviceOK(e)
      BY <1>0, <1>3, <2>6, Known DEF Moves
    <3> QED
      BY <2>3, <2>4, <3>1, RestKept
  <2>7. \A e \in Devices : DeviceOK(e)'
    BY <2>5, <2>6
  <2>8. \A e \in Devices : e # d => local'[e] = local[e] /\ saved'[e] = saved[e]
    BY <1>0, <1>3 DEF Moves
  <2>9. Holds(d, b)
    BY <1>1, <1>2 DEF Holds
  <2>10. \A q \in requests' :
            q \in requests \/ (q \in Request /\ q.from = d /\ BodyOK(q.body) /\ Holds(d, q.body))
    BY <1>1, <1>6, <2>1, <2>2, <2>9
  <2> QED
    BY <1>4, <2>3, <2>4, <2>7, <2>8, <2>10, Assemble
<1> QED
  BY <1>1, <1>5, <1>6 DEF FinishFails

\* What the server takes is not dead.
LEMMA AcceptedLives ==
    ASSUME TypeOK, NEW b \in Body, Accepts(b)
    PROVE  ~Dead(b)
BY ThreadFields, BodyFields DEF Accepts, Dead, RecoveryAllowed

LEMMA LateStep ==
    ASSUME Distinct, TypeOK, ActivationInv, NEW r \in requests, LateArrives(r)
    PROVE  TypeOK' /\ ActivationInv'
<1>0. UNCHANGED <<local, saved, made>> /\ requests' \subseteq requests /\ LateOK(r) /\ r \in Request
  BY DEF LateArrives, ActivationInv, TypeOK
<1>1. PICK d \in Devices, b \in Body : d = r.from /\ b = r.body
  BY <1>0 DEF Request
<1>2. Moves(d)
  BY <1>0 DEF TypeOK, Moves
<1>3. HoldsOn(d)
  BY <1>0 DEF HoldsOn, Holds
<1>4. \A q \in requests' : q \in requests
  BY <1>0
<1>5. \A e \in Devices : e # d => local'[e] = local[e] /\ saved'[e] = saved[e]
  BY <1>0
<1>6. CASE ~Accepts(b)
  <2>1. thread' = thread
    BY <1>1, <1>6 DEF LateArrives
  <2>2. TypeOK'
    BY <1>0, <1>2, <2>1, TypeStays, ThreadFields DEF TypeOK
  <2>3. Grows
    BY <1>0, <2>1, Known, ThreadFields, SameGrows
  <2>4. \A e \in Devices : DeviceOK(e)'
    BY <1>0, <2>1, <2>2, <2>3, RestKept, Known
  <2> QED
    BY <1>3, <1>4, <1>5, <2>2, <2>3, <2>4, Assemble
<1>7. CASE Accepts(b)
  <2>1. thread' = Taken(d, b)
    BY <1>1, <1>7 DEF LateArrives
  <2>2. BodyOK(b) /\ Holds(d, b) /\ ~Dead(b)
    BY <1>0, <1>1, <1>7, AcceptedLives DEF LateOK, Holds
  <2>3. TypeOK'
    BY <1>0, <1>2, <2>1, TakenType, TypeStays, ThreadFields DEF TypeOK
  <2>4. /\ Grows /\ thread'.group = b.group /\ thread.group < thread'.group
        /\ \A e \in Devices : e # d => DeviceOK(e)'
    BY <1>0, <1>7, <2>1, <2>2, <2>3, TakenOthers
  <2>5. DeviceOK(d)'
    <3>1. PICK s \in Memory : s = local[d] /\ CallOK(s)
      BY MemoryFields
    <3>2. PICK t \in Stored : t = saved[d]
      BY MemoryFields
    <3>3. /\ s.group \in Nat /\ s.pending \in Body \cup {None} /\ s.welcome \in Welcome \cup {None}
          /\ t.group \in Nat /\ t.pending \in Body \cup {None}
      BY DEF Memory, Stored
    <3>4. /\ StateOK(s.group, s.pending) /\ StateOK(t.group, t.pending)
          /\ s.at \notin {"off", "saving"} => s.group = t.group /\ s.pending = t.pending
          /\ s.welcome # None => s.welcome.to = d /\ WelcomeOK(s.welcome)
          /\ s.at = "resolve" => Dead(s.pending)
      BY <3>1, <3>2, Known DEF DeviceOK
    <3>5. /\ t.pending = b /\ (s.at # "off" => s.pending = b) /\ (s.at = "off" => s.group = 0)
          /\ b # None
      BY <2>2, <3>1, <3>2 DEF Holds, CallOK, Distinct
    <3>6. t.group = b.group /\ (s.at # "off" => s.group = b.group)
      BY <3>4, <3>5 DEF StateOK
    <3>7. StateOK(s.group, s.pending)' /\ StateOK(t.group, t.pending)'
      BY <2>4, <3>3, <3>4, StateStays
    <3>8. Keep(s.group, s.pending)' /\ Keep(t.group, t.pending)'
      BY <2>4, <3>5, <3>6 DEF Keep
    <3>9. s.welcome # None => s.welcome.to = d /\ WelcomeOK(s.welcome)'
      BY <2>3, <2>4, <3>3, <3>4, WelcomeStays
    <3>10. s.at # "resolve"
      BY <2>2, <3>4, <3>5
    <3>11. Comes(s, "join") => s.group > s.welcome.group
      <4> HAVE Comes(s, "join")
      <4>1. s.welcome \in Welcome /\ WelcomeOK(s.welcome) /\ s.group = b.group
        BY <3>1, <3>3, <3>4, <3>6 DEF CallOK, Comes
      <4>2. s.welcome.group \in Nat /\ s.welcome.group <= thread.group
        BY <4>1, WelcomeFields DEF WelcomeOK
      <4> QED
        BY <2>4, <4>1, <4>2, ThreadFields, BodyFields
    <3>12. s = local'[d] /\ t = saved'[d]
      BY <1>0, <3>1, <3>2
    <3> QED
      BY <3>4, <3>7, <3>8, <3>9, <3>10, <3>11, <3>12 DEF DeviceOK
  <2>6. \A e \in Devices : DeviceOK(e)'
    BY <2>4, <2>5
  <2> QED
    BY <1>3, <1>4, <1>5, <2>3, <2>4, <2>6, Assemble
<1> QED
  BY <1>6, <1>7

LEMMA AcknowledgeStep ==
    ASSUME Distinct, TypeOK, ActivationInv, NEW d \in Devices, Acknowledge(d)
    PROVE  TypeOK' /\ ActivationInv'
<1>0. local[d].at = "ack" /\ UNCHANGED <<saved, requests, made>>
  BY DEF Acknowledge
<1>1. PICK w \in Welcome : w = local[d].welcome
  BY <1>0, MemoryFields DEF CallOK, Comes
<1>2. w.to = d /\ local[d].group = w.group
  BY <1>0, <1>1, Known, MemoryFields DEF CallOK, Comes, Distinct
<1>3. CASE w \notin thread.waiting
  <2>1. Goes(d, Failed(local[d])) /\ UNCHANGED thread
    BY <1>1, <1>3 DEF Acknowledge
  <2> QED
    BY <1>0, <2>1, CallEnds
<1>4. CASE w \in thread.waiting
  <2>1. /\ thread' = [thread EXCEPT !.waiting = @ \ {w}, !.joined = @ \cup {d}]
        /\ Goes(d, [local[d] EXCEPT !.at = "welcomes", !.welcome = None])
    BY <1>1, <1>4 DEF Acknowledge
  <2>2. thread' \in Thread
    BY <2>1 DEF TypeOK, Thread
  <2>3. Grows /\ JoinsOnly({d}) /\ thread'.group = thread.group
    BY <1>0, <1>2, <1>4, <2>1, Known, JoinGrows
  <2>4. PICK n \in Memory : n = [local[d] EXCEPT !.at = "welcomes", !.welcome = None]
    BY MemoryFields DEF Memory
  <2>5. /\ n.at = "welcomes" /\ n.welcome = None
        /\ n.group = local[d].group /\ n.pending = local[d].pending
    BY <2>4, MemoryFields DEF Memory
  <2>6. CallOK(n)
    BY <2>5 DEF CallOK, Comes
  <2>7. Moves(d) /\ local'[d] = n
    BY <2>1, <2>4, <2>6, GoesMoves
  <2>8. TypeOK'
    BY <1>0, <2>2, <2>7, TypeStays, ThreadFields DEF TypeOK
  <2>9. GoesOn(d, "welcomes", None)
    BY <2>5, <2>7 DEF GoesOn
  <2>10. saved[d].group = thread'.group
    BY <1>0, <1>2, <1>4, <2>3, Known DEF DeviceOK, ServerOK
  <2>11. DeviceOK(d)'
    BY <1>0, <2>3, <2>8, <2>9, <2>10, GoesOnKept, Known DEF Points
  <2>12. HoldsOn(d)
    BY <1>0, <2>9, GoesOnHolds
  <2>13. ASSUME NEW e \in Devices, e # d PROVE DeviceOK(e)'
    <3>1. local'[e] = local[e] /\ saved'[e] = saved[e] /\ DeviceOK(e)
      BY <1>0, <2>7, <2>13, Known DEF Moves
    <3>2. e \in thread'.joined => e \in thread.joined
      BY <2>3, <2>13 DEF JoinsOnly
    <3> QED
      BY <2>3, <2>8, <3>1, <3>2, RestKept
  <2>14. \A e \in Devices : DeviceOK(e)'
    BY <2>11, <2>13
  <2>15. \A e \in Devices : e # d => local'[e] = local[e] /\ saved'[e] = saved[e]
    BY <1>0, <2>7 DEF Moves
  <2>16. \A r \in requests' : r \in requests
    BY <1>0
  <2> QED
    BY <2>3, <2>8, <2>12, <2>14, <2>15, <2>16, Assemble
<1> QED
  BY <1>3, <1>4

-----------------------------------------------------------------------------
(* The server's own steps                                                  *)

LEMMA ServerStep ==
    ASSUME Distinct, TypeOK, ActivationInv, thread' \in Thread, Grows, JoinsOnly({}),
           UNCHANGED <<local, saved, requests, made>>
    PROVE  TypeOK' /\ ActivationInv'
<1>1. TypeOK'
  BY DEF TypeOK
<1>2. ASSUME NEW e \in Devices PROVE DeviceOK(e)'
  <2>1. local'[e] = local[e] /\ saved'[e] = saved[e] /\ DeviceOK(e)
    BY Known
  <2>2. e \in thread'.joined => e \in thread.joined /\ thread'.group = thread.group
    BY DEF JoinsOnly
  <2> QED
    BY <1>1, <2>1, <2>2, RestKept
<1>3. ASSUME NEW r \in requests PROVE LateOK(r)'
  <2>1. LateOK(r) /\ r \in Request
    BY DEF ActivationInv, TypeOK
  <2>2. PICK b \in Body : b = r.body
    BY <2>1 DEF Request
  <2>3. BodyOK(b)' /\ (Dead(b) => Dead(b)')
    BY <2>1, <2>2 DEF LateOK, Grows
  <2>4. BodyOK(r.body)' /\ (Dead(r.body)' <=> Dead(b)')
    BY <2>2, <2>3
  <2> QED
    BY <2>1, <2>2, <2>3, <2>4 DEF LateOK
<1> QED
  BY <1>1, <1>2, <1>3 DEF ActivationInv, Grows

LEMMA ExpireStep ==
    ASSUME Distinct, TypeOK, ActivationInv, Expire
    PROVE  TypeOK' /\ ActivationInv'
<1>0. /\ thread' = [thread EXCEPT !.expired = TRUE, !.expiries = @ + 1]
      /\ UNCHANGED <<local, saved, requests, made>>
  BY DEF Expire
<1>1. thread' \in Thread
  <2>1. PICK t \in Thread : t = thread
    BY DEF TypeOK
  <2>2. t.expiries + 1 \in Nat
    BY DEF Thread
  <2>3. PICK k \in Nat : k = t.expiries + 1
    BY <2>2
  <2>4. [t EXCEPT !.expired = TRUE, !.expiries = k] \in Thread
    BY DEF Thread
  <2> QED
    BY <1>0, <2>1, <2>3, <2>4
<1>2. Grows /\ JoinsOnly({})
  BY <1>0, ExpireGrows DEF ActivationInv
<1> QED
  BY <1>0, <1>1, <1>2, ServerStep

LEMMA ClaimsExpireStep ==
    ASSUME Distinct, TypeOK, ActivationInv, NEW g \in 1 .. made, ClaimsExpire(g)
    PROVE  TypeOK' /\ ActivationInv'
<1>0. /\ thread' = [thread EXCEPT !.stale = @ \cup {g}]
      /\ UNCHANGED <<local, saved, requests, made>>
  BY DEF ClaimsExpire
<1>1. thread' \in Thread
  BY <1>0, ThreadFields DEF TypeOK, Thread
<1>2. Grows /\ JoinsOnly({})
  BY <1>0, ClaimsGrows DEF ActivationInv
<1> QED
  BY <1>0, <1>1, <1>2, ServerStep

-----------------------------------------------------------------------------
(* The theorems                                                            *)

LEMMA InitRight == Distinct /\ Init => TypeOK /\ ActivationInv
<1> SUFFICES ASSUME Distinct, Init PROVE TypeOK /\ ActivationInv
  OBVIOUS
<1>1. thread \in Thread /\ thread.joined = {} /\ thread.group = 0 /\ thread.waiting = {}
  BY DEF Init, Thread
<1>2. saved \in [Devices -> Stored]
  BY DEF Init, Stored
<1>3. \A d \in Devices : local[d] = Off /\ saved[d].group = 0 /\ saved[d].pending = None
  BY DEF Init
<1>4. TypeOK
  BY <1>1, <1>2, OffIs DEF Init, TypeOK
<1>5. ServerOK
  BY <1>1, <1>4, ThreadFields DEF ServerOK
<1>6. ASSUME NEW d \in Devices PROVE DeviceOK(d)
  BY <1>1, <1>3, OffIs DEF DeviceOK, StateOK, Comes
<1> QED
  BY <1>4, <1>5, <1>6 DEF Init, ActivationInv

LEMMA NextRight ==
    ASSUME Distinct, TypeOK, ActivationInv, [Next]_vars
    PROVE  TypeOK' /\ ActivationInv'
<1>1. ASSUME NEW d \in Devices, Step(d) PROVE TypeOK' /\ ActivationInv'
  BY <1>1, SaveStep, RestoreStep, ActivateStep, RecoverStep, FinishStep, ResolveStep, OpenStep,
     ListStep, NoWelcomeStep, JoinStep, AcknowledgeStep DEF Step
<1>2. ASSUME NEW d \in Devices, Crash(d) \/ FinishFails(d) \/ RequestFails(d)
      PROVE  TypeOK' /\ ActivationInv'
  BY <1>2, CrashStep, FinishFailsStep, RequestFailsStep
<1>3. CASE Expire
  BY <1>3, ExpireStep
<1>4. ASSUME NEW g \in 1 .. made, ClaimsExpire(g) PROVE TypeOK' /\ ActivationInv'
  BY <1>4, ClaimsExpireStep
<1>5. ASSUME NEW r \in requests, LateArrives(r) PROVE TypeOK' /\ ActivationInv'
  BY <1>5, LateStep
<1>6. CASE UNCHANGED vars
  <2>1. UNCHANGED <<local, saved, thread, requests, made>>
    BY <1>6 DEF vars
  <2>2. thread' \in Thread /\ Grows /\ JoinsOnly({})
    BY <2>1, ThreadFields, SameGrows DEF TypeOK, ActivationInv
  <2> QED
    BY <2>1, <2>2, ServerStep
<1> QED
  BY <1>1, <1>2, <1>3, <1>4, <1>5, <1>6 DEF Next

LEMMA ActivationRight == Distinct => (Spec => [](TypeOK /\ ActivationInv))
<1> SUFFICES ASSUME Distinct PROVE Spec => [](TypeOK /\ ActivationInv)
  OBVIOUS
<1>1. Init => TypeOK /\ ActivationInv
  BY InitRight
<1>2. (TypeOK /\ ActivationInv) /\ [Next]_vars => (TypeOK /\ ActivationInv)'
  BY NextRight
<1> QED
  BY <1>1, <1>2, PTL DEF Spec

\* Every variable has its type, what a call is to send is prepared, and what it
\* is to join was listed (activateThread, finishActivation, joinPendingWelcomes).
THEOREM ActivationTypes == Distinct => (Spec => []TypeOK)
<1> SUFFICES ASSUME Distinct PROVE Spec => []TypeOK
  OBVIOUS
<1> QED
  BY ActivationRight, PTL

\* A device that the server counts as joined has stored the server's group, the
\* candidate that is to replace it, or no group: never one that only it has,
\* whatever is lost, late, refused or cut off (finishActivation,
\* resolveActivationConflict, joinPendingWelcomes).
THEOREM JoinedHaveTheGroup == Distinct => (Spec => []JoinedKeep)
<1> SUFFICES ASSUME Distinct PROVE Spec => []JoinedKeep
  OBVIOUS
<1>1. TypeOK /\ ActivationInv => JoinedKeep
  <2> SUFFICES ASSUME TypeOK, ActivationInv, NEW d \in thread.joined
               PROVE  \/ saved[d].group \in {0, thread.group}
                      \/ saved[d].pending = [group |-> saved[d].group, previous |-> thread.group]
    BY DEF JoinedKeep
  <2>1. d \in Devices /\ DeviceOK(d)
    BY ThreadFields DEF ActivationInv
  <2> QED
    BY <2>1 DEF DeviceOK, Keep
<1> QED
  BY <1>1, ActivationRight, PTL

\* A stored group that is no candidate is one that the server took: nothing is
\* sent in a group that nobody else can be in (finishActivation,
\* discardInitialGroupCandidate).
THEOREM StoredGroupsWereTaken == Distinct => (Spec => []GroupsTaken)
<1> SUFFICES ASSUME Distinct PROVE Spec => []GroupsTaken
  OBVIOUS
<1>1. ActivationInv => GroupsTaken
  BY DEF ActivationInv, DeviceOK, StateOK, GroupsTaken
<1> QED
  BY <1>1, ActivationRight, PTL
=============================================================================
