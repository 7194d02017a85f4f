------------------------- MODULE ThreadSyncProofs -------------------------
(***************************************************************************)
(* Proofs about ThreadSync, for any number of calls, messages and crashes: *)
(* no two envelopes of a device are made at one generation of its ratchet, *)
(* whether calls overlap, the client is released while they run, or the    *)
(* storage fails; and what the history keeps while one call runs at a time *)
(* (after the first theorem).  The first part says nothing of the history  *)
(* and of received envelopes, and its types leave them open.               *)
(***************************************************************************)
EXTENDS ThreadSync, SequenceTheorems, WellFoundedInduction, FiniteSetTheorems, TLAPS

AppOK(a) == "outbox" \in DOMAIN a /\ a.outbox \subseteq Item
RatchetOK(r) == "sent" \in DOMAIN r /\ r.sent \in Nat
StateOK(s) == s.identity \in BOOLEAN /\ AppOK(s.app) /\ RatchetOK(s.ratchet)

Stages == {"idle", "fetch", "save", "write", "post", "posted"}
Roles == {"none", "sync", "send", "delivered", "retry"}

Shaped(c) ==
    /\ DOMAIN c = {"pc", "role", "detached", "item", "view", "clone", "payload"}
    /\ c.pc \in Stages /\ c.role \in Roles /\ c.detached \in BOOLEAN /\ c.item \in Item
    /\ c.pc = "fetch" => c.role = "sync"
    /\ AppOK(c.clone.app) /\ StateOK(c.payload)

\* A sequence of calls without repetition, who is in it, and who before whom.
Once(q) ==
    /\ q \in Seq(Calls)
    /\ \A i, j \in DOMAIN q : q[i] = q[j] => i = j
Has(q, t) == \E i \in DOMAIN q : q[i] = t
Before(q, t, u) == \E i, j \in DOMAIN q : i < j /\ q[i] = t /\ q[j] = u

\* The queue holds each call that waits for the storage, once.
QueueOK ==
    /\ Once(queue)
    /\ \A t \in Calls : Has(queue, t) <=> call[t].pc \in {"save", "write"}

Shape ==
    /\ log \in Seq(Envelope) /\ minted \in Nat
    /\ {"app", "ratchet"} \subseteq DOMAIN mem /\ AppOK(mem.app) /\ RatchetOK(mem.ratchet)
    /\ DOMAIN call = Calls /\ \A t \in Calls : Shaped(call[t])
    /\ "state" \in DOMAIN disk /\ StateOK(disk.state)
-----------------------------------------------------------------------------
\* The call has the client's memory; it has exported a state that can be
\* restored, and is still to write it.
Attached(t) == call[t] # Idle /\ ~call[t].detached
Exported(t) == call[t].pc = "write" /\ call[t].payload.identity

\* The item is at the server or on its way there ...
IsOut(i) ==
    \/ \E p \in DOMAIN log :
        log[p].from = Self /\ i.token = log[p].token /\ i.gen = log[p].gen
    \/ \E t \in Calls : call[t].pc \in {"post", "posted"} /\ i = call[t].item

\* ... or an outbox has it from which it may get there.
Held(i) ==
    \/ IsOut(i)
    \/ i \in mem.app.outbox
    \/ \E t \in Calls : Attached(t) /\ call[t].pc = "save" /\ i \in call[t].clone.app.outbox
    \/ \E t \in Calls : Exported(t) /\ i \in call[t].payload.app.outbox
    \/ disk.state.identity /\ i \in disk.state.app.outbox

GenOnce == \A i, j \in Item : Held(i) /\ Held(j) /\ i.gen = j.gen => i = j

LogOnce ==
    \A p, q \in DOMAIN log :
        log[p].from = Self /\ log[q].from = Self /\ log[p].token = log[q].token => p = q

\* The ratchet in memory is past all that is held or exported, ...
ReadyAhead ==
    phase = "ready" =>
        /\ \A i \in Item : Held(i) => i.gen <= mem.ratchet.sent
        /\ \A t \in Calls : Exported(t) => call[t].payload.ratchet.sent <= mem.ratchet.sent

\* ... a state that is or may be restored is past its own outbox and what was
\* posted, whoever posted it, ...
Covers(s) == \A i \in Item : IsOut(i) \/ i \in s.app.outbox => i.gen <= s.ratchet.sent
StatesCover ==
    /\ disk.state.identity => Covers(disk.state)
    /\ \A t \in Calls : Exported(t) => Covers(call[t].payload)

\* ... and states are written in the order of their ratchets.
InOrder ==
    \A t, u \in Calls :
        Before(queue, t, u) /\ Exported(t) /\ Exported(u)
            => call[t].payload.ratchet.sent <= call[u].payload.ratchet.sent

AttachedReady ==
    \A t \in Calls : Attached(t) =>
        phase = "ready" /\ (call[t].pc = "write" => call[t].payload.identity)

\* What a send is to post after its save, that save covers.
SendCovered ==
    \A t \in Calls : Attached(t) /\ call[t].role = "send" =>
        /\ call[t].pc = "save" => call[t].item.gen <= mem.ratchet.sent
        /\ call[t].pc = "write" => call[t].item.gen <= call[t].payload.ratchet.sent

\* While restore posts again, no other call has the memory, and the stored
\* state covers all it may post.
RetryAlone ==
    \A t \in Calls : call[t].role = "retry" =>
        /\ Attached(t)
        /\ \A u \in Calls : Attached(u) => u = t
        /\ disk.state.identity => \A i \in mem.app.outbox : i.gen <= disk.state.ratchet.sent
        /\ \A u \in Calls : Exported(u) =>
            \A i \in mem.app.outbox : i.gen <= call[u].payload.ratchet.sent

Generations ==
    /\ GenOnce /\ LogOnce /\ ReadyAhead /\ StatesCover
    /\ InOrder /\ AttachedReady /\ SendCovered /\ RetryAlone

IInv == Shape /\ QueueOK /\ Generations
-----------------------------------------------------------------------------
(* Facts about the operators of the calls. *)

LEMMA IdleFacts ==
    /\ Shaped(Idle) /\ Idle.pc = "idle" /\ Idle.role = "none" /\ ~Idle.detached
    /\ ~Idle.payload.identity
  BY DEF Shaped, Idle, NoItem, NoView, NoClone, NoState, NoApplication, NoRatchet, AppOK,
         RatchetOK, StateOK, Item, Stages, Roles

\* A sequence without its element k.
LEMMA Removed ==
    ASSUME NEW S, NEW q \in Seq(S), NEW k \in 1 .. Len(q)
    PROVE  /\ RemoveAt(q, k) \in Seq(S)
           /\ Len(RemoveAt(q, k)) = Len(q) - 1
           /\ \A i \in 1 .. Len(q) - 1 :
                RemoveAt(q, k)[i] = IF i < k THEN q[i] ELSE q[i + 1]
<1> DEFINE a == SubSeq(q, 1, k - 1)
           b == SubSeq(q, k + 1, Len(q))
<1>1. a \in Seq(S) /\ Len(a) = k - 1 /\ \A i \in 1 .. k - 1 : a[i] = q[i]
  OBVIOUS
<1>2. b \in Seq(S) /\ Len(b) = Len(q) - k /\ \A i \in 1 .. Len(q) - k : b[i] = q[k + i]
  OBVIOUS
<1> HIDE DEF a, b
<1>3. /\ a \o b \in Seq(S) /\ Len(a \o b) = Len(a) + Len(b)
      /\ \A i \in 1 .. Len(a) + Len(b) :
            (a \o b)[i] = IF i <= Len(a) THEN a[i] ELSE b[i - Len(a)]
  BY <1>1, <1>2, ConcatProperties
<1>4. Len(q) \in Nat
  OBVIOUS
<1>5. \A i \in 1 .. Len(q) - 1 : (a \o b)[i] = IF i < k THEN q[i] ELSE q[i + 1]
  <2> TAKE i \in 1 .. Len(q) - 1
  <2>1. i \in 1 .. Len(a) + Len(b)
    BY <1>1, <1>2, <1>4
  <2>2. CASE i < k
    BY <1>1, <1>3, <1>4, <2>1, <2>2
  <2>3. CASE ~(i < k)
    <3>1. i - Len(a) \in 1 .. Len(q) - k /\ k + (i - Len(a)) = i + 1
      BY <1>1, <1>4, <2>3
    <3>2. QED
      BY <1>1, <1>2, <1>3, <1>4, <2>1, <2>3, <3>1
  <2>4. QED
    BY <2>2, <2>3
<1>6. RemoveAt(q, k) = a \o b
  BY DEF RemoveAt, a, b
<1>7. Len(a) + Len(b) = Len(q) - 1
  BY <1>1, <1>2, <1>4
<1>8. a \o b \in Seq(S) /\ Len(a \o b) = Len(q) - 1
  BY <1>3, <1>7
<1> HIDE DEF a, b
<1>9. QED
  BY <1>5, <1>6, <1>8

LEMMA AppendOnce ==
    ASSUME NEW q, Once(q), NEW t \in Calls, ~Has(q, t)
    PROVE  /\ Once(Append(q, t))
           /\ \A u : Has(Append(q, t), u) <=> Has(q, u) \/ u = t
           /\ \A u, v : Before(Append(q, t), u, v) => Before(q, u, v) \/ (Has(q, u) /\ v = t)
<1> DEFINE r == Append(q, t)
<1>1. /\ r \in Seq(Calls) /\ DOMAIN r = 1 .. Len(q) + 1 /\ DOMAIN q = 1 .. Len(q)
      /\ Len(q) \in Nat
      /\ \A i \in 1 .. Len(q) : r[i] = q[i]
      /\ r[Len(q) + 1] = t
  BY DEF Once
<1> HIDE DEF r
<1>2. Once(r)
  BY <1>1 DEF Once, Has
<1>3. ASSUME NEW u PROVE Has(r, u) <=> Has(q, u) \/ u = t
  <2>1. Has(q, u) \/ u = t => Has(r, u)
    BY <1>1 DEF Has
  <2>2. Has(r, u) => Has(q, u) \/ u = t
    BY <1>1 DEF Has
  <2>3. QED
    BY <2>1, <2>2
<1>4. ASSUME NEW u, NEW v, Before(r, u, v)
      PROVE  Before(q, u, v) \/ (Has(q, u) /\ v = t)
  <2>1. PICK i \in DOMAIN r, j \in DOMAIN r : i < j /\ r[i] = u /\ r[j] = v
    BY <1>4 DEF Before
  <2>2. i \in 1 .. Len(q) /\ q[i] = u
    BY <1>1, <2>1
  <2>3. CASE j = Len(q) + 1
    BY <1>1, <2>1, <2>2, <2>3 DEF Has
  <2>4. CASE j # Len(q) + 1
    <3>1. j \in DOMAIN q /\ q[j] = v /\ i \in DOMAIN q /\ q[i] = u /\ i < j
      BY <1>1, <2>1, <2>2, <2>4
    <3>2. Before(q, u, v)
      BY <3>1 DEF Before
    <3>3. QED
      BY <3>2
  <2>5. QED
    BY <2>3, <2>4
<1>5. /\ Once(r)
      /\ \A u : Has(r, u) <=> Has(q, u) \/ u = t
      /\ \A u, v : Before(r, u, v) => Before(q, u, v) \/ (Has(q, u) /\ v = t)
  BY <1>2, <1>3, <1>4
<1>6. QED
  BY <1>5 DEF r

LEMMA RemoveOnce ==
    ASSUME NEW q, Once(q), NEW k \in DOMAIN q
    PROVE  /\ Once(RemoveAt(q, k))
           /\ \A u : Has(RemoveAt(q, k), u) <=> Has(q, u) /\ u # q[k]
           /\ \A u, v : Before(RemoveAt(q, k), u, v) => Before(q, u, v)
<1> DEFINE r == RemoveAt(q, k)
           from(i) == IF i < k THEN i ELSE i + 1
<1>1. q \in Seq(Calls) /\ DOMAIN q = 1 .. Len(q) /\ Len(q) \in Nat /\ k \in 1 .. Len(q)
  BY DEF Once
<1>2. r \in Seq(Calls) /\ Len(r) = Len(q) - 1
      /\ \A i \in 1 .. Len(q) - 1 : r[i] = IF i < k THEN q[i] ELSE q[i + 1]
  BY <1>1, Removed
<1>3. DOMAIN r = 1 .. Len(q) - 1
  BY <1>2, <1>1
<1> HIDE DEF r
<1>4. \A i \in DOMAIN r : r[i] = q[from(i)] /\ from(i) \in DOMAIN q /\ from(i) # k
  BY <1>1, <1>2, <1>3
<1>5. \A i, j \in DOMAIN r : (i < j <=> from(i) < from(j)) /\ (from(i) = from(j) => i = j)
  BY <1>1, <1>3
<1>6. \A j \in DOMAIN q : j # k => \E i \in DOMAIN r : from(i) = j
  <2> TAKE j \in DOMAIN q
  <2> HAVE j # k
  <2>1. CASE j < k
    BY <1>1, <1>3, <2>1
  <2>2. CASE j > k
    <3>1. j - 1 \in DOMAIN r /\ from(j - 1) = j
      BY <1>1, <1>3, <2>2
    <3>2. QED
      BY <3>1
  <2>3. QED
    BY <1>1, <2>1, <2>2
<1> HIDE DEF from
<1>7. Once(r)
  BY <1>2, <1>4, <1>5 DEF Once
<1>8. ASSUME NEW u PROVE Has(r, u) <=> Has(q, u) /\ u # q[k]
  <2>1. ASSUME Has(r, u) PROVE Has(q, u) /\ u # q[k]
    BY <1>4, <2>1 DEF Has, Once
  <2>2. ASSUME Has(q, u), u # q[k] PROVE Has(r, u)
    BY <1>4, <1>6, <2>2 DEF Has
  <2>3. QED
    BY <2>1, <2>2
<1>9. ASSUME NEW u, NEW v, Before(r, u, v) PROVE Before(q, u, v)
  BY <1>4, <1>5, <1>9 DEF Before
<1>10. /\ Once(r)
       /\ \A u : Has(r, u) <=> Has(q, u) /\ u # q[k]
       /\ \A u, v : Before(r, u, v) => Before(q, u, v)
  BY <1>7, <1>8, <1>9
<1>11. QED
  BY <1>10 DEF r

\* The queue without a call that waits in it, and with it at its end.
LEMMA WithoutFacts ==
    ASSUME QueueOK, NEW t \in Calls, call[t].pc \in {"save", "write"}
    PROVE  /\ At(t) \in DOMAIN queue /\ queue[At(t)] = t
           /\ Once(Without(t))
           /\ \A u : Has(Without(t), u) <=> Has(queue, u) /\ u # t
           /\ \A u, v : Before(Without(t), u, v) => Before(queue, u, v)
<1>1. \E i \in DOMAIN queue : queue[i] = t
  BY DEF QueueOK, Has
<1>2. At(t) \in DOMAIN queue /\ queue[At(t)] = t
  BY <1>1 DEF At
<1>3. Without(t) = RemoveAt(queue, At(t)) /\ Once(queue)
  BY DEF QueueOK, Without
<1> HIDE DEF At
<1>4. QED
  BY <1>2, <1>3, RemoveOnce
-----------------------------------------------------------------------------
LEMMA PersistingFacts ==
    ASSUME NEW c, Shaped(c), NEW m, AppOK(m.app)
    PROVE  /\ Shaped(Persisting(c, m))
           /\ Persisting(c, m).pc = "save" /\ Persisting(c, m).clone.app = m.app
           /\ Persisting(c, m).role = c.role /\ Persisting(c, m).item = c.item
           /\ Persisting(c, m).detached = c.detached
  BY DEF Persisting, Shaped, Stages

LEMMA SyncedFacts ==
    ASSUME Shape, NEW v, NEW upto
    PROVE  LET m == Synced(v, upto)
           IN  /\ {"app", "ratchet"} \subseteq DOMAIN m /\ AppOK(m.app) /\ RatchetOK(m.ratchet)
               /\ m.app.outbox = mem.app.outbox /\ m.ratchet.sent = mem.ratchet.sent
  BY DEF Shape, Synced, AppOK, RatchetOK

LEMMA DeliveredFacts ==
    ASSUME Shape, NEW p, NEW item
    PROVE  LET m == Delivered(p, item)
           IN  /\ {"app", "ratchet"} \subseteq DOMAIN m /\ AppOK(m.app) /\ RatchetOK(m.ratchet)
               /\ m.app.outbox = mem.app.outbox \ {item}
               /\ m.ratchet.sent = mem.ratchet.sent
  BY DEF Shape, Delivered, AppOK, RatchetOK

\* The oldest of the pending items is one of them.
LEMMA OldestItem ==
    ASSUME NEW S \in SUBSET Item, S # {}
    PROVE  \E i \in S : \A j \in S : i.token <= j.token
<1> DEFINE T == {i.token : i \in S}
           R == OpToRel(<, Nat)
<1>1. IsWellFoundedOn(R, Nat)
  BY NatLessThanWellFounded
<1>2. T \subseteq Nat /\ T # {}
  BY DEF Item
<1>3. R = {ss \in Nat \X Nat : ss[1] < ss[2]}
  BY Zenon DEF OpToRel
<1>4. \A m, n \in Nat : m < n => <<m, n>> \in {ss \in Nat \X Nat : ss[1] < ss[2]}
  OBVIOUS
<1> HIDE DEF R
<1>5. \A m, n \in Nat : m < n => <<m, n>> \in R
  BY <1>3, <1>4, Zenon
<1>6. PICK x \in T : \A y \in T : ~(<<y, x>> \in R)
  BY <1>1, <1>2, WFMin, Zenon
<1>7. \A y \in T : ~(y < x)
  BY <1>2, <1>5, <1>6, Zenon
<1>8. PICK i \in S : i.token = x
  BY <1>6
<1>9. \A j \in S : i.token <= j.token
  <2> TAKE j \in S
  <2>1. j.token \in T
    OBVIOUS
  <2>2. i.token \in Nat /\ j.token \in Nat
    BY DEF Item
  <2>3. ~(j.token < i.token)
    BY <1>7, <1>8, <2>1
  <2> HIDE DEF T
  <2>4. QED
    BY <2>2, <2>3
<1>10. QED
  BY <1>9

LEMMA NextRetryFacts ==
    ASSUME NEW outbox \in SUBSET Item
    PROVE  LET c == NextRetry(outbox)
           IN  /\ Shaped(c)
               /\ \/ c = Idle
                  \/ c.pc = "post" /\ c.role = "retry" /\ ~c.detached /\ c.item \in outbox
<1>1. CASE outbox = {}
  BY <1>1, IdleFacts DEF NextRetry
<1>2. CASE outbox # {}
  <2>1. NextRetry(outbox) =
            [Idle EXCEPT !.pc = "post", !.role = "retry",
                !.item = CHOOSE i \in outbox : \A j \in outbox : i.token <= j.token]
    BY <1>2 DEF NextRetry
  <2>2. (CHOOSE i \in outbox : \A j \in outbox : i.token <= j.token) \in outbox
    BY <1>2, OldestItem
  <2>3. QED
    BY <2>1, <2>2, IdleFacts DEF Shaped, Stages, Roles
<1>3. QED
  BY <1>1, <1>2

LEMMA ContinuedFacts ==
    ASSUME Shape, NEW c, Shaped(c)
    PROVE  LET d == Continued(c)
           IN  /\ Shaped(d)
               /\ \/ d = Idle
                  \/ d.pc = "fetch" /\ d.role = "sync" /\ d.detached = c.detached
                  \/ /\ d.pc = "post" /\ ~d.detached /\ ~c.detached
                     /\ d.role = c.role /\ d.item \in mem.app.outbox
                     /\ d.role = "send" => d.item = c.item
                     /\ d.role \in {"send", "retry"}
<1>1. CASE c.role = "sync" /\ c.view.more
  BY <1>1, IdleFacts DEF Continued, Shaped, Stages, Roles
<1>2. CASE c.role = "send" /\ ~c.detached /\ c.item \in mem.app.outbox
  BY <1>2, IdleFacts DEF Continued, Shaped, Stages, Roles
<1>3. CASE c.role = "retry" /\ ~c.detached
  <2>1. Continued(c) = NextRetry(mem.app.outbox) /\ mem.app.outbox \in SUBSET Item
    BY <1>3 DEF Continued, Shape, AppOK
  <2>2. QED
    BY <1>3, <2>1, NextRetryFacts
<1>4. CASE /\ ~(c.role = "sync" /\ c.view.more)
           /\ ~(c.role = "send" /\ ~c.detached /\ c.item \in mem.app.outbox)
           /\ ~(c.role = "retry" /\ ~c.detached)
  BY <1>4, IdleFacts DEF Continued
<1>5. QED
  BY <1>1, <1>2, <1>3, <1>4
-----------------------------------------------------------------------------
(* The queue: unchanged, joined, left, and left for its end.               *)

Waits(c) == c.pc \in {"save", "write"}

LEMMA QueueKept ==
    ASSUME QueueOK, queue' = queue,
           \A u \in Calls : Waits(call'[u]) <=> Waits(call[u])
    PROVE  QueueOK'
  BY DEF QueueOK, Waits

LEMMA QueueJoined ==
    ASSUME QueueOK, NEW t \in Calls, queue' = Append(queue, t),
           ~Waits(call[t]), Waits(call'[t]),
           \A u \in Calls : u # t => call'[u] = call[u]
    PROVE  /\ QueueOK'
           /\ \A u, v : Before(queue', u, v) => Before(queue, u, v) \/ v = t
<1>1. Once(queue) /\ ~Has(queue, t)
  BY DEF QueueOK, Waits
<1>2. /\ Once(queue')
      /\ \A u : Has(queue', u) <=> Has(queue, u) \/ u = t
      /\ \A u, v : Before(queue', u, v) => Before(queue, u, v) \/ (Has(queue, u) /\ v = t)
  BY <1>1, AppendOnce
<1>3. \A u \in Calls : Has(queue', u) <=> Waits(call'[u])
  BY <1>2 DEF QueueOK, Waits
<1>4. QED
  BY <1>2, <1>3 DEF QueueOK, Waits

LEMMA QueueLeft ==
    ASSUME QueueOK, NEW t \in Calls, queue' = Without(t),
           Waits(call[t]), ~Waits(call'[t]),
           \A u \in Calls : u # t => (Waits(call'[u]) <=> Waits(call[u]))
    PROVE  /\ QueueOK'
           /\ \A u, v : Before(queue', u, v) => Before(queue, u, v)
<1>1. /\ Once(queue')
      /\ \A u : Has(queue', u) <=> Has(queue, u) /\ u # t
      /\ \A u, v : Before(queue', u, v) => Before(queue, u, v)
  BY WithoutFacts DEF Waits
<1>2. \A u \in Calls : Has(queue', u) <=> Waits(call'[u])
  BY <1>1 DEF QueueOK, Waits
<1>3. QED
  BY <1>1, <1>2 DEF QueueOK, Waits

LEMMA QueueMoved ==
    ASSUME QueueOK, NEW t \in Calls, queue' = Append(Without(t), t),
           Waits(call[t]), Waits(call'[t]),
           \A u \in Calls : u # t => call'[u] = call[u]
    PROVE  /\ QueueOK'
           /\ \A u, v : Before(queue', u, v) => u # t /\ (Before(queue, u, v) \/ v = t)
<1> DEFINE q == Without(t)
<1>1. /\ Once(q)
      /\ \A u : Has(q, u) <=> Has(queue, u) /\ u # t
      /\ \A u, v : Before(q, u, v) => Before(queue, u, v)
  BY WithoutFacts DEF Waits
<1>2. queue' = Append(q, t)
  OBVIOUS
<1>3. \A u, v : Before(q, u, v) => Has(q, u)
  BY DEF Before, Has
<1> HIDE DEF q
<1>4. /\ Once(queue')
      /\ \A u : Has(queue', u) <=> Has(q, u) \/ u = t
      /\ \A u, v : Before(queue', u, v) => Before(q, u, v) \/ (Has(q, u) /\ v = t)
  BY <1>1, <1>2, AppendOnce
<1>5. \A u \in Calls : Has(queue', u) <=> Waits(call'[u])
  BY <1>1, <1>4 DEF QueueOK, Waits
<1>6. QED
  BY <1>1, <1>3, <1>4, <1>5 DEF QueueOK, Waits
-----------------------------------------------------------------------------
(* What most steps have in common: nothing new is held or exported.        *)

LEMMA Quiet ==
    ASSUME IInv, Shape', disk'.state = disk.state,
           \A i \in Item : IsOut(i)' => IsOut(i),
           \A i \in Item : Held(i)' => Held(i),
           phase' = "ready" => phase = "ready" /\ mem.ratchet.sent <= mem'.ratchet.sent,
           \A u \in Calls : Exported(u)' => Exported(u) /\ call'[u].payload = call[u].payload,
           \A u, v \in Calls :
                Before(queue', u, v) /\ Exported(u)' /\ Exported(v)' => Before(queue, u, v)
    PROVE  GenOnce' /\ ReadyAhead' /\ StatesCover' /\ InOrder'
<1>1. Shape /\ GenOnce /\ ReadyAhead /\ StatesCover /\ InOrder
  BY DEF IInv, Generations
<1>2. GenOnce'
  BY <1>1 DEF GenOnce
<1>3. ReadyAhead'
  <2> SUFFICES ASSUME phase' = "ready" PROVE ReadyAhead!2'
    BY DEF ReadyAhead
  <2>1. phase = "ready" /\ mem.ratchet.sent <= mem'.ratchet.sent
    OBVIOUS
  <2>2. mem.ratchet.sent \in Nat /\ mem'.ratchet.sent \in Nat
    BY <1>1 DEF Shape, RatchetOK
  <2>3. ASSUME NEW i \in Item, Held(i)' PROVE i.gen <= mem'.ratchet.sent
    <3>1. i.gen <= mem.ratchet.sent /\ i.gen \in Nat
      BY <1>1, <2>1, <2>3 DEF ReadyAhead, Item
    <3>2. QED
      BY <2>1, <2>2, <3>1
  <2>4. ASSUME NEW u \in Calls, Exported(u)'
        PROVE  call'[u].payload.ratchet.sent <= mem'.ratchet.sent
    <3>1. call'[u].payload = call[u].payload /\ call[u].payload.ratchet.sent <= mem.ratchet.sent
      BY <1>1, <2>1, <2>4 DEF ReadyAhead
    <3>2. call[u].payload.ratchet.sent \in Nat
      BY <1>1 DEF Shape, Shaped, StateOK, RatchetOK
    <3>3. QED
      BY <2>1, <2>2, <3>1, <3>2
  <2>5. QED
    BY <2>3, <2>4
<1>4. StatesCover'
  BY <1>1 DEF StatesCover, Covers
<1>5. InOrder'
  BY <1>1 DEF InOrder
<1>6. QED
  BY <1>2, <1>3, <1>4, <1>5

\* A step that changes one call, which does not export, and takes nothing into
\* the outbox.
LEMMA Moves ==
    ASSUME IInv, Shape', LogOnce', NEW t \in Calls, NEW d, call' = [call EXCEPT ![t] = d],
           phase' = phase, disk'.state = disk.state,
           mem'.ratchet.sent = mem.ratchet.sent, mem'.app.outbox \subseteq mem.app.outbox,
           \A i \in Item : IsOut(i)' => IsOut(i),
           d.pc # "write",
           d.pc = "save" /\ ~d.detached => d.clone.app.outbox \subseteq mem.app.outbox,
           d # Idle /\ ~d.detached =>
                phase = "ready" /\ (Attached(t) \/ \A u \in Calls : call[u].role # "retry"),
           d.role = "send" => d.pc # "save",
           d.role = "retry" => call[t].role = "retry" /\ d # Idle /\ ~d.detached,
           \A u, v \in Calls : Before(queue', u, v) => Before(queue, u, v) \/ v = t
    PROVE  Generations'
<1>1. /\ Shape /\ GenOnce /\ LogOnce /\ ReadyAhead /\ StatesCover
      /\ InOrder /\ AttachedReady /\ SendCovered /\ RetryAlone
  BY DEF IInv, Generations
<1>2. /\ call'[t] = d
      /\ \A u \in Calls : u # t => call'[u] = call[u]
  BY <1>1 DEF Shape
<1>3. \A u \in Calls : Exported(u)' => Exported(u) /\ call'[u] = call[u] /\ u # t
  BY <1>2 DEF Exported
<1>4. \A u \in Calls : u # t => (Attached(u)' <=> Attached(u))
  BY <1>2 DEF Attached
<1>5. ASSUME NEW i \in Item, Held(i)' PROVE Held(i)
  <2>1. CASE IsOut(i)'
    BY <2>1 DEF Held
  <2>2. CASE i \in mem'.app.outbox
    BY <2>2 DEF Held
  <2>3. CASE \E u \in Calls : /\ Attached(u)' /\ call'[u].pc = "save"
                              /\ i \in call'[u].clone.app.outbox
    <3>1. PICK u \in Calls : /\ Attached(u)' /\ call'[u].pc = "save"
                             /\ i \in call'[u].clone.app.outbox
      BY <2>3
    <3>2. CASE u = t
      BY <1>2, <3>1, <3>2 DEF Held, Attached
    <3>3. CASE u # t
      BY <1>2, <1>4, <3>1, <3>3 DEF Held
    <3>4. QED
      BY <3>2, <3>3
  <2>4. CASE \E u \in Calls : Exported(u)' /\ i \in call'[u].payload.app.outbox
    BY <1>3, <2>4 DEF Held
  <2>5. CASE disk'.state.identity /\ i \in disk'.state.app.outbox
    BY <2>5 DEF Held
  <2>6. QED
    BY <1>5, <2>1, <2>2, <2>3, <2>4, <2>5 DEF Held
<1>6. phase' = "ready" => phase = "ready" /\ mem.ratchet.sent <= mem'.ratchet.sent
  BY <1>1 DEF Shape, RatchetOK
<1>7. \A u, v \in Calls :
        Before(queue', u, v) /\ Exported(u)' /\ Exported(v)' => Before(queue, u, v)
  BY <1>3
<1>8. GenOnce' /\ ReadyAhead' /\ StatesCover' /\ InOrder'
  BY <1>3, <1>5, <1>6, <1>7, Quiet
<1>9. AttachedReady'
  <2> SUFFICES ASSUME NEW u \in Calls, Attached(u)'
               PROVE  phase' = "ready" /\ (call'[u].pc = "write" => call'[u].payload.identity)
    BY DEF AttachedReady
  <2>1. CASE u = t
    BY <1>2, <2>1 DEF Attached
  <2>2. CASE u # t
    BY <1>1, <1>2, <1>4, <2>2 DEF AttachedReady
  <2>3. QED
    BY <2>1, <2>2
<1>10. SendCovered'
  <2> SUFFICES ASSUME NEW u \in Calls, Attached(u)', call'[u].role = "send"
               PROVE  /\ call'[u].pc = "save" => call'[u].item.gen <= mem'.ratchet.sent
                      /\ call'[u].pc = "write" =>
                            call'[u].item.gen <= call'[u].payload.ratchet.sent
    BY DEF SendCovered
  <2>1. CASE u = t
    BY <1>2, <2>1
  <2>2. CASE u # t
    BY <1>1, <1>2, <1>4, <2>2 DEF SendCovered
  <2>3. QED
    BY <2>1, <2>2
<1>11. RetryAlone'
  <2> SUFFICES ASSUME NEW u \in Calls, call'[u].role = "retry" PROVE RetryAlone!(u)'
    BY DEF RetryAlone
  <2>1. call[u].role = "retry"
    BY <1>2
  <2>2. Attached(u)'
    <3>1. CASE u = t
      BY <1>2, <3>1 DEF Attached
    <3>2. CASE u # t
      BY <1>1, <1>4, <2>1, <3>2 DEF RetryAlone
    <3>3. QED
      BY <3>1, <3>2
  <2>3. ASSUME NEW v \in Calls, Attached(v)' PROVE v = u
    <3>1. Attached(v)
      BY <1>2, <1>4, <2>1, <2>3 DEF Attached
    <3>2. QED
      BY <1>1, <2>1, <3>1 DEF RetryAlone
  <2>4. disk'.state.identity => \A i \in mem'.app.outbox : i.gen <= disk'.state.ratchet.sent
    BY <1>1, <2>1 DEF RetryAlone
  <2>5. \A v \in Calls : Exported(v)' =>
            \A i \in mem'.app.outbox : i.gen <= call'[v].payload.ratchet.sent
    BY <1>1, <1>3, <2>1 DEF RetryAlone
  <2>6. QED
    BY <2>2, <2>3, <2>4, <2>5
<1>12. QED
  BY <1>8, <1>9, <1>10, <1>11 DEF Generations

\* A step after which no call has the client's memory.
LEMMA Released ==
    ASSUME IInv, Shape', log' = log, disk' = disk, mem' = NoMemory, phase' # "ready",
           \A u \in Calls :
                \/ call'[u] = Idle
                \/ /\ call'[u].detached /\ call'[u].role # "retry"
                   /\ call'[u].pc = call[u].pc /\ call'[u].item = call[u].item
                   /\ call'[u].payload = call[u].payload,
           \A u, v \in Calls : Before(queue', u, v) => Before(queue, u, v)
    PROVE  Generations'
<1>1. /\ Shape /\ GenOnce /\ LogOnce /\ ReadyAhead /\ StatesCover
      /\ InOrder /\ AttachedReady /\ SendCovered /\ RetryAlone
  BY DEF IInv, Generations
<1>2. \A u \in Calls : Exported(u)' => Exported(u) /\ call'[u].payload = call[u].payload
  BY IdleFacts DEF Exported
<1>3. \A u \in Calls : ~Attached(u)'
  BY DEF Attached
<1>4. \A i \in Item : IsOut(i)' => IsOut(i)
  BY IdleFacts DEF IsOut
<1>5. mem'.app.outbox = {}
  BY DEF NoMemory, NoApplication
<1>6. ASSUME NEW i \in Item, Held(i)' PROVE Held(i)
  <2>1. CASE IsOut(i)'
    BY <1>4, <2>1 DEF Held
  <2>2. CASE \E u \in Calls : Exported(u)' /\ i \in call'[u].payload.app.outbox
    BY <1>2, <2>2 DEF Held
  <2>3. CASE disk'.state.identity /\ i \in disk'.state.app.outbox
    BY <2>3 DEF Held
  <2>4. QED
    BY <1>3, <1>5, <1>6, <2>1, <2>2, <2>3 DEF Held
<1>7. GenOnce' /\ ReadyAhead' /\ StatesCover' /\ InOrder'
  BY <1>2, <1>4, <1>6, Quiet
<1>8. AttachedReady' /\ SendCovered' /\ RetryAlone'
  BY <1>3, IdleFacts DEF AttachedReady, SendCovered, RetryAlone
<1>9. LogOnce'
  BY <1>1 DEF LogOnce
<1>10. QED
  BY <1>7, <1>8, <1>9 DEF Generations
-----------------------------------------------------------------------------
(* The steps, one by one.                                                  *)

LEMMA BeginSyncStep ==
    ASSUME IInv, NEW t \in Calls, BeginSync(t)
    PROVE  IInv'
<1>1. PICK d : /\ call' = [call EXCEPT ![t] = d]
               /\ Shaped(d) /\ d.pc = "fetch" /\ d.role = "sync"
  <2> DEFINE d == [Idle EXCEPT
            !.pc = "fetch", !.role = "sync",
            !.view = [processed |-> mem.app.processed, records |-> mem.records,
                      cursor |-> mem.app.cursor, changed |-> FALSE,
                      asked |-> Len(log), more |-> FALSE]]
  <2>1. Shaped(d) /\ d.pc = "fetch" /\ d.role = "sync"
    BY IdleFacts DEF Shaped, Stages, Roles
  <2>2. call' = [call EXCEPT ![t] = d]
    BY DEF BeginSync
  <2>3. QED
    BY <2>1, <2>2
<1>2. /\ UNCHANGED <<log, phase, mem, queue, disk, minted>>
      /\ phase = "ready" /\ ~Restoring /\ call[t] = Idle
  BY DEF BeginSync, MayBegin
<1>3. Shape /\ QueueOK /\ LogOnce /\ RetryAlone
  BY DEF IInv, Generations
<1>4. call'[t] = d /\ \A u \in Calls : u # t => call'[u] = call[u]
  BY <1>1, <1>3 DEF Shape
<1>5. Shape'
  BY <1>1, <1>2, <1>3 DEF Shape
<1>6. QueueOK'
  BY <1>1, <1>2, <1>3, <1>4, IdleFacts, QueueKept DEF Waits
<1>7. \A i \in Item : IsOut(i)' => IsOut(i)
  BY <1>1, <1>2, <1>4 DEF IsOut
<1>8. \A u \in Calls : call[u].role # "retry"
  BY <1>2, <1>3 DEF RetryAlone, Restoring, Attached
<1>9. Generations'
  BY <1>1, <1>2, <1>3, <1>5, <1>7, <1>8, Moves DEF LogOnce
<1>10. QED
  BY <1>5, <1>6, <1>9 DEF IInv

LEMMA PageArrivesStep ==
    ASSUME IInv, NEW t \in Calls, PageArrives(t)
    PROVE  IInv'
<1>1. Shape /\ QueueOK /\ LogOnce /\ RetryAlone /\ AttachedReady
  BY DEF IInv, Generations
<1>2. UNCHANGED <<log, phase, disk, minted>> /\ call[t].pc = "fetch" /\ Shaped(call[t])
  BY <1>1 DEF PageArrives, Shape
<1>3. PICK n, upto, next, persists, m :
        /\ next = [call[t] EXCEPT !.view = next.view]
        /\ persists \in BOOLEAN
        /\ m = IF call[t].detached THEN NoMemory ELSE Synced(call[t].view, upto)
        /\ mem' = IF call[t].detached THEN mem ELSE m
        /\ call' = [call EXCEPT ![t] = IF persists THEN Persisting(next, m) ELSE Idle]
        /\ queue' = IF persists THEN Append(queue, t) ELSE queue
  <2>1. PICK n \in call[t].view.asked .. Len(log) : PageArrives(t)!2!(n)
    BY DEF PageArrives
  <2> DEFINE v == call[t].view
             upto == IF v.cursor + PageSize < n THEN v.cursor + PageSize ELSE n
             fresh == Unprocessed(v, upto)
             changed == v.changed \/ fresh # {}
             next == [call[t] EXCEPT !.view =
                        [processed |-> v.processed \union fresh,
                         records |-> IF call[t].detached THEN v.records ELSE Shown(v, upto),
                         cursor |-> upto, changed |-> changed,
                         asked |-> 0, more |-> upto < n]]
             throws == call[t].detached /\ fresh # {}
             persists == ~throws /\ (changed \/ upto # v.cursor)
             m == IF call[t].detached THEN NoMemory ELSE Synced(v, upto)
  <2>2. /\ mem' = IF call[t].detached THEN mem ELSE m
        /\ call' = [call EXCEPT ![t] = IF persists THEN Persisting(next, m) ELSE Idle]
        /\ queue' = IF persists THEN Append(queue, t) ELSE queue
    BY <2>1
  <2>3. next = [call[t] EXCEPT !.view = next.view]
    BY <1>2 DEF Shaped
  <2>4. QED
    BY <2>2, <2>3
<1>4. AppOK(m.app) /\ (~call[t].detached => /\ {"app", "ratchet"} \subseteq DOMAIN m
                                            /\ RatchetOK(m.ratchet)
                                            /\ m.app.outbox = mem.app.outbox
                                            /\ m.ratchet.sent = mem.ratchet.sent)
  BY <1>1, <1>3, SyncedFacts DEF NoMemory, NoApplication, AppOK
<1>5. /\ Shaped(next) /\ next.role = call[t].role /\ next.detached = call[t].detached
  BY <1>2, <1>3 DEF Shaped
<1>6. PICK d : /\ d = IF persists THEN Persisting(next, m) ELSE Idle
               /\ call' = [call EXCEPT ![t] = d]
  BY <1>3
<1>7. /\ Shaped(d)
      /\ \/ d = Idle /\ queue' = queue
         \/ /\ d.pc = "save" /\ d.role = "sync" /\ d.detached = call[t].detached
            /\ d.clone.app = m.app /\ queue' = Append(queue, t)
  BY <1>2, <1>3, <1>4, <1>5, <1>6, IdleFacts, PersistingFacts DEF Shaped
<1>8. call'[t] = d /\ \A u \in Calls : u # t => call'[u] = call[u]
  BY <1>1, <1>6 DEF Shape
<1>9. Shape'
  BY <1>1, <1>2, <1>3, <1>4, <1>6, <1>7 DEF Shape
<1>10. QueueOK' /\ \A u, v : Before(queue', u, v) => Before(queue, u, v) \/ v = t
  <2>1. CASE d = Idle /\ queue' = queue
    BY <1>1, <1>2, <1>8, <2>1, IdleFacts, QueueKept DEF Waits
  <2>2. CASE d.pc = "save" /\ queue' = Append(queue, t)
    BY <1>1, <1>2, <1>8, <2>2, QueueJoined DEF Waits
  <2>3. QED
    BY <1>7, <2>1, <2>2
<1>11. \A i \in Item : IsOut(i)' => IsOut(i)
  BY <1>2, <1>7, <1>8, IdleFacts DEF IsOut
<1>12. mem'.ratchet.sent = mem.ratchet.sent /\ mem'.app.outbox \subseteq mem.app.outbox
  BY <1>3, <1>4
<1>13. d # Idle /\ ~d.detached => phase = "ready" /\ Attached(t)
  BY <1>1, <1>2, <1>7, IdleFacts DEF Attached, AttachedReady
<1>14. /\ d.pc # "write" /\ d.role # "send" /\ d.role # "retry"
       /\ d.pc = "save" /\ ~d.detached => d.clone.app.outbox \subseteq mem.app.outbox
  BY <1>4, <1>7, IdleFacts
<1>15. Generations'
  BY <1>1, <1>2, <1>6, <1>9, <1>10, <1>11, <1>12, <1>13, <1>14, Moves DEF LogOnce
<1>16. QED
  BY <1>9, <1>10, <1>15 DEF IInv

LEMMA PostArrivesStep ==
    ASSUME IInv, NEW t \in Calls, PostArrives(t)
    PROVE  IInv'
<1>1. Shape /\ QueueOK /\ LogOnce /\ RetryAlone /\ AttachedReady
  BY DEF IInv, Generations
<1>2. /\ UNCHANGED <<phase, mem, queue, disk, minted>> /\ call[t].pc = "post"
      /\ Shaped(call[t]) /\ log \in Seq(Envelope)
  BY <1>1 DEF PostArrives, Shape
<1>3. PICK d : d = [call[t] EXCEPT !.pc = "posted"] /\ call' = [call EXCEPT ![t] = d]
  BY DEF PostArrives
<1>4. /\ Shaped(d) /\ d.pc = "posted" /\ d.role = call[t].role /\ d.item = call[t].item
      /\ d.detached = call[t].detached
  BY <1>2, <1>3 DEF Shaped, Stages
<1>5. call'[t] = d /\ \A u \in Calls : u # t => call'[u] = call[u]
  BY <1>1, <1>3 DEF Shape
<1>6. call[t] # Idle /\ d # Idle
  BY <1>2, <1>4, IdleFacts
<1> DEFINE e == [from |-> Self, gen |-> call[t].item.gen, token |-> call[t].item.token]
<1>7. e \in Envelope /\ e.from = Self
  BY <1>2 DEF Shaped, Item, Envelope
<1>8. \/ log' = log
      \/ Posted(call[t].item) = {} /\ log' = Append(log, e)
  BY DEF PostArrives
<1>9. LogOnce' /\ log' \in Seq(Envelope) /\ \A i \in Item : IsOut(i)' => IsOut(i)
  <2>1. CASE log' = log
    BY <1>1, <1>2, <1>4, <1>5, <2>1 DEF LogOnce, IsOut
  <2>2. CASE Posted(call[t].item) = {} /\ log' = Append(log, e)
    <3>1. /\ log' \in Seq(Envelope) /\ DOMAIN log = 1 .. Len(log) /\ Len(log) \in Nat
          /\ DOMAIN log' = 1 .. Len(log) + 1
          /\ \A p \in DOMAIN log : log'[p] = log[p]
          /\ log'[Len(log) + 1] = e
      BY <1>2, <1>7, <2>2
    <3> HIDE DEF e
    <3>2. \A p \in DOMAIN log : log[p].from = Self => log[p].token # e.token
      BY <2>2 DEF Posted, Positions, e
    <3>3. LogOnce'
      BY <1>1, <3>1, <3>2 DEF LogOnce
    <3>4. ASSUME NEW i \in Item, IsOut(i)' PROVE IsOut(i)
      <4>1. CASE \E p \in DOMAIN log' :
                    log'[p].from = Self /\ i.token = log'[p].token /\ i.gen = log'[p].gen
        <5>1. PICK p \in DOMAIN log' :
                    log'[p].from = Self /\ i.token = log'[p].token /\ i.gen = log'[p].gen
          BY <4>1
        <5>2. CASE p \in DOMAIN log
          BY <3>1, <5>1, <5>2 DEF IsOut
        <5>3. CASE p = Len(log) + 1
          <6>1. i.token = call[t].item.token /\ i.gen = call[t].item.gen
            BY <3>1, <5>1, <5>3 DEF e
          <6>2. i = call[t].item
            BY <1>2, <6>1 DEF Shaped, Item
          <6>3. QED
            BY <1>2, <6>2 DEF IsOut
        <5>4. QED
          BY <3>1, <5>1, <5>2, <5>3
      <4>2. CASE \E u \in Calls : call'[u].pc \in {"post", "posted"} /\ i = call'[u].item
        BY <1>2, <1>4, <1>5, <4>2 DEF IsOut
      <4>3. QED
        BY <3>4, <4>1, <4>2 DEF IsOut
    <3>5. QED
      BY <3>1, <3>3, <3>4
  <2>3. QED
    BY <1>8, <2>1, <2>2
<1>10. Shape'
  BY <1>1, <1>2, <1>3, <1>4, <1>9 DEF Shape
<1>11. QueueOK'
  BY <1>1, <1>2, <1>4, <1>5, QueueKept DEF Waits
<1>12. ~d.detached => phase = "ready" /\ Attached(t)
  BY <1>1, <1>4, <1>6 DEF Attached, AttachedReady
<1>13. d.role = "retry" => call[t].role = "retry" /\ ~d.detached
  BY <1>1, <1>4 DEF RetryAlone, Attached
<1>14. mem'.ratchet.sent = mem.ratchet.sent /\ mem'.app.outbox \subseteq mem.app.outbox
  BY <1>2
<1>15. Generations'
  BY <1>2, <1>3, <1>4, <1>6, <1>9, <1>10, <1>12, <1>13, <1>14, Moves
<1>16. QED
  BY <1>10, <1>11, <1>15 DEF IInv

LEMMA NoMemoryFacts ==
    /\ {"app", "ratchet"} \subseteq DOMAIN NoMemory
    /\ AppOK(NoMemory.app) /\ RatchetOK(NoMemory.ratchet)
  BY DEF NoMemory, NoApplication, NoRatchet, AppOK, RatchetOK, Item

LEMMA PostFailsStep ==
    ASSUME IInv, NEW t \in Calls, PostFails(t)
    PROVE  IInv'
<1>1. Shape /\ QueueOK /\ LogOnce /\ RetryAlone
  BY DEF IInv, Generations
<1>2. /\ UNCHANGED <<log, queue, disk, minted>> /\ call[t].pc \in {"post", "posted"}
      /\ call' = [call EXCEPT ![t] = Idle]
  BY DEF PostFails
<1>3. call'[t] = Idle /\ \A u \in Calls : u # t => call'[u] = call[u]
  BY <1>1, <1>2 DEF Shape
<1>4. \/ call[t].role = "retry" /\ phase' = "absent" /\ mem' = NoMemory
      \/ UNCHANGED <<phase, mem>>
  BY DEF PostFails
<1>5. Shape'
  BY <1>1, <1>2, <1>4, IdleFacts, NoMemoryFacts DEF Shape
<1>6. QueueOK'
  BY <1>1, <1>2, <1>3, IdleFacts, QueueKept DEF Waits
<1>7. Generations'
  <2>1. CASE call[t].role = "retry" /\ phase' = "absent" /\ mem' = NoMemory
    <3>1. ASSUME NEW u \in Calls, u # t, call[u] # Idle
          PROVE  call[u].detached /\ call[u].role # "retry"
      BY <1>1, <2>1, <3>1 DEF RetryAlone, Attached, Shape, Shaped
    <3>2. QED
      BY <1>2, <1>3, <1>5, <2>1, <3>1, Released
  <2>2. CASE UNCHANGED <<phase, mem>>
    <3>1. \A i \in Item : IsOut(i)' => IsOut(i)
      BY <1>2, <1>3, IdleFacts DEF IsOut
    <3>2. QED
      BY <1>1, <1>2, <1>5, <2>2, <3>1, IdleFacts, Moves DEF LogOnce
  <2>3. QED
    BY <1>4, <2>1, <2>2
<1>8. QED
  BY <1>5, <1>6, <1>7 DEF IInv

LEMMA PostReturnsStep ==
    ASSUME IInv, NEW t \in Calls, PostReturns(t)
    PROVE  IInv'
<1>1. Shape /\ QueueOK /\ LogOnce /\ RetryAlone /\ AttachedReady
  BY DEF IInv, Generations
<1>2. UNCHANGED <<log, phase, disk, minted>> /\ call[t].pc = "posted" /\ Shaped(call[t])
  BY <1>1 DEF PostReturns, Shape
<1>3. CASE call[t].detached
  <2>1. call' = [call EXCEPT ![t] = Idle] /\ UNCHANGED <<mem, queue>>
    BY <1>3 DEF PostReturns
  <2>2. call'[t] = Idle /\ \A u \in Calls : u # t => call'[u] = call[u]
    BY <1>1, <2>1 DEF Shape
  <2>3. Shape'
    BY <1>1, <1>2, <2>1, IdleFacts DEF Shape
  <2>4. QueueOK'
    BY <1>1, <1>2, <2>1, <2>2, IdleFacts, QueueKept DEF Waits
  <2>5. \A i \in Item : IsOut(i)' => IsOut(i)
    BY <1>2, <2>2, IdleFacts DEF IsOut
  <2>6. Generations'
    BY <1>1, <1>2, <2>1, <2>3, <2>5, IdleFacts, Moves DEF LogOnce
  <2>7. QED
    BY <2>3, <2>4, <2>6 DEF IInv
<1>4. CASE ~call[t].detached
  <2>1. PICK p, role :
            /\ role = IF call[t].role = "retry" THEN "retry" ELSE "delivered"
            /\ mem' = Delivered(p, call[t].item)
            /\ call' = [call EXCEPT ![t] =
                    Persisting([Idle EXCEPT !.role = role], Delivered(p, call[t].item))]
            /\ queue' = Append(queue, t)
    BY <1>4 DEF PostReturns
  <2>2. /\ {"app", "ratchet"} \subseteq DOMAIN mem' /\ AppOK(mem'.app) /\ RatchetOK(mem'.ratchet)
        /\ mem'.app.outbox \subseteq mem.app.outbox
        /\ mem'.ratchet.sent = mem.ratchet.sent
    BY <1>1, <2>1, DeliveredFacts
  <2>3. PICK d : /\ d = Persisting([Idle EXCEPT !.role = role], mem')
                 /\ call' = [call EXCEPT ![t] = d]
    BY <2>1
  <2> DEFINE c == [Idle EXCEPT !.role = role]
  <2>4. Shaped(c) /\ c.role = role /\ ~c.detached
    BY <2>1, IdleFacts DEF Shaped, Roles
  <2> HIDE DEF c
  <2>5. /\ Shaped(d) /\ d.pc = "save" /\ d.role = role /\ ~d.detached
        /\ d.clone.app.outbox \subseteq mem.app.outbox /\ d # Idle
    <3>1. d = Persisting(c, mem')
      BY <2>3 DEF c
    <3>2. QED
      BY <2>2, <2>4, <3>1, PersistingFacts, IdleFacts
  <2>6. call'[t] = d /\ \A u \in Calls : u # t => call'[u] = call[u]
    BY <1>1, <2>3 DEF Shape
  <2>7. Shape'
    BY <1>1, <1>2, <2>2, <2>3, <2>5 DEF Shape
  <2>8. QueueOK' /\ \A u, v : Before(queue', u, v) => Before(queue, u, v) \/ v = t
    BY <1>1, <1>2, <2>1, <2>5, <2>6, QueueJoined DEF Waits
  <2>9. \A i \in Item : IsOut(i)' => IsOut(i)
    BY <1>2, <2>5, <2>6 DEF IsOut
  <2>10. phase = "ready" /\ Attached(t)
    BY <1>1, <1>2, <1>4, IdleFacts DEF Attached, AttachedReady
  <2>11. d.role # "send" /\ (d.role = "retry" => call[t].role = "retry")
    BY <2>1, <2>5
  <2>12. Generations'
    BY <1>1, <1>2, <2>2, <2>3, <2>5, <2>7, <2>8, <2>9, <2>10, <2>11, Moves DEF LogOnce
  <2>13. QED
    BY <2>7, <2>8, <2>12 DEF IInv
<1>5. QED
  BY <1>3, <1>4

\* The calls after a release: idle, or detached and as they were.
LEMMA DetachedFacts ==
    ASSUME Shape, NEW c, Shaped(c)
    PROVE  LET d == [c EXCEPT !.detached = TRUE]
           IN  /\ Shaped(d) /\ d.detached /\ d.role = c.role /\ d.pc = c.pc
               /\ d.item = c.item /\ d.payload = c.payload
  BY DEF Shaped

LEMMA PersistFailsStep ==
    ASSUME IInv, NEW t \in Calls, PersistFails(t)
    PROVE  IInv'
<1>1. Shape /\ QueueOK /\ LogOnce /\ RetryAlone
  BY DEF IInv, Generations
<1>2. /\ UNCHANGED <<log, disk, minted>> /\ queue' = Without(t)
      /\ call[t].pc \in {"save", "write"}
  BY DEF PersistFails, MaySave, MayWrite
<1>3. CASE call[t].detached
  <2>1. call' = [call EXCEPT ![t] = Idle] /\ UNCHANGED <<phase, mem>>
    BY <1>3 DEF PersistFails
  <2>2. call'[t] = Idle /\ \A u \in Calls : u # t => call'[u] = call[u]
    BY <1>1, <2>1 DEF Shape
  <2>3. Shape'
    BY <1>1, <1>2, <2>1, IdleFacts DEF Shape
  <2>4. QueueOK' /\ \A u, v : Before(queue', u, v) => Before(queue, u, v)
    BY <1>1, <1>2, <2>2, IdleFacts, QueueLeft DEF Waits
  <2>5. \A i \in Item : IsOut(i)' => IsOut(i)
    BY <1>2, <2>2, IdleFacts DEF IsOut
  <2>6. Generations'
    BY <1>1, <1>2, <2>1, <2>3, <2>4, <2>5, IdleFacts, Moves DEF LogOnce
  <2>7. QED
    BY <2>3, <2>4, <2>6 DEF IInv
<1>4. CASE ~call[t].detached
  <2>1. /\ call' = [u \in Calls |-> IF u = t \/ call[u] = Idle THEN Idle
                                    ELSE [call[u] EXCEPT !.detached = TRUE]]
        /\ phase' = IF call[t].role = "retry" THEN "absent" ELSE "broken"
        /\ mem' = NoMemory
    BY <1>4 DEF PersistFails
  <2>2. ASSUME NEW u \in Calls
        PROVE  /\ Shaped(call'[u])
               /\ u # t => (Waits(call'[u]) <=> Waits(call[u]))
               /\ \/ call'[u] = Idle
                  \/ /\ call'[u].detached /\ call'[u].role # "retry"
                     /\ call'[u].pc = call[u].pc /\ call'[u].item = call[u].item
                     /\ call'[u].payload = call[u].payload
    <3>1. Shaped(call[u]) /\ (call[u].role = "retry" => u = t)
      BY <1>1, <1>2, <1>4, IdleFacts DEF Shape, RetryAlone, Attached
    <3>2. CASE u = t \/ call[u] = Idle
      BY <2>1, <3>2, IdleFacts DEF Waits
    <3>3. CASE ~(u = t \/ call[u] = Idle)
      <4>1. call'[u] = [call[u] EXCEPT !.detached = TRUE]
        BY <2>1, <3>3
      <4>2. QED
        BY <1>1, <3>1, <3>3, <4>1, DetachedFacts DEF Waits
    <3>4. QED
      BY <3>2, <3>3
  <2>3. call'[t] = Idle
    BY <2>1
  <2>4. Shape'
    BY <1>1, <1>2, <2>1, <2>2, NoMemoryFacts DEF Shape
  <2>5. QueueOK' /\ \A u, v : Before(queue', u, v) => Before(queue, u, v)
    BY <1>1, <1>2, <2>2, <2>3, IdleFacts, QueueLeft DEF Waits
  <2>6. phase' # "ready"
    BY <2>1
  <2>7. Generations'
    BY <1>2, <2>1, <2>2, <2>4, <2>5, <2>6, Released
  <2>8. QED
    BY <2>4, <2>5, <2>7 DEF IInv
<1>5. QED
  BY <1>3, <1>4

LEMMA DestroyMemoryStep ==
    ASSUME IInv, DestroyMemory
    PROVE  IInv'
<1>1. Shape /\ QueueOK /\ LogOnce /\ RetryAlone
  BY DEF IInv, Generations
<1>2. /\ UNCHANGED <<log, queue, disk, minted>> /\ mem' = NoMemory /\ phase' # "ready"
      /\ call' = [t \in Calls |-> IF call[t] = Idle THEN Idle
                                  ELSE [call[t] EXCEPT !.detached = TRUE]]
      /\ ~Restoring
  BY DEF DestroyMemory
<1>3. ASSUME NEW u \in Calls
      PROVE  /\ Shaped(call'[u])
             /\ Waits(call'[u]) <=> Waits(call[u])
             /\ \/ call'[u] = Idle
                \/ /\ call'[u].detached /\ call'[u].role # "retry"
                   /\ call'[u].pc = call[u].pc /\ call'[u].item = call[u].item
                   /\ call'[u].payload = call[u].payload
  <2>1. Shaped(call[u]) /\ call[u].role # "retry"
    BY <1>1, <1>2 DEF Shape, RetryAlone, Attached, Restoring
  <2>2. CASE call[u] = Idle
    BY <1>2, <2>2, IdleFacts
  <2>3. CASE call[u] # Idle
    <3>1. call'[u] = [call[u] EXCEPT !.detached = TRUE]
      BY <1>2, <2>3
    <3>2. QED
      BY <1>1, <2>1, <2>3, <3>1, DetachedFacts DEF Waits
  <2>4. QED
    BY <2>2, <2>3
<1>4. Shape'
  BY <1>1, <1>2, <1>3, NoMemoryFacts DEF Shape
<1>5. QueueOK'
  BY <1>1, <1>2, <1>3, QueueKept
<1>6. Generations'
  BY <1>2, <1>3, <1>4, Released
<1>7. QED
  BY <1>4, <1>5, <1>6 DEF IInv

LEMMA CrashStep ==
    ASSUME IInv, Crash
    PROVE  IInv'
<1>1. Shape /\ QueueOK /\ LogOnce /\ RetryAlone
  BY DEF IInv, Generations
<1>2. /\ UNCHANGED <<log, disk, minted>> /\ mem' = NoMemory /\ phase' # "ready"
      /\ call' = [t \in Calls |-> Idle] /\ queue' = <<>>
  BY DEF Crash
<1>3. Shape'
  BY <1>1, <1>2, IdleFacts, NoMemoryFacts DEF Shape
<1>4. DOMAIN queue' = {} /\ queue' \in Seq(Calls)
  BY <1>2
<1>5. QueueOK' /\ \A u, v : ~Before(queue', u, v)
  BY <1>2, <1>4, IdleFacts DEF QueueOK, Once, Has, Before
<1>6. Generations'
  BY <1>2, <1>3, <1>5, Released
<1>7. QED
  BY <1>3, <1>5, <1>6 DEF IInv

LEMMA PeerPostsStep ==
    ASSUME IInv, PeerPosts
    PROVE  IInv'
<1>1. /\ Shape /\ QueueOK /\ GenOnce /\ LogOnce /\ ReadyAhead /\ StatesCover
      /\ InOrder /\ AttachedReady /\ SendCovered /\ RetryAlone
  BY DEF IInv, Generations
<1>2. UNCHANGED <<phase, mem, call, queue, disk, minted>>
  BY DEF PeerPosts
<1> DEFINE posts == {p \in Positions : log[p].from = Peer}
           e == [from |-> Peer, gen |-> Cardinality(posts) + 1, token |-> 0]
<1>3. e \in Envelope /\ e.from # Self
  <2>1. DOMAIN log = 1 .. Len(log) /\ Len(log) \in Nat
    BY <1>1 DEF Shape
  <2>2. IsFiniteSet(1 .. Len(log))
    BY <2>1, FS_Interval
  <2>3. posts \subseteq 1 .. Len(log)
    BY <2>1 DEF Positions
  <2>4. Cardinality(posts) \in Nat
    BY <2>2, <2>3, FS_Subset, FS_CardinalityType
  <2>5. QED
    BY <2>4 DEF Envelope, Self, Peer
<1>4. log' = Append(log, e)
  BY DEF PeerPosts
<1> HIDE DEF e
<1>5. /\ log' \in Seq(Envelope) /\ DOMAIN log' = 1 .. Len(log) + 1 /\ DOMAIN log = 1 .. Len(log)
      /\ Len(log) \in Nat /\ \A p \in DOMAIN log : log'[p] = log[p]
      /\ log'[Len(log) + 1].from # Self
  BY <1>1, <1>3, <1>4 DEF Shape
<1>6. \A p \in DOMAIN log' : log'[p].from = Self => p \in DOMAIN log /\ log'[p] = log[p]
  BY <1>5
<1>7. Shape' /\ QueueOK' /\ LogOnce'
  BY <1>1, <1>2, <1>5, <1>6 DEF Shape, QueueOK, LogOnce
<1>8. \A i \in Item : IsOut(i)' => IsOut(i)
  BY <1>2, <1>6 DEF IsOut
<1>9. \A u \in Calls : (Exported(u)' <=> Exported(u)) /\ (Attached(u)' <=> Attached(u))
  BY <1>2 DEF Exported, Attached
<1>10. \A i \in Item : Held(i)' => Held(i)
  BY <1>2, <1>8, <1>9 DEF Held
<1>11. mem.ratchet.sent <= mem'.ratchet.sent
  BY <1>1, <1>2 DEF Shape, RatchetOK
<1>12. GenOnce' /\ ReadyAhead' /\ StatesCover' /\ InOrder'
  BY <1>2, <1>7, <1>8, <1>9, <1>10, <1>11, Quiet
<1>13. AttachedReady' /\ SendCovered' /\ RetryAlone'
  BY <1>1, <1>2, <1>9 DEF AttachedReady, SendCovered, RetryAlone
<1>14. QED
  BY <1>7, <1>12, <1>13 DEF IInv, Generations

\* sendEvent: the new item is made at a generation past all that is held.
LEMMA BeginSendStep ==
    ASSUME IInv, NEW t \in Calls, BeginSend(t)
    PROVE  IInv'
<1>1. /\ Shape /\ QueueOK /\ GenOnce /\ LogOnce /\ ReadyAhead /\ StatesCover
      /\ InOrder /\ AttachedReady /\ SendCovered /\ RetryAlone
  BY DEF IInv, Generations
<1>2. /\ UNCHANGED <<log, phase, disk>> /\ phase = "ready" /\ ~Restoring /\ call[t] = Idle
      /\ minted' = minted + 1 /\ queue' = Append(queue, t)
  BY DEF BeginSend, MayBegin
<1> DEFINE item == [token |-> minted + 1, gen |-> mem.ratchet.sent + 1]
           c == [Idle EXCEPT !.role = "send", !.item = item]
           d == Persisting(c, mem')
<1>3. /\ mem' = [mem EXCEPT !.ratchet.sent = @ + 1, !.app.outbox = @ \union {item}]
      /\ call' = [call EXCEPT ![t] = d]
  BY DEF BeginSend
<1>4. mem.ratchet.sent \in Nat /\ minted \in Nat
  BY <1>1 DEF Shape, RatchetOK
<1>5. item \in Item /\ item.gen = mem.ratchet.sent + 1
  BY <1>4 DEF Item
<1> HIDE DEF item
<1>6. /\ {"app", "ratchet"} \subseteq DOMAIN mem' /\ AppOK(mem'.app) /\ RatchetOK(mem'.ratchet)
      /\ mem'.app.outbox = mem.app.outbox \union {item}
      /\ mem'.ratchet.sent = mem.ratchet.sent + 1
  BY <1>1, <1>3, <1>5 DEF Shape, AppOK, RatchetOK
<1>7. Shaped(c) /\ c.role = "send" /\ c.item = item /\ ~c.detached
  BY <1>5, IdleFacts DEF Shaped, Roles
<1> HIDE DEF c
<1>8. /\ Shaped(d) /\ d.pc = "save" /\ d.role = "send" /\ d.item = item /\ ~d.detached
      /\ d.clone.app.outbox = mem.app.outbox \union {item}
  BY <1>6, <1>7, PersistingFacts
<1> HIDE DEF d
<1>9. call'[t] = d /\ \A u \in Calls : u # t => call'[u] = call[u]
  BY <1>1, <1>3 DEF Shape
<1>10. Shape'
  BY <1>1, <1>2, <1>3, <1>4, <1>6, <1>8 DEF Shape
<1>11. QueueOK' /\ \A u, v : Before(queue', u, v) => Before(queue, u, v) \/ v = t
  BY <1>1, <1>2, <1>8, <1>9, IdleFacts, QueueJoined DEF Waits
<1>12. \A i \in Item : IsOut(i)' => IsOut(i)
  BY <1>2, <1>8, <1>9 DEF IsOut
<1>13. \A u \in Calls : Exported(u)' => Exported(u) /\ call'[u] = call[u] /\ u # t
  BY <1>8, <1>9 DEF Exported
<1>14. \A u \in Calls : u # t => (Attached(u)' <=> Attached(u))
  BY <1>9 DEF Attached
<1>15. ASSUME NEW i \in Item, Held(i)', i # item PROVE Held(i)
  <2>1. CASE IsOut(i)'
    BY <1>12, <2>1 DEF Held
  <2>2. CASE i \in mem'.app.outbox
    BY <1>6, <1>15, <2>2 DEF Held
  <2>3. CASE \E u \in Calls : /\ Attached(u)' /\ call'[u].pc = "save"
                              /\ i \in call'[u].clone.app.outbox
    <3>1. PICK u \in Calls : /\ Attached(u)' /\ call'[u].pc = "save"
                             /\ i \in call'[u].clone.app.outbox
      BY <2>3
    <3>2. CASE u = t
      BY <1>8, <1>9, <1>15, <3>1, <3>2 DEF Held
    <3>3. CASE u # t
      BY <1>9, <1>14, <3>1, <3>3 DEF Held
    <3>4. QED
      BY <3>2, <3>3
  <2>4. CASE \E u \in Calls : Exported(u)' /\ i \in call'[u].payload.app.outbox
    BY <1>13, <2>4 DEF Held
  <2>5. CASE disk'.state.identity /\ i \in disk'.state.app.outbox
    BY <1>2, <2>5 DEF Held
  <2>6. QED
    BY <1>15, <2>1, <2>2, <2>3, <2>4, <2>5 DEF Held
<1>16. \A i \in Item : Held(i)' => i = item \/ (Held(i) /\ i.gen <= mem.ratchet.sent)
  BY <1>1, <1>2, <1>15 DEF ReadyAhead
<1>17. \A i \in Item : i.gen \in Nat
  BY DEF Item
<1>18. GenOnce'
  <2> SUFFICES ASSUME NEW i \in Item, NEW j \in Item, Held(i)', Held(j)', i.gen = j.gen
               PROVE  i = j
    BY DEF GenOnce
  <2>1. CASE i = item
    BY <1>4, <1>5, <1>16, <1>17, <2>1
  <2>2. CASE j = item
    BY <1>4, <1>5, <1>16, <1>17, <2>2
  <2>3. CASE i # item /\ j # item
    BY <1>1, <1>16, <2>3 DEF GenOnce
  <2>4. QED
    BY <2>1, <2>2, <2>3
<1>19. ReadyAhead'
  <2>1. ASSUME NEW i \in Item, Held(i)' PROVE i.gen <= mem'.ratchet.sent
    BY <1>4, <1>5, <1>6, <1>16, <1>17, <2>1
  <2>2. ASSUME NEW u \in Calls, Exported(u)'
        PROVE  call'[u].payload.ratchet.sent <= mem'.ratchet.sent
    <3>1. call'[u] = call[u] /\ call[u].payload.ratchet.sent <= mem.ratchet.sent
      BY <1>1, <1>2, <1>13, <2>2 DEF ReadyAhead
    <3>2. call[u].payload.ratchet.sent \in Nat
      BY <1>1 DEF Shape, Shaped, StateOK, RatchetOK
    <3>3. QED
      BY <1>4, <1>6, <3>1, <3>2
  <2>3. QED
    BY <2>1, <2>2 DEF ReadyAhead
<1>20. StatesCover' /\ InOrder'
  BY <1>1, <1>2, <1>11, <1>12, <1>13 DEF StatesCover, Covers, InOrder
<1>21. AttachedReady'
  <2> SUFFICES ASSUME NEW u \in Calls, Attached(u)'
               PROVE  phase' = "ready" /\ (call'[u].pc = "write" => call'[u].payload.identity)
    BY DEF AttachedReady
  <2>1. CASE u = t
    BY <1>2, <1>8, <1>9, <2>1
  <2>2. CASE u # t
    BY <1>1, <1>2, <1>9, <1>14, <2>2 DEF AttachedReady
  <2>3. QED
    BY <2>1, <2>2
<1>22. SendCovered'
  <2> SUFFICES ASSUME NEW u \in Calls, Attached(u)', call'[u].role = "send"
               PROVE  /\ call'[u].pc = "save" => call'[u].item.gen <= mem'.ratchet.sent
                      /\ call'[u].pc = "write" =>
                            call'[u].item.gen <= call'[u].payload.ratchet.sent
    BY DEF SendCovered
  <2>1. CASE u = t
    BY <1>4, <1>5, <1>6, <1>8, <1>9, <2>1
  <2>2. CASE u # t
    <3>1. Attached(u) /\ call[u].role = "send" /\ call'[u] = call[u] /\ call[u].item.gen \in Nat
      BY <1>1, <1>9, <1>14, <2>2 DEF Shape, Shaped, Item
    <3>2. QED
      BY <1>1, <1>4, <1>6, <3>1 DEF SendCovered
  <2>3. QED
    BY <2>1, <2>2
<1>23. RetryAlone'
  <2>1. \A u \in Calls : call[u].role # "retry"
    BY <1>1, <1>2 DEF RetryAlone, Restoring, Attached
  <2>2. \A u \in Calls : call'[u].role # "retry"
    BY <1>8, <1>9, <2>1
  <2>3. QED
    BY <2>2 DEF RetryAlone
<1>24. LogOnce'
  BY <1>1, <1>2 DEF LogOnce
<1>25. QED
  BY <1>10, <1>11, <1>18, <1>19, <1>20, <1>21, <1>22, <1>23, <1>24 DEF IInv, Generations

\* persist: the state exported takes the ratchet as it is now, past all items.
LEMMA SaveDoneStep ==
    ASSUME IInv, NEW t \in Calls, SaveDone(t)
    PROVE  IInv'
<1>1. /\ Shape /\ QueueOK /\ GenOnce /\ LogOnce /\ ReadyAhead /\ StatesCover
      /\ InOrder /\ AttachedReady /\ SendCovered /\ RetryAlone
  BY DEF IInv, Generations
<1>2. /\ UNCHANGED <<log, phase, mem, minted>> /\ call[t].pc = "save" /\ Shaped(call[t])
      /\ queue' = Append(Without(t), t)
  BY <1>1 DEF SaveDone, MaySave, Shape
<1>3. disk'.state = disk.state /\ DOMAIN disk' = DOMAIN disk
  BY <1>1 DEF SaveDone, Shape
<1> DEFINE s == [identity |-> ~call[t].detached,
                 app |-> call[t].clone.app,
                 ratchet |-> IF call[t].detached THEN NoRatchet ELSE mem.ratchet]
           d == [call[t] EXCEPT !.pc = "write", !.clone = NoClone, !.payload = s]
<1>4. call' = [call EXCEPT ![t] = d]
  <2>1. call' = [call EXCEPT ![t].pc = "write", ![t].clone = NoClone, ![t].payload = s]
    BY DEF SaveDone
  <2>2. QED
    BY <1>1, <1>2, <2>1 DEF Shape, Shaped
<1>5. StateOK(s) /\ AppOK(s.app)
  BY <1>1, <1>2 DEF StateOK, Shape, Shaped, NoRatchet, RatchetOK
<1>6. AppOK(NoClone.app)
  BY DEF NoClone, NoApplication, AppOK, Item
<1>7. s.identity = ~call[t].detached /\ s.app.outbox = call[t].clone.app.outbox
      /\ (~call[t].detached => s.ratchet.sent = mem.ratchet.sent)
  OBVIOUS
<1> HIDE DEF s
<1>8. /\ Shaped(d) /\ d.pc = "write" /\ d.role = call[t].role /\ d.item = call[t].item
      /\ d.detached = call[t].detached /\ d.payload = s
  BY <1>2, <1>5, <1>6 DEF Shaped, Stages
<1> HIDE DEF d
<1>9. call'[t] = d /\ \A u \in Calls : u # t => call'[u] = call[u]
  BY <1>1, <1>4 DEF Shape
<1>10. Shape'
  BY <1>1, <1>2, <1>3, <1>4, <1>8 DEF Shape
<1>11. QueueOK' /\ \A u, v : Before(queue', u, v) => u # t /\ (Before(queue, u, v) \/ v = t)
  BY <1>1, <1>2, <1>8, <1>9, QueueMoved DEF Waits
<1>12. call[t] # Idle /\ d # Idle
  BY <1>2, <1>8, IdleFacts
<1>13. Attached(t) <=> ~call[t].detached
  BY <1>12 DEF Attached
<1>14. \A u \in Calls : Attached(u)' <=> Attached(u)
  BY <1>8, <1>9, <1>12 DEF Attached
<1>15. \A i \in Item : IsOut(i)' => IsOut(i)
  BY <1>2, <1>8, <1>9 DEF IsOut
<1>16. /\ Exported(t)' => Attached(t)
       /\ \A u \in Calls : u # t /\ Exported(u)' => Exported(u) /\ call'[u] = call[u]
  BY <1>7, <1>8, <1>9, <1>13 DEF Exported
<1>17. ASSUME NEW i \in Item, Held(i)' PROVE Held(i)
  <2>1. CASE IsOut(i)'
    BY <1>15, <2>1 DEF Held
  <2>2. CASE i \in mem'.app.outbox
    BY <1>2, <2>2 DEF Held
  <2>3. CASE \E u \in Calls : /\ Attached(u)' /\ call'[u].pc = "save"
                              /\ i \in call'[u].clone.app.outbox
    BY <1>8, <1>9, <1>14, <2>3 DEF Held
  <2>4. CASE \E u \in Calls : Exported(u)' /\ i \in call'[u].payload.app.outbox
    <3>1. PICK u \in Calls : Exported(u)' /\ i \in call'[u].payload.app.outbox
      BY <2>4
    <3>2. CASE u = t
      BY <1>2, <1>7, <1>8, <1>9, <1>16, <3>1, <3>2 DEF Held
    <3>3. CASE u # t
      BY <1>16, <3>1, <3>3 DEF Held
    <3>4. QED
      BY <3>2, <3>3
  <2>5. CASE disk'.state.identity /\ i \in disk'.state.app.outbox
    BY <1>3, <2>5 DEF Held
  <2>6. QED
    BY <1>17, <2>1, <2>2, <2>3, <2>4, <2>5 DEF Held
<1>18. mem.ratchet.sent \in Nat
  BY <1>1 DEF Shape, RatchetOK
\* What t exports, if it may be written, is past all that is held.
<1>19. ASSUME Exported(t)'
       PROVE  /\ phase = "ready" /\ call'[t].payload.ratchet.sent = mem.ratchet.sent
              /\ \A i \in Item : Held(i) => i.gen <= call'[t].payload.ratchet.sent
  <2>1. Attached(t) /\ phase = "ready"
    BY <1>1, <1>16, <1>19 DEF AttachedReady
  <2>2. QED
    BY <1>1, <1>7, <1>8, <1>9, <1>13, <2>1 DEF ReadyAhead
<1>20. GenOnce'
  BY <1>1, <1>17 DEF GenOnce
<1>21. ReadyAhead'
  <2>1. \A u \in Calls : phase = "ready" /\ Exported(u)' =>
            call'[u].payload.ratchet.sent <= mem.ratchet.sent
    BY <1>1, <1>16, <1>18, <1>19 DEF ReadyAhead
  <2>2. QED
    BY <1>1, <1>2, <1>17, <2>1 DEF ReadyAhead
<1>22. StatesCover'
  <2>1. disk'.state.identity => Covers(disk.state)'
    BY <1>1, <1>3, <1>15 DEF StatesCover, Covers
  <2>2. ASSUME NEW u \in Calls, Exported(u)' PROVE Covers(call[u].payload)'
    <3>1. CASE u = t
      <4>1. \A i \in call'[t].payload.app.outbox : Held(i)
        BY <1>2, <1>7, <1>8, <1>9, <1>16, <2>2, <3>1 DEF Held
      <4>2. \A i \in Item : IsOut(i)' => Held(i)
        BY <1>15 DEF Held
      <4>3. QED
        BY <1>19, <2>2, <3>1, <4>1, <4>2 DEF Covers
    <3>2. CASE u # t
      BY <1>1, <1>15, <1>16, <2>2, <3>2 DEF StatesCover, Covers
    <3>3. QED
      BY <3>1, <3>2
  <2>3. QED
    BY <2>1, <2>2 DEF StatesCover
<1>23. InOrder'
  <2> SUFFICES ASSUME NEW u \in Calls, NEW v \in Calls,
                      Before(queue', u, v), Exported(u)', Exported(v)'
               PROVE  call'[u].payload.ratchet.sent <= call'[v].payload.ratchet.sent
    BY DEF InOrder
  <2>1. u # t /\ (Before(queue, u, v) \/ v = t) /\ Exported(u) /\ call'[u] = call[u]
    BY <1>11, <1>16
  <2>2. CASE v = t
    BY <1>1, <1>19, <2>1, <2>2 DEF ReadyAhead
  <2>3. CASE v # t
    BY <1>1, <1>16, <2>1, <2>3 DEF InOrder
  <2>4. QED
    BY <2>2, <2>3
<1>24. AttachedReady'
  <2> SUFFICES ASSUME NEW u \in Calls, Attached(u)'
               PROVE  phase' = "ready" /\ (call'[u].pc = "write" => call'[u].payload.identity)
    BY DEF AttachedReady
  <2>1. CASE u = t
    BY <1>1, <1>2, <1>7, <1>8, <1>9, <1>13, <1>14, <2>1 DEF AttachedReady
  <2>2. CASE u # t
    BY <1>1, <1>2, <1>9, <1>14, <2>2 DEF AttachedReady
  <2>3. QED
    BY <2>1, <2>2
<1>25. SendCovered'
  <2> SUFFICES ASSUME NEW u \in Calls, Attached(u)', call'[u].role = "send"
               PROVE  /\ call'[u].pc = "save" => call'[u].item.gen <= mem'.ratchet.sent
                      /\ call'[u].pc = "write" =>
                            call'[u].item.gen <= call'[u].payload.ratchet.sent
    BY DEF SendCovered
  <2>1. CASE u = t
    BY <1>1, <1>2, <1>7, <1>8, <1>9, <1>13, <1>14, <2>1 DEF SendCovered
  <2>2. CASE u # t
    BY <1>1, <1>2, <1>9, <1>14, <2>2 DEF SendCovered
  <2>3. QED
    BY <2>1, <2>2
<1>26. RetryAlone'
  <2> SUFFICES ASSUME NEW u \in Calls, call'[u].role = "retry" PROVE RetryAlone!(u)'
    BY DEF RetryAlone
  <2>1. call[u].role = "retry"
    BY <1>8, <1>9
  <2>2. Attached(u)' /\ \A v \in Calls : Attached(v)' => v = u
    BY <1>1, <1>14, <2>1 DEF RetryAlone
  <2>3. disk'.state.identity => \A i \in mem'.app.outbox : i.gen <= disk'.state.ratchet.sent
    BY <1>1, <1>2, <1>3, <2>1 DEF RetryAlone
  <2>4. \A i \in mem.app.outbox : i \in Item /\ Held(i)
    BY <1>1 DEF Shape, AppOK, Held
  <2>5. \A v \in Calls : Exported(v)' =>
            \A i \in mem'.app.outbox : i.gen <= call'[v].payload.ratchet.sent
    BY <1>1, <1>2, <1>16, <1>19, <2>1, <2>4 DEF RetryAlone
  <2>6. QED
    BY <2>2, <2>3, <2>5
<1>27. LogOnce'
  BY <1>1, <1>2 DEF LogOnce
<1>28. QED
  BY <1>10, <1>11, <1>20, <1>21, <1>22, <1>23, <1>24, <1>25, <1>26, <1>27
     DEF IInv, Generations

\* The write done is the oldest one issued.
LEMMA WritesInOrder ==
    ASSUME Shape, QueueOK, NEW t \in Calls, MayWrite(t),
           NEW u \in Calls, u # t, call[u].pc = "write"
    PROVE  Before(queue, t, u)
<1>1. At(t) \in DOMAIN queue /\ queue[At(t)] = t
  BY WithoutFacts DEF MayWrite
<1>2. PICK j \in DOMAIN queue : queue[j] = u
  BY DEF QueueOK, Has
<1>3. DOMAIN queue = 1 .. Len(queue) /\ Len(queue) \in Nat
  BY DEF QueueOK, Once
<1>4. \A i \in 1 .. At(t) - 1 : call[queue[i]].pc # "write"
  BY DEF MayWrite
<1> HIDE DEF At
<1>5. At(t) < j
  BY <1>1, <1>2, <1>3, <1>4
<1>6. QED
  BY <1>1, <1>2, <1>5 DEF Before

\* persist: the state written covers what the call, a send or a retry, is to
\* post next; and so do the states still to be written.
LEMMA StateWrittenStep ==
    ASSUME IInv, NEW t \in Calls, StateWritten(t)
    PROVE  IInv'
<1>1. /\ Shape /\ QueueOK /\ GenOnce /\ LogOnce /\ ReadyAhead /\ StatesCover
      /\ InOrder /\ AttachedReady /\ SendCovered /\ RetryAlone
  BY DEF IInv, Generations
<1>2. /\ UNCHANGED <<log, phase, minted>> /\ MayWrite(t) /\ call[t].pc = "write"
      /\ Shaped(call[t]) /\ queue' = Without(t)
  BY <1>1 DEF StateWritten, MayWrite, Shape
<1>3. disk'.state = call[t].payload /\ DOMAIN disk' = DOMAIN disk
  BY <1>1 DEF StateWritten, Shape
<1>4. /\ {"app", "ratchet"} \subseteq DOMAIN mem'
      /\ mem'.app = mem.app /\ mem'.ratchet = mem.ratchet
  BY <1>1 DEF StateWritten, Shape
<1> DEFINE d == Continued(call[t])
<1>5. call' = [call EXCEPT ![t] = d]
  BY DEF StateWritten
<1>6. /\ Shaped(d)
      /\ \/ d = Idle
         \/ d.pc = "fetch" /\ d.role = "sync" /\ d.detached = call[t].detached
         \/ /\ d.pc = "post" /\ ~d.detached /\ ~call[t].detached
            /\ d.role = call[t].role /\ d.item \in mem.app.outbox
            /\ d.role = "send" => d.item = call[t].item
            /\ d.role \in {"send", "retry"}
  BY <1>1, <1>2, ContinuedFacts
<1> HIDE DEF d
<1>7. call'[t] = d /\ \A u \in Calls : u # t => call'[u] = call[u]
  BY <1>1, <1>5 DEF Shape
<1>8. call[t] # Idle
  BY <1>2, IdleFacts
<1>9. d.pc \in {"idle", "fetch", "post"} /\ (d # Idle /\ ~d.detached => Attached(t))
  BY <1>6, <1>8, IdleFacts DEF Attached
<1>10. Shape'
  BY <1>1, <1>2, <1>3, <1>4, <1>5, <1>6 DEF Shape, Shaped
<1>11. QueueOK' /\ \A u, v : Before(queue', u, v) => Before(queue, u, v)
  BY <1>1, <1>2, <1>7, <1>9, QueueLeft DEF Waits
<1>12. \A u \in Calls : u # t => (Attached(u)' <=> Attached(u))
  BY <1>7 DEF Attached
<1>13. Attached(t)' => Attached(t)
  BY <1>7, <1>9 DEF Attached
<1>14. \A u \in Calls : Exported(u)' => Exported(u) /\ call'[u] = call[u] /\ u # t
  BY <1>7, <1>9 DEF Exported
<1>15. Exported(t) <=> call[t].payload.identity
  BY <1>2 DEF Exported
\* The item posted next: where it comes from, and who covers it.
<1>16. ASSUME d.pc = "post"
       PROVE  /\ d.item \in mem.app.outbox /\ d.item \in Item /\ d.item.gen \in Nat
              /\ \A u \in Calls : Exported(u) => d.item.gen <= call[u].payload.ratchet.sent
  <2>1. /\ d.item \in mem.app.outbox /\ Attached(t) /\ d.role = call[t].role
        /\ d.role = "send" => d.item = call[t].item
        /\ d.role \in {"send", "retry"}
    BY <1>6, <1>8, <1>16, IdleFacts DEF Attached
  <2>2. d.item \in Item /\ d.item.gen \in Nat
    BY <1>1, <2>1 DEF Shape, AppOK, Item
  <2>3. Exported(t)
    BY <1>1, <1>2, <2>1 DEF AttachedReady, Exported
  <2>4. CASE d.role = "retry"
    BY <1>1, <2>1, <2>2, <2>4 DEF RetryAlone
  <2>5. CASE d.role = "send"
    <3>1. d.item.gen <= call[t].payload.ratchet.sent
      BY <1>1, <1>2, <2>1, <2>5 DEF SendCovered
    <3>2. ASSUME NEW u \in Calls, Exported(u), u # t
          PROVE  call[t].payload.ratchet.sent <= call[u].payload.ratchet.sent
      <4>1. Before(queue, t, u)
        BY <1>1, <1>2, <3>2, WritesInOrder DEF Exported
      <4>2. QED
        BY <1>1, <2>3, <3>2, <4>1 DEF InOrder
    <3>3. \A u \in Calls : call[u].payload.ratchet.sent \in Nat
      BY <1>1 DEF Shape, Shaped, StateOK, RatchetOK
    <3>4. QED
      BY <2>1, <2>2, <3>1, <3>2, <3>3
  <2>6. QED
    BY <2>1, <2>2, <2>4, <2>5
<1>17. ASSUME NEW i \in Item, IsOut(i)'
       PROVE  IsOut(i) \/ (d.pc = "post" /\ i = d.item)
  <2>1. CASE \E p \in DOMAIN log' :
                log'[p].from = Self /\ i.token = log'[p].token /\ i.gen = log'[p].gen
    BY <1>2, <2>1 DEF IsOut
  <2>2. CASE \E u \in Calls : call'[u].pc \in {"post", "posted"} /\ i = call'[u].item
    BY <1>7, <1>9, <2>2 DEF IsOut
  <2>3. QED
    BY <1>17, <2>1, <2>2 DEF IsOut
<1>18. ASSUME NEW i \in Item, Held(i)' PROVE Held(i)
  <2>1. CASE IsOut(i)'
    BY <1>16, <1>17, <2>1 DEF Held
  <2>2. CASE i \in mem'.app.outbox
    BY <1>4, <2>2 DEF Held
  <2>3. CASE \E u \in Calls : /\ Attached(u)' /\ call'[u].pc = "save"
                              /\ i \in call'[u].clone.app.outbox
    BY <1>7, <1>9, <1>12, <2>3 DEF Held
  <2>4. CASE \E u \in Calls : Exported(u)' /\ i \in call'[u].payload.app.outbox
    BY <1>14, <2>4 DEF Held
  <2>5. CASE disk'.state.identity /\ i \in disk'.state.app.outbox
    BY <1>3, <1>15, <2>5 DEF Held
  <2>6. QED
    BY <1>18, <2>1, <2>2, <2>3, <2>4, <2>5 DEF Held
<1>19. GenOnce' /\ LogOnce'
  BY <1>1, <1>2, <1>18 DEF GenOnce, LogOnce
<1>20. ReadyAhead'
  BY <1>1, <1>2, <1>4, <1>14, <1>18 DEF ReadyAhead
<1>21. ASSUME NEW u \in Calls, Exported(u), NEW i \in Item,
              IsOut(i)' \/ i \in call[u].payload.app.outbox
       PROVE  i.gen <= call[u].payload.ratchet.sent
  <2>1. CASE d.pc = "post" /\ i = d.item
    BY <1>16, <1>21, <2>1
  <2>2. CASE IsOut(i) \/ i \in call[u].payload.app.outbox
    BY <1>1, <1>21, <2>2 DEF StatesCover, Covers
  <2>3. QED
    BY <1>17, <1>21, <2>1, <2>2
<1>22. StatesCover'
  BY <1>3, <1>14, <1>15, <1>21 DEF StatesCover, Covers
<1>23. InOrder'
  BY <1>1, <1>11, <1>14 DEF InOrder
<1>24. AttachedReady'
  <2> SUFFICES ASSUME NEW u \in Calls, Attached(u)'
               PROVE  phase' = "ready" /\ (call'[u].pc = "write" => call'[u].payload.identity)
    BY DEF AttachedReady
  <2>1. CASE u = t
    BY <1>1, <1>2, <1>7, <1>9, <1>13, <2>1 DEF AttachedReady
  <2>2. CASE u # t
    BY <1>1, <1>2, <1>7, <1>12, <2>2 DEF AttachedReady
  <2>3. QED
    BY <2>1, <2>2
<1>25. SendCovered'
  <2> SUFFICES ASSUME NEW u \in Calls, Attached(u)', call'[u].role = "send"
               PROVE  /\ call'[u].pc = "save" => call'[u].item.gen <= mem'.ratchet.sent
                      /\ call'[u].pc = "write" =>
                            call'[u].item.gen <= call'[u].payload.ratchet.sent
    BY DEF SendCovered
  <2>1. CASE u = t
    BY <1>7, <1>9, <2>1
  <2>2. CASE u # t
    BY <1>1, <1>4, <1>7, <1>12, <2>2 DEF SendCovered
  <2>3. QED
    BY <2>1, <2>2
<1>26. RetryAlone'
  <2> SUFFICES ASSUME NEW u \in Calls, call'[u].role = "retry" PROVE RetryAlone!(u)'
    BY DEF RetryAlone
  <2>1. call[u].role = "retry" /\ Attached(u)'
    <3>1. CASE u = t
      <4>1. d.role = "retry" /\ d # Idle
        BY <1>7, <3>1, IdleFacts
      <4>2. call[t].role = "retry" /\ ~d.detached
        BY <1>6, <4>1
      <4>3. QED
        BY <1>7, <3>1, <4>1, <4>2 DEF Attached
    <3>2. CASE u # t
      BY <1>1, <1>7, <1>12, <3>2 DEF RetryAlone
    <3>3. QED
      BY <3>1, <3>2
  <2>2. \A v \in Calls : Attached(v)' => v = u
    BY <1>1, <1>12, <1>13, <2>1 DEF RetryAlone
  <2>3. disk'.state.identity => \A i \in mem'.app.outbox : i.gen <= disk'.state.ratchet.sent
    BY <1>1, <1>3, <1>4, <1>15, <2>1 DEF RetryAlone
  <2>4. \A v \in Calls : Exported(v)' =>
            \A i \in mem'.app.outbox : i.gen <= call'[v].payload.ratchet.sent
    BY <1>1, <1>4, <1>14, <2>1 DEF RetryAlone
  <2>5. QED
    BY <2>1, <2>2, <2>3, <2>4
<1>27. QED
  BY <1>10, <1>11, <1>19, <1>20, <1>22, <1>23, <1>24, <1>25, <1>26 DEF IInv, Generations

\* restore: no state is being written, so the one read back is past all that
\* was posted, and past the outbox it brings back.
LEMMA RestoreStep ==
    ASSUME IInv, NEW t \in Calls, Restore(t)
    PROVE  IInv'
<1>1. /\ Shape /\ QueueOK /\ GenOnce /\ LogOnce /\ ReadyAhead /\ StatesCover
      /\ InOrder /\ AttachedReady /\ SendCovered /\ RetryAlone
  BY DEF IInv, Generations
<1>2. /\ UNCHANGED <<log, disk, minted>> /\ phase = "absent" /\ phase' = "ready"
      /\ call[t] = Idle /\ disk.state.identity /\ \A u \in Calls : call[u].pc # "write"
      /\ mem' = Restored
  BY DEF Restore
<1>3. /\ {"app", "ratchet"} \subseteq DOMAIN mem' /\ AppOK(mem'.app) /\ RatchetOK(mem'.ratchet)
      /\ mem'.app.outbox = disk.state.app.outbox
      /\ mem'.ratchet.sent = disk.state.ratchet.sent
      /\ mem'.app.outbox \in SUBSET Item
  BY <1>1, <1>2 DEF Restored, Shape, StateOK, AppOK
<1> DEFINE retry == [Idle EXCEPT !.role = "retry"]
<1>4. Shaped(retry) /\ retry.role = "retry" /\ ~retry.detached
  BY IdleFacts DEF Shaped, Roles
<1>5. PICK d :
        /\ call' = [call EXCEPT ![t] = d]
        /\ \/ d = Persisting(retry, mem') /\ queue' = Append(queue, t)
           \/ d = NextRetry(mem'.app.outbox) /\ queue' = queue
  BY DEF Restore
<1> HIDE DEF retry
<1>6. /\ Shaped(d)
      /\ \/ /\ d.pc = "save" /\ d.role = "retry" /\ ~d.detached
            /\ d.clone.app.outbox = mem'.app.outbox
            /\ queue' = Append(queue, t)
         \/ d = Idle /\ queue' = queue
         \/ /\ d.pc = "post" /\ d.role = "retry" /\ ~d.detached /\ d.item \in mem'.app.outbox
            /\ queue' = queue
  BY <1>3, <1>4, <1>5, PersistingFacts, NextRetryFacts
<1>7. call'[t] = d /\ \A u \in Calls : u # t => call'[u] = call[u]
  BY <1>1, <1>5 DEF Shape
<1>8. Shape'
  BY <1>1, <1>2, <1>3, <1>5, <1>6 DEF Shape
<1>9. QueueOK'
  <2>1. CASE d.pc = "save" /\ queue' = Append(queue, t)
    BY <1>1, <1>2, <1>7, <2>1, IdleFacts, QueueJoined DEF Waits
  <2>2. CASE d.pc \in {"idle", "post"} /\ queue' = queue
    BY <1>1, <1>2, <1>7, <2>2, IdleFacts, QueueKept DEF Waits
  <2>3. QED
    BY <1>6, <2>1, <2>2, IdleFacts
<1>10. \A u \in Calls : ~Attached(u) /\ ~Exported(u) /\ ~Exported(u)' /\ call[u].role # "retry"
  BY <1>1, <1>2, <1>6, <1>7, IdleFacts DEF AttachedReady, Exported, RetryAlone
<1>11. \A u \in Calls : Attached(u)' => u = t
  BY <1>7, <1>10 DEF Attached
<1>12. \A i \in Item : IsOut(i)' => IsOut(i) \/ i \in disk.state.app.outbox
  BY <1>2, <1>3, <1>6, <1>7, IdleFacts DEF IsOut
<1>13. ASSUME NEW i \in Item, Held(i)' PROVE IsOut(i) \/ i \in disk.state.app.outbox
  <2>1. CASE IsOut(i)'
    BY <1>12, <2>1
  <2>2. CASE \E u \in Calls : /\ Attached(u)' /\ call'[u].pc = "save"
                              /\ i \in call'[u].clone.app.outbox
    BY <1>3, <1>6, <1>7, <1>11, <2>2, IdleFacts
  <2>3. CASE i \in mem'.app.outbox \/ i \in disk'.state.app.outbox
    BY <1>2, <1>3, <2>3
  <2>4. QED
    BY <1>10, <1>13, <2>1, <2>2, <2>3 DEF Held
<1>14. \A i \in Item : IsOut(i) \/ i \in disk.state.app.outbox =>
            Held(i) /\ i.gen <= disk.state.ratchet.sent
  BY <1>1, <1>2 DEF Held, StatesCover, Covers
<1>15. GenOnce' /\ LogOnce'
  BY <1>1, <1>2, <1>13, <1>14 DEF GenOnce, LogOnce
<1>16. ReadyAhead'
  BY <1>3, <1>10, <1>13, <1>14 DEF ReadyAhead
<1>17. StatesCover'
  BY <1>2, <1>10, <1>12, <1>14 DEF StatesCover, Covers
<1>18. InOrder' /\ AttachedReady' /\ SendCovered'
  <2>1. d.pc # "write" /\ d.role # "send"
    BY <1>6, IdleFacts
  <2>2. QED
    BY <1>2, <1>7, <1>10, <1>11, <2>1 DEF InOrder, AttachedReady, SendCovered
<1>19. RetryAlone'
  <2> SUFFICES ASSUME NEW u \in Calls, call'[u].role = "retry" PROVE RetryAlone!(u)'
    BY DEF RetryAlone
  <2>1. u = t /\ d.role = "retry" /\ ~d.detached /\ d # Idle
    BY <1>6, <1>7, <1>10, IdleFacts
  <2>2. Attached(u)' /\ \A v \in Calls : Attached(v)' => v = u
    BY <1>7, <1>11, <2>1 DEF Attached
  <2>3. \A i \in mem'.app.outbox : i.gen <= disk'.state.ratchet.sent
    BY <1>2, <1>3, <1>14
  <2>4. QED
    BY <1>10, <2>2, <2>3
<1>20. QED
  BY <1>8, <1>9, <1>15, <1>16, <1>17, <1>18, <1>19 DEF IInv, Generations
-----------------------------------------------------------------------------
LEMMA InitIInv == Init => IInv
<1> SUFFICES ASSUME Init PROVE IInv
  OBVIOUS
<1>1. /\ log = <<>> /\ mem = NoMemory /\ call = [t \in Calls |-> Idle] /\ queue = <<>>
      /\ phase = "absent" /\ minted = 0
      /\ disk = [records |-> <<>>, state |-> [NoState EXCEPT !.identity = TRUE]]
  BY DEF Init
<1>2. /\ StateOK(disk.state) /\ disk.state.app.outbox = {}
      /\ mem.app.outbox = {} /\ "state" \in DOMAIN disk
  BY <1>1 DEF NoState, NoApplication, NoRatchet, NoMemory, StateOK, AppOK, RatchetOK
<1>3. Shape
  BY <1>1, <1>2, IdleFacts, NoMemoryFacts DEF Shape
<1>4. DOMAIN queue = {} /\ queue \in Seq(Calls) /\ DOMAIN log = {}
  BY <1>1
<1>5. QueueOK
  BY <1>1, <1>4, IdleFacts DEF QueueOK, Once, Has
<1>6. \A u \in Calls : ~Attached(u) /\ ~Exported(u) /\ call[u].role # "retry"
  BY <1>1, IdleFacts DEF Attached, Exported
<1>7. \A i \in Item : ~IsOut(i)
  BY <1>1, <1>4, IdleFacts DEF IsOut
<1>8. \A i \in Item : ~Held(i)
  BY <1>2, <1>6, <1>7 DEF Held
<1>9. Generations
  BY <1>1, <1>2, <1>4, <1>6, <1>7, <1>8
     DEF Generations, GenOnce, LogOnce, ReadyAhead, StatesCover, Covers, InOrder,
         AttachedReady, SendCovered, RetryAlone
<1>10. QED
  BY <1>3, <1>5, <1>9 DEF IInv

LEMMA StutterIInv == IInv /\ UNCHANGED vars => IInv'
  BY DEF IInv, Shape, QueueOK, Generations, GenOnce, LogOnce, ReadyAhead, StatesCover, Covers,
         InOrder, AttachedReady, SendCovered, RetryAlone, Held, IsOut, Exported, Attached, vars

\* Every step of the specification keeps the inductive invariant.
LEMMA NextIInv == IInv /\ [Next]_vars => IInv'
<1> SUFFICES ASSUME IInv, [Next]_vars PROVE IInv'
  OBVIOUS
<1>1. ASSUME NEW t \in Calls, Step(t) PROVE IInv'
  <2>1. CASE BeginSync(t) \/ PageArrives(t)
    BY <2>1, BeginSyncStep, PageArrivesStep
  <2>2. CASE BeginSend(t) \/ PostArrives(t) \/ PostFails(t) \/ PostReturns(t)
    BY <2>2, BeginSendStep, PostArrivesStep, PostFailsStep, PostReturnsStep
  <2>3. CASE SaveDone(t) \/ StateWritten(t) \/ PersistFails(t) \/ Restore(t)
    BY <2>3, SaveDoneStep, StateWrittenStep, PersistFailsStep, RestoreStep
  <2>4. QED
    BY <1>1, <2>1, <2>2, <2>3 DEF Step
<1>2. QED
  BY <1>1, DestroyMemoryStep, CrashStep, PeerPostsStep, StutterIInv DEF Next

\* The generations of the device's envelopes stay ahead of all that is held:
\* sendEvent, persist, restore and destroyMemory keep the invariant.
THEOREM GenerationsStayAhead == Spec => []IInv
<1>1. Init => IInv
  BY InitIInv
<1>2. IInv /\ [Next]_vars => IInv'
  BY NextIInv
<1>3. QED
  BY <1>1, <1>2, PTL DEF Spec

\* No two envelopes the server has of a device were made at one generation of
\* its ratchet, whatever calls overlap, fail or crash.
THEOREM GenerationsAreFresh == Spec => []FreshGenerations
<1>1. IInv => FreshGenerations
  <2> SUFFICES ASSUME IInv, NEW p \in Positions, NEW q \in Positions,
                      log[p].from = Self, log[q].from = Self, log[p].gen = log[q].gen
               PROVE  p = q
    BY DEF FreshGenerations
  <2> DEFINE i == [token |-> log[p].token, gen |-> log[p].gen]
             j == [token |-> log[q].token, gen |-> log[q].gen]
  <2>1. log[p] \in Envelope /\ log[q] \in Envelope
    BY DEF IInv, Shape, Positions
  <2>2. i \in Item /\ j \in Item /\ i.gen = j.gen
    BY <2>1 DEF Item, Envelope
  <2>3. Held(i) /\ Held(j)
    BY DEF Held, IsOut, Positions
  <2>4. i = j
    BY <2>2, <2>3 DEF IInv, Generations, GenOnce
  <2>5. log[p].token = log[q].token
    BY <2>4
  <2>6. QED
    BY <2>5 DEF IInv, Generations, LogOnce, Positions
<1>2. QED
  BY <1>1, GenerationsStayAhead, PTL

-----------------------------------------------------------------------------
(* The types of all there is, and the history.  A page as a sequence.      *)

LEMMA Ordered ==
    ASSUME NEW S \in SUBSET Nat, IsFiniteSet(S)
    PROVE  /\ InLogOrder(S) \in Seq(S)
           /\ Len(InLogOrder(S)) = Cardinality(S)
           /\ ToSet(InLogOrder(S)) = S
<1> DEFINE n == Cardinality(S)
           Upto(p) == {q \in S : q <= p}
           rank == [p \in S |-> Cardinality(Upto(p))]
           f == InLogOrder(S)
<1>1. n \in Nat
  BY FS_CardinalityType
<1>2. ASSUME NEW p \in S
      PROVE  IsFiniteSet(Upto(p)) /\ Cardinality(Upto(p)) \in 1 .. n
  <2>1. Upto(p) \in SUBSET S /\ p \in Upto(p)
    OBVIOUS
  <2> HIDE DEF Upto
  <2>2. IsFiniteSet(Upto(p)) /\ Cardinality(Upto(p)) <= n
    BY <2>1, FS_Subset
  <2>3. Cardinality(Upto(p)) \in Nat /\ Cardinality(Upto(p)) # 0
    BY <2>1, <2>2, FS_CardinalityType, FS_EmptySet
  <2> QED
    BY <1>1, <2>2, <2>3
\* A position has more at or below it than a lower one.
<1>3. ASSUME NEW p \in S, NEW r \in S, p < r
      PROVE  rank[p] # rank[r]
  <2>0. p \in Nat /\ r \in Nat /\ \A q \in S : q \in Nat
    OBVIOUS
  <2>1. /\ \A q \in S : q <= p => q <= r
        /\ r <= r /\ ~(r <= p)
    BY <1>3, <2>0
  <2>4. Upto(p) \in SUBSET Upto(r)
    BY <2>1, Zenon
  <2>5. r \in Upto(r) /\ r \notin Upto(p)
    BY <2>1
  <2>2. Upto(p) # Upto(r) /\ IsFiniteSet(Upto(r))
    BY <1>2, <2>5
  <2> HIDE DEF Upto
  <2>3. Cardinality(Upto(r)) # Cardinality(Upto(p))
    BY <2>2, <2>4, FS_Subset
  <2> QED
    BY <2>3
<1>4. rank \in [S -> 1 .. n]
  BY <1>2
<1>5. \A p, r \in S : rank[p] = rank[r] => p = r
  <2> SUFFICES ASSUME NEW p \in S, NEW r \in S, rank[p] = rank[r], p # r
               PROVE  FALSE
    BY Zenon
  <2>1. p < r \/ r < p
    OBVIOUS
  <2> HIDE DEF rank
  <2> QED
    BY <1>3, <2>1
<1> HIDE DEF rank
<1>6. rank \in Injection(S, 1 .. n)
  BY <1>4, <1>5 DEF Injection, IsInjective
<1>7. IsFiniteSet(1 .. n) /\ Cardinality(1 .. n) = n
  BY <1>1, FS_Interval
<1>8. rank \in Surjection(S, 1 .. n)
  BY <1>6, <1>7, FS_Injection
<1>9. \A k \in 1 .. n : \E p \in S : rank[p] = k
  BY <1>8 DEF Surjection
<1>10. \A k \in 1 .. n : \E p \in S : Cardinality(Upto(p)) = k
  BY <1>9 DEF rank
<1> DEFINE nth(k) == CHOOSE p \in S : Cardinality(Upto(p)) = k
<1>11. f = [k \in 1 .. n |-> nth(k)]
  BY DEF InLogOrder
<1> HIDE DEF f, nth
<1>12. \A k \in 1 .. n : f[k] \in S /\ Cardinality(Upto(f[k])) = k
  <2> TAKE k \in 1 .. n
  <2>1. f[k] = nth(k)
    BY <1>11
  <2> HIDE DEF Upto
  <2> QED
    BY <1>10, <2>1 DEF nth
<1>13. DOMAIN f = 1 .. n /\ f = [k \in 1 .. n |-> f[k]]
  BY <1>11
<1>14. f \in Seq(S) /\ Len(f) = n
  <2>1. f \in [1 .. n -> S]
    BY <1>12, <1>13
  <2> QED
    BY <1>1, <2>1
<1>15. ASSUME NEW p \in S PROVE \E k \in 1 .. n : f[k] = p
  <2>1. rank[p] \in 1 .. n
    BY <1>4
  <2> DEFINE k == rank[p]
  <2>2. k \in 1 .. n /\ f[k] \in S /\ Cardinality(Upto(f[k])) = k
    BY <1>12, <2>1
  <2> HIDE DEF k, Upto
  <2>3. \A r \in S : rank[r] = Cardinality(Upto(r))
    BY DEF rank
  <2>4. rank[f[k]] = k
    BY <2>2, <2>3
  <2>5. f[k] = p
    BY <1>5, <2>2, <2>4 DEF k
  <2> QED
    BY <2>2, <2>5
<1>16. ToSet(f) = S
  BY <1>12, <1>13, <1>15 DEF ToSet
<1> QED
  BY <1>14, <1>16 DEF f

-----------------------------------------------------------------------------
(* The types.                                                              *)

MemFit(m) ==
    /\ DOMAIN m = {"app", "records", "mark", "ratchet"}
    /\ m.app \in Application /\ m.ratchet \in Ratchet
    /\ m.records \in Seq(Nat) /\ m.mark \in Marks

ViewFit(v) ==
    /\ v.processed \in SUBSET Nat /\ v.records \in Seq(Nat)
    /\ v.cursor \in Nat /\ v.asked \in Nat /\ "asked" \in DOMAIN v

CallFit(c) == CallOK(c) /\ ViewFit(c.view)

Types ==
    /\ phase \in {"absent", "ready", "broken"}
    /\ IF phase = "ready" THEN MemFit(mem) ELSE mem = NoMemory
    /\ \A t \in Calls : CallFit(call[t])
    /\ DOMAIN disk = {"records", "state"}
    /\ disk.records \in Records /\ disk.state \in RuntimeState

LEMMA NoMemoryType ==
    /\ NoMemory.app \in Application /\ NoMemory.ratchet \in Ratchet
    /\ NoMemory.records = Gone /\ NoMemory.mark = "none"
  BY DEF NoMemory, NoApplication, NoRatchet, Application, Ratchet

LEMMA MemoryType ==
    ASSUME Types
    PROVE  /\ mem.app \in Application /\ mem.ratchet \in Ratchet
           /\ mem.records \in Records /\ mem.mark \in Marks
<1>1. CASE phase = "ready"
  BY <1>1 DEF Types, MemFit, Records
<1>2. CASE phase # "ready"
  BY <1>2, NoMemoryType DEF Types, Marks, Records
<1> QED
  BY <1>1, <1>2

LEMMA IdleType == CallFit(Idle)
<1>1. NoApplication \in Application /\ NoRatchet \in Ratchet
  BY DEF NoApplication, NoRatchet, Application, Ratchet
<1>2. NoState \in RuntimeState /\ NoItem \in Item
  BY <1>1 DEF NoState, NoItem, RuntimeState, Item
<1>3. ViewFit(NoView)
  BY DEF ViewFit, NoView
<1>4. NoClone.app \in Application /\ NoClone.records \in Records /\ NoClone.mark \in Marks
  BY <1>1 DEF NoClone, Records, Marks
<1>5. /\ Idle.pc = "idle" /\ Idle.role = "none" /\ Idle.detached = FALSE /\ Idle.item = NoItem
      /\ Idle.view = NoView /\ Idle.clone = NoClone /\ Idle.payload = NoState
  BY DEF Idle
<1> QED
  BY <1>2, <1>3, <1>4, <1>5 DEF CallFit, CallOK

LEMMA TypesFit == IInv /\ Types => TypeOK
<1> SUFFICES ASSUME IInv, Types PROVE TypeOK
  OBVIOUS
<1>1. log \in Seq(Envelope) /\ minted \in Nat
  BY DEF IInv, Shape
<1>2. \A t \in Calls : CallOK(call[t])
  BY DEF Types, CallFit
<1>3. queue \in Seq(Calls) /\ IsInjective(queue)
  BY DEF IInv, QueueOK, Once, IsInjective
<1>4. ToSet(queue) = {t \in Calls : call[t].pc \in {"save", "write"}}
  BY <1>3 DEF IInv, QueueOK, Has, ToSet
<1> QED
  BY <1>1, <1>2, <1>3, <1>4, MemoryType DEF Types, TypeOK

\* A record of the runtime, of a call or of the memory is rebuilt field by field.
LEMMA PersistingType ==
    ASSUME NEW c, Shaped(c), CallFit(c), NEW m,
           m.app \in Application, m.records \in Records, m.mark \in Marks
    PROVE  CallFit(Persisting(c, m))
<1> DEFINE d == Persisting(c, m)
<1>1. /\ d.pc = "save" /\ d.role = c.role /\ d.detached = c.detached /\ d.item = c.item
      /\ d.view = c.view /\ d.payload = c.payload
      /\ d.clone = [app |-> m.app, records |-> m.records, mark |-> m.mark]
  BY DEF Persisting, Shaped
<1> HIDE DEF d
<1>2. CallFit(d)
  BY <1>1 DEF CallFit, CallOK
<1> QED
  BY <1>2 DEF d

\* The positions of a page that are shown are positions of the log.
LEMMA ShownType ==
    ASSUME NEW v, ViewFit(v), NEW upto \in Nat
    PROVE  /\ Unprocessed(v, upto) \in SUBSET (v.cursor + 1 .. upto)
           /\ IsFiniteSet(Unprocessed(v, upto))
           /\ Shown(v, upto) \in Seq(Nat)
           /\ Len(v.records) <= Len(Shown(v, upto))
           /\ \A i \in 1 .. Len(v.records) : Shown(v, upto)[i] = v.records[i]
           /\ ToSet(Shown(v, upto)) = ToSet(v.records)
                \union {p \in Unprocessed(v, upto) : Decrypts(p) /\ p \notin ToSet(v.records)}
           /\ Len(Shown(v, upto)) = Len(v.records) => Shown(v, upto) = v.records
<1> DEFINE S == {p \in Unprocessed(v, upto) : Decrypts(p) /\ p \notin ToSet(v.records)}
           r == v.records
           a == InLogOrder(S)
<1>1. r \in Seq(Nat) /\ v.cursor \in Nat
  BY DEF ViewFit
<1>2. Unprocessed(v, upto) \in SUBSET (v.cursor + 1 .. upto)
  BY DEF Unprocessed
<1>3. IsFiniteSet(v.cursor + 1 .. upto)
  BY <1>1, FS_Interval
<1>4. IsFiniteSet(Unprocessed(v, upto))
  BY <1>2, <1>3, FS_Subset
<1>5. S \in SUBSET Unprocessed(v, upto) /\ S \in SUBSET Nat
  BY <1>1, <1>2
<1>6. IsFiniteSet(S)
  BY <1>4, <1>5, FS_Subset
<1>7. Shown(v, upto) = r \o a
  BY DEF Shown
<1> HIDE DEF S, r, a
<1>8. a \in Seq(S) /\ ToSet(a) = S
  BY <1>5, <1>6, Ordered DEF a
<1>9. a \in Seq(Nat)
  BY <1>5, <1>8, SeqMonotonic
<1>10. /\ r \o a \in Seq(Nat) /\ Len(r \o a) = Len(r) + Len(a)
       /\ Len(r) \in Nat /\ Len(a) \in Nat /\ DOMAIN r = 1 .. Len(r) /\ DOMAIN a = 1 .. Len(a)
       /\ DOMAIN (r \o a) = 1 .. Len(r) + Len(a)
       /\ \A i \in 1 .. Len(r) + Len(a) : (r \o a)[i] = IF i <= Len(r) THEN r[i] ELSE a[i - Len(r)]
  BY <1>1, <1>9, ConcatProperties DEF r
<1>11. \A i \in 1 .. Len(r) : (r \o a)[i] = r[i]
  BY <1>10
<1>12. \A i \in 1 .. Len(a) : (r \o a)[Len(r) + i] = a[i] /\ Len(r) + i \in DOMAIN (r \o a)
  BY <1>10
<1>13. ToSet(r \o a) = ToSet(r) \union ToSet(a)
  <2>1. ToSet(r) \subseteq ToSet(r \o a)
    BY <1>10, <1>11 DEF ToSet
  <2>2. ToSet(a) \subseteq ToSet(r \o a)
    <3>1. \A i \in DOMAIN a : a[i] \in ToSet(r \o a)
      BY <1>10, <1>12 DEF ToSet
    <3> QED
      BY <3>1 DEF ToSet
  <2>3. ASSUME NEW i \in DOMAIN (r \o a)
        PROVE  (r \o a)[i] \in ToSet(r) \union ToSet(a)
    <3>1. CASE i <= Len(r)
      BY <1>10, <1>11, <3>1 DEF ToSet
    <3>2. CASE ~(i <= Len(r))
      <4>1. i - Len(r) \in DOMAIN a /\ (r \o a)[i] = a[i - Len(r)]
        BY <1>10, <3>2
      <4> QED
        BY <4>1 DEF ToSet
    <3> QED
      BY <3>1, <3>2
  <2>4. ToSet(r \o a) \subseteq ToSet(r) \union ToSet(a)
    BY <2>3 DEF ToSet
  <2> QED
    BY <2>1, <2>2, <2>4
<1>14. ASSUME Len(r \o a) = Len(r) PROVE r \o a = r
  <2>1. Len(a) = 0
    BY <1>10, <1>14
  <2>2. a = <<>>
    BY <1>9, <2>1
  <2> QED
    BY <1>1, <2>2 DEF r
<1>15. /\ r \o a \in Seq(Nat) /\ Len(r) <= Len(r \o a)
       /\ ToSet(r \o a) = ToSet(r) \union S
  BY <1>8, <1>10, <1>13
<1> QED
  BY <1>2, <1>4, <1>7, <1>11, <1>14, <1>15 DEF r, S

LEMMA SyncedType ==
    ASSUME MemFit(mem), log \in Seq(Envelope), NEW v, ViewFit(v), NEW upto \in Nat, upto <= Len(log)
    PROVE  MemFit(Synced(v, upto))
<1> DEFINE m == Synced(v, upto)
           gens == {log[p].gen : p \in {q \in Unprocessed(v, upto) : log[q].from = Peer}}
<1>1. gens \subseteq Nat /\ Unprocessed(v, upto) \subseteq Nat
  <2>1. \A p \in Unprocessed(v, upto) : p \in DOMAIN log /\ p \in Nat
    BY DEF ViewFit, Unprocessed
  <2>4. \A p \in DOMAIN log : log[p] \in Envelope
    OBVIOUS
  <2>2. \A p \in DOMAIN log : log[p].gen \in Nat
    BY <2>4 DEF Envelope
  <2>3. \A q \in {q \in Unprocessed(v, upto) : log[q].from = Peer} : log[q].gen \in Nat
    BY <2>1, <2>2
  <2> QED
    BY <2>1, <2>3
<1> HIDE DEF gens
<1>2. /\ DOMAIN m = DOMAIN mem
      /\ m.app = [mem.app EXCEPT !.processed = v.processed \union Unprocessed(v, upto), !.cursor = upto]
      /\ m.records = Shown(v, upto)
      /\ m.mark \in {mem.mark, MarkAppend(mem.mark)}
      /\ m.ratchet = [mem.ratchet EXCEPT !.seen = @ \union gens]
  BY DEF MemFit, Synced, gens, Application
<1> HIDE DEF m
<1>3. m.app \in Application
  BY <1>1, <1>2 DEF MemFit, Application, ViewFit
<1>4. m.ratchet \in Ratchet
  BY <1>1, <1>2 DEF MemFit, Ratchet
<1>5. m.mark \in Marks
  BY <1>2 DEF MemFit, MarkAppend, Marks
<1>6. m.records \in Seq(Nat)
  BY <1>2, ShownType
<1>7. MemFit(m)
  BY <1>2, <1>3, <1>4, <1>5, <1>6 DEF MemFit
<1> QED
  BY <1>7 DEF m

LEMMA DeliveredType ==
    ASSUME MemFit(mem), log \in Seq(Envelope), NEW p \in Positions, NEW item
    PROVE  MemFit(Delivered(p, item))
<1> DEFINE m == Delivered(p, item)
<1>1. p \in Nat
  BY DEF Positions
<1>2. /\ DOMAIN m = DOMAIN mem
      /\ m.app = [mem.app EXCEPT !.processed = @ \union {p}, !.outbox = @ \ {item}]
      /\ m.records = IF p \in ToSet(mem.records) THEN mem.records ELSE Append(mem.records, p)
      /\ m.mark = MarkAppend(mem.mark)
      /\ m.ratchet = mem.ratchet
  BY DEF MemFit, Delivered, Application
<1> HIDE DEF m
<1>3. m.app \in Application
  <2>1. mem.app \in Application
    BY DEF MemFit
  <2>2. mem.app.processed \union {p} \in SUBSET Nat /\ mem.app.outbox \ {item} \in SUBSET Item
    BY <1>1, <2>1 DEF Application
  <2> QED
    BY <1>2, <2>1, <2>2 DEF Application
<1>4. m.mark \in Marks
  BY <1>2 DEF MemFit, MarkAppend, Marks
<1>5. m.records \in Seq(Nat)
  BY <1>1, <1>2 DEF MemFit
<1>6. MemFit(m)
  BY <1>2, <1>3, <1>4, <1>5 DEF MemFit
<1> QED
  BY <1>6 DEF m

LEMMA RetryType ==
    ASSUME NEW outbox \in SUBSET Item
    PROVE  CallFit(NextRetry(outbox))
<1>1. CASE outbox = {}
  BY <1>1, IdleType DEF NextRetry
<1>2. CASE outbox # {}
  <2> DEFINE i == CHOOSE i \in outbox : \A j \in outbox : i.token <= j.token
             d == [Idle EXCEPT !.pc = "post", !.role = "retry", !.item = i]
  <2>1. i \in Item
    BY <1>2, OldestItem
  <2> HIDE DEF i
  <2>2. /\ d.pc = "post" /\ d.role = "retry" /\ d.item = i /\ d.detached = Idle.detached
        /\ d.view = Idle.view /\ d.clone = Idle.clone /\ d.payload = Idle.payload
    BY DEF Idle
  <2>3. NextRetry(outbox) = d
    BY <1>2 DEF NextRetry, i
  <2> HIDE DEF d
  <2> QED
    BY <2>1, <2>2, <2>3, IdleType DEF CallFit, CallOK
<1> QED
  BY <1>1, <1>2

LEMMA ContinuedType ==
    ASSUME Types, log \in Seq(Envelope), NEW c, CallFit(c)
    PROVE  CallFit(Continued(c))
<1>1. mem.app.outbox \in SUBSET Item
  BY MemoryType DEF Application
<1>2. CASE c.role = "sync" /\ c.view.more
  <2> DEFINE w == [c.view EXCEPT !.asked = Len(log)]
             d == [Idle EXCEPT !.pc = "fetch", !.role = "sync", !.detached = c.detached, !.view = w]
  <2>1. w.processed = c.view.processed /\ w.records = c.view.records /\ w.cursor = c.view.cursor
        /\ w.asked = Len(log) /\ DOMAIN w = DOMAIN c.view
    BY DEF CallFit, ViewFit
  <2> HIDE DEF w
  <2>2. /\ d.pc = "fetch" /\ d.role = "sync" /\ d.item = Idle.item /\ d.detached = c.detached
        /\ d.view = w /\ d.clone = Idle.clone /\ d.payload = Idle.payload
    BY DEF Idle
  <2>3. Continued(c) = d
    BY <1>2 DEF Continued, w
  <2>4. Len(log) \in Nat
    OBVIOUS
  <2> HIDE DEF d
  <2>5. ViewFit(w)
    BY <2>1, <2>4 DEF CallFit, ViewFit
  <2> QED
    BY <2>2, <2>3, <2>5, IdleType DEF CallFit, CallOK
<1>3. CASE ~(c.role = "sync" /\ c.view.more) /\ c.role = "send" /\ ~c.detached /\ c.item \in mem.app.outbox
  <2> DEFINE d == [Idle EXCEPT !.pc = "post", !.role = "send", !.item = c.item]
  <2>1. /\ d.pc = "post" /\ d.role = "send" /\ d.item = c.item /\ d.detached = Idle.detached
        /\ d.view = Idle.view /\ d.clone = Idle.clone /\ d.payload = Idle.payload
    BY DEF Idle
  <2>2. Continued(c) = d
    BY <1>3 DEF Continued
  <2> HIDE DEF d
  <2> QED
    BY <1>1, <1>3, <2>1, <2>2, IdleType DEF CallFit, CallOK
<1>4. CASE c.role = "retry" /\ ~c.detached
  <2>1. Continued(c) = NextRetry(mem.app.outbox)
    BY <1>4 DEF Continued
  <2> QED
    BY <1>1, <2>1, RetryType
<1>5. CASE /\ ~(c.role = "sync" /\ c.view.more)
           /\ ~(c.role = "send" /\ ~c.detached /\ c.item \in mem.app.outbox)
           /\ ~(c.role = "retry" /\ ~c.detached)
  BY <1>5, IdleType DEF Continued
<1> QED
  BY <1>2, <1>3, <1>4, <1>5

-----------------------------------------------------------------------------
(* The types, step by step.                                                *)

\* A step that changes one call and not the storage.
LEMMA CallStep ==
    ASSUME IInv, Types, NEW t \in Calls, NEW d, CallFit(d), call' = [call EXCEPT ![t] = d],
           disk' = disk, phase' \in {"absent", "ready", "broken"},
           IF phase' = "ready" THEN MemFit(mem') ELSE mem' = NoMemory
    PROVE  Types'
<1>1. call'[t] = d /\ \A u \in Calls : u # t => call'[u] = call[u]
  BY DEF IInv, Shape
<1>2. \A u \in Calls : CallFit(call'[u])
  BY <1>1 DEF Types
<1> QED
  BY <1>2 DEF Types

\* A step after which the calls are idle or as they were, without the client.
LEMMA EmptiedStep ==
    ASSUME IInv, Types, disk' = disk, phase' \in {"absent", "broken"}, mem' = NoMemory,
           \A u \in Calls : call'[u] = Idle \/ call'[u] = [call[u] EXCEPT !.detached = TRUE]
    PROVE  Types'
<1>1. ASSUME NEW u \in Calls PROVE CallFit(call'[u])
  <2>1. CASE call'[u] = Idle
    BY <2>1, IdleType
  <2>2. CASE call'[u] = [call[u] EXCEPT !.detached = TRUE]
    <3> DEFINE d == [call[u] EXCEPT !.detached = TRUE]
    <3>1. /\ d.pc = call[u].pc /\ d.role = call[u].role /\ d.detached = TRUE /\ d.item = call[u].item
          /\ d.view = call[u].view /\ d.clone = call[u].clone /\ d.payload = call[u].payload
      BY DEF IInv, Shape, Shaped
    <3>2. call'[u] = d
      BY <2>2
    <3> HIDE DEF d
    <3>3. CallFit(call[u])
      BY DEF Types
    <3>4. CallFit(d)
      BY <3>1, <3>3 DEF CallFit, CallOK
    <3> QED
      BY <3>2, <3>4
  <2> QED
    BY <2>1, <2>2
<1> QED
  BY <1>1 DEF Types

LEMMA BeginSyncTypes == ASSUME IInv, Types, NEW t \in Calls, BeginSync(t) PROVE Types'
<1> DEFINE v == [processed |-> mem.app.processed, records |-> mem.records,
                 cursor |-> mem.app.cursor, changed |-> FALSE,
                 asked |-> Len(log), more |-> FALSE]
           d == [Idle EXCEPT !.pc = "fetch", !.role = "sync", !.view = v]
<1>1. /\ call' = [call EXCEPT ![t] = d] /\ UNCHANGED <<log, phase, mem, disk>> /\ phase = "ready"
  BY DEF BeginSync, MayBegin
<1>2. MemFit(mem) /\ Len(log) \in Nat
  BY <1>1 DEF Types, IInv, Shape
<1>3. ViewFit(v)
  BY <1>2 DEF ViewFit, MemFit, Application
<1> HIDE DEF v
<1>4. /\ d.pc = "fetch" /\ d.role = "sync" /\ d.detached = Idle.detached /\ d.item = Idle.item
      /\ d.view = v /\ d.clone = Idle.clone /\ d.payload = Idle.payload
  BY DEF Idle
<1> HIDE DEF d
<1>5. CallFit(d)
  BY <1>3, <1>4, IdleType DEF CallFit, CallOK
<1> QED
  BY <1>1, <1>2, <1>5, CallStep

LEMMA PageArrivesTypes == ASSUME IInv, Types, NEW t \in Calls, PageArrives(t) PROVE Types'
<1> DEFINE c == call[t]
           v == c.view
<1>1. /\ Shaped(c) /\ CallFit(c) /\ ViewFit(v) /\ log \in Seq(Envelope) /\ Len(log) \in Nat
      /\ c.pc = "fetch" /\ UNCHANGED <<log, phase, disk>>
  BY DEF IInv, Shape, Types, CallFit, PageArrives
<1>2. ~c.detached => phase = "ready" /\ MemFit(mem)
  BY <1>1, IdleFacts DEF IInv, Generations, AttachedReady, Attached, Types
<1>3. PICK n \in v.asked .. Len(log) : PageArrives(t)!2!(n)
  BY DEF PageArrives
<1> DEFINE upto == IF v.cursor + PageSize < n THEN v.cursor + PageSize ELSE n
           fresh == Unprocessed(v, upto)
           changed == v.changed \/ fresh # {}
           w == [processed |-> v.processed \union fresh,
                 records |-> IF c.detached THEN v.records ELSE Shown(v, upto),
                 cursor |-> upto, changed |-> changed,
                 asked |-> 0, more |-> upto < n]
           next == [c EXCEPT !.view = w]
           throws == c.detached /\ fresh # {}
           persists == ~throws /\ (changed \/ upto # v.cursor)
           m == IF c.detached THEN NoMemory ELSE Synced(v, upto)
           d == IF persists THEN Persisting(next, m) ELSE Idle
<1>4. /\ mem' = IF c.detached THEN mem ELSE m
      /\ call' = [call EXCEPT ![t] = d]
  BY <1>3
<1>5. upto \in Nat /\ upto <= Len(log)
  <2>1. v.cursor \in Nat /\ v.asked \in Nat /\ PageSize \in Nat
    BY <1>1, PageSizeAssumption DEF ViewFit
  <2>2. n \in Nat /\ n <= Len(log)
    BY <1>1, <1>3, <2>1
  <2> QED
    BY <1>1, <2>1, <2>2
<1> HIDE DEF upto
<1>6. fresh \in SUBSET Nat /\ Shown(v, upto) \in Seq(Nat)
  <2>1. fresh \in SUBSET (v.cursor + 1 .. upto) /\ Shown(v, upto) \in Seq(Nat)
    BY <1>1, <1>5, ShownType
  <2>2. (v.cursor + 1 .. upto) \subseteq Nat
    BY <1>1, <1>5 DEF ViewFit
  <2> QED
    BY <2>1, <2>2
<1> HIDE DEF fresh
<1>7. ViewFit(w)
  BY <1>1, <1>5, <1>6 DEF ViewFit
<1> HIDE DEF w
<1>8. ~c.detached => MemFit(Synced(v, upto))
  BY <1>1, <1>2, <1>5, SyncedType
<1>9. /\ next.pc = c.pc /\ next.role = c.role /\ next.detached = c.detached /\ next.item = c.item
      /\ next.view = w /\ next.clone = c.clone /\ next.payload = c.payload
      /\ DOMAIN next = DOMAIN c
  BY <1>1 DEF Shaped
<1>10. m.app \in Application /\ m.records \in Records /\ m.mark \in Marks
  BY <1>8, NoMemoryType DEF MemFit, Records, Marks
<1>11. ~c.detached => MemFit(mem')
  BY <1>4, <1>8
<1>12. c.detached => mem' = mem
  BY <1>4
<1> HIDE DEF m, next
<1>13. Shaped(next) /\ CallFit(next)
  BY <1>1, <1>7, <1>9 DEF Shaped, CallFit, CallOK
<1>14. CallFit(Persisting(next, m))
  BY <1>10, <1>13, PersistingType
<1>15. CallFit(d)
  BY <1>14, IdleType
<1>16. IF phase' = "ready" THEN MemFit(mem') ELSE mem' = NoMemory
  BY <1>1, <1>2, <1>11, <1>12 DEF Types
<1>17. phase' \in {"absent", "ready", "broken"} /\ disk' = disk
  BY <1>1 DEF Types
<1> HIDE DEF d
<1> QED
  BY <1>4, <1>15, <1>16, <1>17, CallStep

LEMMA BeginSendTypes == ASSUME IInv, Types, NEW t \in Calls, BeginSend(t) PROVE Types'
<1> DEFINE item == [token |-> minted + 1, gen |-> mem.ratchet.sent + 1]
           m == [mem EXCEPT !.ratchet.sent = @ + 1, !.app.outbox = @ \union {item}]
           c == [Idle EXCEPT !.role = "send", !.item = item]
<1>1. /\ UNCHANGED <<log, phase, disk>> /\ phase = "ready" /\ mem' = m
      /\ call' = [call EXCEPT ![t] = Persisting(c, m)]
  BY DEF BeginSend, MayBegin
<1>2. MemFit(mem) /\ minted \in Nat
  BY <1>1 DEF Types, IInv, Shape
<1>3. item \in Item
  BY <1>2 DEF MemFit, Ratchet, Item
<1> HIDE DEF item
<1>4. /\ DOMAIN m = DOMAIN mem
      /\ m.app = [mem.app EXCEPT !.outbox = @ \union {item}]
      /\ m.records = mem.records /\ m.mark = mem.mark
      /\ m.ratchet = [mem.ratchet EXCEPT !.sent = @ + 1]
  BY <1>2 DEF MemFit
<1> HIDE DEF m
<1>5. MemFit(m)
  <2>1. m.app \in Application
    <3>1. mem.app \in Application /\ {item} \in SUBSET Item
      BY <1>2, <1>3 DEF MemFit
    <3>2. mem.app.outbox \union {item} \in SUBSET Item
      BY <3>1 DEF Application
    <3> QED
      BY <1>4, <3>1, <3>2 DEF Application
  <2>2. m.ratchet \in Ratchet
    <3>1. mem.ratchet \in Ratchet
      BY <1>2 DEF MemFit
    <3>2. mem.ratchet.sent + 1 \in Nat
      BY <3>1 DEF Ratchet
    <3> QED
      BY <1>4, <3>1, <3>2 DEF Ratchet
  <2> QED
    BY <1>2, <1>4, <2>1, <2>2 DEF MemFit
<1>6. /\ c.pc = Idle.pc /\ c.role = "send" /\ c.item = item /\ c.detached = Idle.detached
      /\ c.view = Idle.view /\ c.clone = Idle.clone /\ c.payload = Idle.payload
      /\ DOMAIN c = DOMAIN Idle
  BY DEF Idle
<1> HIDE DEF c
<1>7. Shaped(c) /\ CallFit(c)
  BY <1>3, <1>6, IdleFacts, IdleType DEF Shaped, Roles, CallFit, CallOK
<1>8. CallFit(Persisting(c, m))
  BY <1>5, <1>7, PersistingType DEF MemFit, Records
<1>9. phase' = "ready" /\ disk' = disk
  BY <1>1
<1> QED
  BY <1>1, <1>5, <1>8, <1>9, CallStep

LEMMA PostArrivesTypes == ASSUME IInv, Types, NEW t \in Calls, PostArrives(t) PROVE Types'
<1> DEFINE c == call[t]
           d == [c EXCEPT !.pc = "posted"]
<1>1. call' = [call EXCEPT ![t] = d] /\ UNCHANGED <<phase, mem, disk>>
  BY DEF PostArrives
<1>2. Shaped(c) /\ CallFit(c)
  BY DEF IInv, Shape, Types
<1>3. /\ d.pc = "posted" /\ d.role = c.role /\ d.item = c.item /\ d.detached = c.detached
      /\ d.view = c.view /\ d.clone = c.clone /\ d.payload = c.payload
  BY <1>2 DEF Shaped
<1> HIDE DEF d
<1>4. CallFit(d)
  BY <1>2, <1>3 DEF CallFit, CallOK
<1>5. /\ phase' \in {"absent", "ready", "broken"} /\ disk' = disk
      /\ IF phase' = "ready" THEN MemFit(mem') ELSE mem' = NoMemory
  BY <1>1 DEF Types
<1> QED
  BY <1>1, <1>4, <1>5, CallStep

LEMMA PostFailsTypes == ASSUME IInv, Types, NEW t \in Calls, PostFails(t) PROVE Types'
<1>1. call' = [call EXCEPT ![t] = Idle] /\ disk' = disk
  BY DEF PostFails
<1>2. (phase' = "absent" /\ mem' = NoMemory) \/ UNCHANGED <<phase, mem>>
  BY DEF PostFails
<1>3. /\ phase' \in {"absent", "ready", "broken"}
      /\ IF phase' = "ready" THEN MemFit(mem') ELSE mem' = NoMemory
  BY <1>2 DEF Types
<1> QED
  BY <1>1, <1>3, IdleType, CallStep

LEMMA PostReturnsTypes == ASSUME IInv, Types, NEW t \in Calls, PostReturns(t) PROVE Types'
<1>1. UNCHANGED <<log, phase, disk>> /\ call[t].pc = "posted" /\ log \in Seq(Envelope)
  BY DEF PostReturns, IInv, Shape
<1>2. CASE call[t].detached
  <2>1. call' = [call EXCEPT ![t] = Idle] /\ mem' = mem
    BY <1>2 DEF PostReturns
  <2>2. /\ phase' \in {"absent", "ready", "broken"} /\ disk' = disk
        /\ IF phase' = "ready" THEN MemFit(mem') ELSE mem' = NoMemory
    BY <1>1, <2>1 DEF Types
  <2> QED
    BY <2>1, <2>2, IdleType, CallStep
<1>3. CASE ~call[t].detached
  <2>1. phase = "ready" /\ MemFit(mem)
    BY <1>1, <1>3, IdleFacts DEF IInv, Generations, AttachedReady, Attached, Types
  <2> DEFINE role == IF call[t].role = "retry" THEN "retry" ELSE "delivered"
             c == [Idle EXCEPT !.role = role]
  <2>2. PICK p \in Posted(call[t].item) :
            /\ mem' = Delivered(p, call[t].item)
            /\ call' = [call EXCEPT ![t] = Persisting(c, Delivered(p, call[t].item))]
    BY <1>3 DEF PostReturns
  <2>3. p \in Positions
    BY DEF Posted
  <2>4. MemFit(mem')
    BY <1>1, <2>1, <2>2, <2>3, DeliveredType
  <2>5. role \in Roles
    BY DEF Roles
  <2> HIDE DEF role
  <2>6. /\ c.pc = Idle.pc /\ c.role = role /\ c.item = Idle.item /\ c.detached = Idle.detached
        /\ c.view = Idle.view /\ c.clone = Idle.clone /\ c.payload = Idle.payload
        /\ DOMAIN c = DOMAIN Idle
    BY DEF Idle
  <2>7. call' = [call EXCEPT ![t] = Persisting(c, mem')]
    BY <2>2
  <2> HIDE DEF c
  <2>8. Shaped(c) /\ CallFit(c)
    BY <2>5, <2>6, IdleFacts, IdleType DEF Shaped, Roles, CallFit, CallOK
  <2>9. CallFit(Persisting(c, mem'))
    BY <2>4, <2>8, PersistingType DEF MemFit, Records
  <2>10. phase' = "ready" /\ disk' = disk
    BY <1>1, <2>1
  <2> QED
    BY <2>4, <2>7, <2>9, <2>10, CallStep
<1> QED
  BY <1>2, <1>3

LEMMA SaveDoneTypes == ASSUME IInv, Types, NEW t \in Calls, SaveDone(t) PROVE Types'
<1> DEFINE c == call[t]
           s == [identity |-> ~c.detached, app |-> c.clone.app,
                 ratchet |-> IF c.detached THEN NoRatchet ELSE mem.ratchet]
           d == [c EXCEPT !.pc = "write", !.clone = NoClone, !.payload = s]
<1>1. Shaped(c) /\ CallFit(c) /\ DOMAIN call = Calls
  BY DEF IInv, Shape, Types
<1>2. /\ call' = [call EXCEPT ![t].pc = "write", ![t].clone = NoClone, ![t].payload = s]
      /\ disk' = [disk EXCEPT !.records = Saved(c.clone)]
      /\ UNCHANGED <<phase, mem>>
  BY DEF SaveDone
<1>3. call' = [call EXCEPT ![t] = d]
  BY <1>1, <1>2 DEF Shaped
<1>4. s \in RuntimeState
  BY <1>1, MemoryType, NoMemoryType DEF CallFit, CallOK, RuntimeState, NoRatchet, Ratchet
<1> HIDE DEF s
<1>5. /\ d.pc = "write" /\ d.role = c.role /\ d.item = c.item /\ d.detached = c.detached
      /\ d.view = c.view /\ d.clone = NoClone /\ d.payload = s
  BY <1>1 DEF Shaped
<1>6. NoClone.app \in Application /\ NoClone.records \in Records /\ NoClone.mark \in Marks
  BY NoMemoryType DEF NoClone, NoMemory, Records, Marks
<1> HIDE DEF d
<1>7. CallFit(d)
  BY <1>1, <1>4, <1>5, <1>6 DEF CallFit, CallOK
<1>8. Saved(c.clone) \in Records
  BY <1>1 DEF Saved, CallFit, CallOK, Types, Records
<1>9. DOMAIN disk' = {"records", "state"} /\ disk'.records \in Records /\ disk'.state \in RuntimeState
  BY <1>2, <1>8 DEF Types
<1>10. call'[t] = d /\ \A u \in Calls : u # t => call'[u] = call[u]
  BY <1>1, <1>3
<1>11. \A u \in Calls : CallFit(call'[u])
  BY <1>7, <1>10 DEF Types
<1> QED
  BY <1>2, <1>9, <1>11 DEF Types

LEMMA StateWrittenTypes == ASSUME IInv, Types, NEW t \in Calls, StateWritten(t) PROVE Types'
<1>1. CallFit(call[t]) /\ log \in Seq(Envelope) /\ DOMAIN call = Calls
  BY DEF IInv, Shape, Types
<1>2. /\ call' = [call EXCEPT ![t] = Continued(call[t])] /\ UNCHANGED phase
      /\ disk' = [disk EXCEPT !.state = call[t].payload]
      /\ mem' = IF call[t].detached THEN mem ELSE [mem EXCEPT !.mark = "none"]
      /\ call[t].pc = "write"
  BY DEF StateWritten, MayWrite
<1>3. CallFit(Continued(call[t]))
  BY <1>1, ContinuedType
<1>4. call'[t] = Continued(call[t]) /\ \A u \in Calls : u # t => call'[u] = call[u]
  BY <1>1, <1>2
<1>5. \A u \in Calls : CallFit(call'[u])
  BY <1>3, <1>4 DEF Types
<1>6. DOMAIN disk' = {"records", "state"} /\ disk'.records \in Records /\ disk'.state \in RuntimeState
  BY <1>1, <1>2 DEF Types, CallFit, CallOK
<1>7. CASE call[t].detached
  BY <1>2, <1>5, <1>6, <1>7 DEF Types
<1>8. CASE ~call[t].detached
  <2>1. phase = "ready" /\ MemFit(mem)
    BY <1>2, <1>8, IdleFacts DEF IInv, Generations, AttachedReady, Attached, Types
  <2>2. /\ DOMAIN mem' = DOMAIN mem /\ mem'.app = mem.app /\ mem'.records = mem.records
        /\ mem'.ratchet = mem.ratchet /\ mem'.mark = "none"
    BY <1>2, <1>8, <2>1 DEF MemFit
  <2>3. MemFit(mem')
    BY <2>1, <2>2 DEF MemFit, Marks
  <2> QED
    BY <1>2, <1>5, <1>6, <2>1, <2>3 DEF Types
<1> QED
  BY <1>7, <1>8

LEMMA PersistFailsTypes == ASSUME IInv, Types, NEW t \in Calls, PersistFails(t) PROVE Types'
<1>1. disk' = disk
  BY DEF PersistFails
<1>2. CASE call[t].detached
  <2>1. call' = [call EXCEPT ![t] = Idle] /\ UNCHANGED <<phase, mem>>
    BY <1>2 DEF PersistFails
  <2>2. /\ phase' \in {"absent", "ready", "broken"}
        /\ IF phase' = "ready" THEN MemFit(mem') ELSE mem' = NoMemory
    BY <2>1 DEF Types
  <2> QED
    BY <1>1, <2>1, <2>2, IdleType, CallStep
<1>3. CASE ~call[t].detached
  <2>1. /\ call' = [u \in Calls |-> IF u = t \/ call[u] = Idle THEN Idle
                                    ELSE [call[u] EXCEPT !.detached = TRUE]]
        /\ phase' \in {"absent", "broken"} /\ mem' = NoMemory
    BY <1>3 DEF PersistFails
  <2>2. \A u \in Calls : call'[u] = Idle \/ call'[u] = [call[u] EXCEPT !.detached = TRUE]
    BY <2>1
  <2> QED
    BY <1>1, <2>1, <2>2, EmptiedStep
<1> QED
  BY <1>2, <1>3

LEMMA RestoreTypes == ASSUME IInv, Types, NEW t \in Calls, Restore(t) PROVE Types'
<1> DEFINE m == Restored
           c == [Idle EXCEPT !.role = "retry"]
           d == IF m.mark = "replace" THEN Persisting(c, m) ELSE NextRetry(m.app.outbox)
<1>1. /\ call' = [call EXCEPT ![t] = d] /\ mem' = m /\ phase' = "ready" /\ disk' = disk
  BY DEF Restore
<1>2. /\ DOMAIN m = {"app", "records", "mark", "ratchet"}
      /\ m.app = disk.state.app /\ m.ratchet = disk.state.ratchet
      /\ m.records = (IF disk.records = Gone THEN <<>> ELSE disk.records)
      /\ m.mark \in {"replace", "none"}
  BY DEF Restored
<1> HIDE DEF m
<1>3. <<>> \in Seq(Nat)
  OBVIOUS
<1>4. MemFit(m)
  BY <1>2, <1>3 DEF Types, MemFit, Records, RuntimeState, Marks
<1>5. /\ c.pc = Idle.pc /\ c.role = "retry" /\ c.item = Idle.item /\ c.detached = Idle.detached
      /\ c.view = Idle.view /\ c.clone = Idle.clone /\ c.payload = Idle.payload
      /\ DOMAIN c = DOMAIN Idle
  BY DEF Idle
<1> HIDE DEF c
<1>6. Shaped(c) /\ CallFit(c)
  BY <1>5, IdleFacts, IdleType DEF Shaped, Roles, CallFit, CallOK
<1>7. CallFit(Persisting(c, m))
  BY <1>4, <1>6, PersistingType DEF MemFit, Records
<1>8. CallFit(NextRetry(m.app.outbox))
  BY <1>4, RetryType DEF MemFit, Application
<1>9. CallFit(d)
  BY <1>7, <1>8
<1> HIDE DEF d
<1> QED
  BY <1>1, <1>4, <1>9, CallStep

LEMMA InitTypes == Init => Types
<1> SUFFICES ASSUME Init PROVE Types
  OBVIOUS
<1>1. [NoState EXCEPT !.identity = TRUE] \in RuntimeState
  BY NoMemoryType DEF NoState, RuntimeState, NoMemory, NoApplication, NoRatchet, Application, Ratchet
<1>2. <<>> \in Records
  BY DEF Records
<1>3. DOMAIN disk = {"records", "state"} /\ disk.records = <<>> /\ disk.state = [NoState EXCEPT !.identity = TRUE]
  BY DEF Init
<1>4. \A t \in Calls : CallFit(call[t])
  BY IdleType DEF Init
<1> QED
  BY <1>1, <1>2, <1>3, <1>4 DEF Init, Types

LEMMA NextTypes == IInv /\ Types /\ [Next]_vars => Types'
<1> SUFFICES ASSUME IInv, Types, [Next]_vars PROVE Types'
  OBVIOUS
<1>1. ASSUME NEW t \in Calls, Step(t) PROVE Types'
  <2>1. CASE BeginSync(t) \/ PageArrives(t) \/ BeginSend(t)
    BY <2>1, BeginSyncTypes, PageArrivesTypes, BeginSendTypes
  <2>2. CASE PostArrives(t) \/ PostFails(t) \/ PostReturns(t)
    BY <2>2, PostArrivesTypes, PostFailsTypes, PostReturnsTypes
  <2>3. CASE SaveDone(t) \/ StateWritten(t) \/ PersistFails(t) \/ Restore(t)
    BY <2>3, SaveDoneTypes, StateWrittenTypes, PersistFailsTypes, RestoreTypes
  <2> QED
    BY <1>1, <2>1, <2>2, <2>3 DEF Step
<1>2. CASE DestroyMemory \/ Crash
  <2>1. disk' = disk /\ phase' = "absent" /\ mem' = NoMemory
    BY <1>2 DEF DestroyMemory, Crash
  <2>2. \A u \in Calls : call'[u] = Idle \/ call'[u] = [call[u] EXCEPT !.detached = TRUE]
    BY <1>2 DEF DestroyMemory, Crash
  <2> QED
    BY <2>1, <2>2, EmptiedStep
<1>3. CASE PeerPosts \/ UNCHANGED vars
  BY <1>3 DEF PeerPosts, vars, Types
<1> QED
  BY <1>1, <1>2, <1>3 DEF Next

\* Whatever calls overlap, are released, fail or crash: the memory, the calls
\* and the storage have their types, and the queue holds each call that waits
\* for the storage, once (persist, the store's operationTail).
THEOREM TypeCorrect == Spec => []TypeOK
<1>1. Init => Types
  BY InitTypes
<1>2. IInv /\ Types /\ [Next]_vars => Types'
  BY NextTypes
<1>3. IInv /\ Types => TypeOK
  BY TypesFit
<1> QED
  BY <1>1, <1>2, <1>3, GenerationsStayAhead, PTL DEF Spec

-----------------------------------------------------------------------------
(* What the history keeps while one call runs at a time.                   *)

\* One call is out, and none without a client.
Alone ==
    /\ \A t \in Calls : ~call[t].detached
    /\ \A t, u \in Calls : call[t] # Idle /\ call[u] # Idle => t = u
    /\ phase # "ready" => \A t \in Calls : call[t] = Idle

\* Others' envelopes in a log.
Others(l) == {p \in DOMAIN l : l[p].from = Peer}

\* Their generations are numbered through, each once.
Numbered(l) ==
    /\ \A p \in Others(l) : l[p].gen <= Cardinality(Others(l))
    /\ \A p, q \in Others(l) : l[p].gen = l[q].gen => p = q

\* An application state and used generations of a log; records with which an
\* envelope of others is shown, or can still be fetched and decrypted; and with
\* which one of the device is shown, or waits in the outbox.
Within(l, app, seen) ==
    /\ app.processed \subseteq DOMAIN l /\ app.cursor <= Len(l)
    /\ seen \subseteq {l[q].gen : q \in Others(l)}

OthersReached(l, records, app, seen) ==
    \A p \in Others(l) :
        \/ p \in ToSet(records)
        \/ p \notin app.processed /\ p > app.cursor /\ l[p].gen \notin seen

OwnReached(l, records, app) ==
    \A p \in DOMAIN l \ Others(l) :
        \/ p \in ToSet(records)
        \/ [token |-> l[p].token, gen |-> l[p].gen] \in app.outbox

\* Nothing in the log is lost.
Keeps(l, records, app, seen) ==
    Within(l, app, seen) /\ OthersReached(l, records, app, seen) /\ OwnReached(l, records, app)

\* No call is between its change of the memory and the end of its persist.
Settled == \A t \in Calls : call[t].pc \notin {"save", "write"}

\* The memory extends what is stored, its mark says whether it does more than
\* repeat it, and between the calls' persists it is what is stored.
MemoryKept ==
    /\ Keeps(log, mem.records, mem.app, mem.ratchet.seen)
    /\ IsPrefix(disk.records, mem.records)
    /\ mem.mark \in {"none", "append"}
    /\ mem.mark = "none" => mem.records = disk.records
    /\ Settled => /\ mem.app = disk.state.app /\ mem.ratchet = disk.state.ratchet
                  /\ mem.records = disk.records /\ mem.mark = "none"

\* What a call holds is what the memory holds.
CallAgrees(c) ==
    /\ c.pc = "save" =>
        c.clone = [app |-> mem.app, records |-> mem.records, mark |-> mem.mark]
    /\ c.pc = "write" =>
        /\ disk.records = mem.records
        /\ c.payload.app = mem.app /\ c.payload.ratchet = mem.ratchet
    /\ c.role = "sync" =>
        /\ c.view.processed = mem.app.processed /\ c.view.cursor = mem.app.cursor
        /\ c.view.records = mem.records
    /\ c.pc = "fetch" => c.view.asked \in c.view.cursor .. Len(log)
    /\ c.pc \in {"post", "posted"} => c.item \in mem.app.outbox

HInv ==
    /\ Alone
    /\ Numbered(log)
    /\ disk.records \in Seq(Nat)
    /\ Keeps(log, disk.records, disk.state.app, disk.state.ratchet.seen)
    /\ phase = "ready" => MemoryKept
    /\ \A t \in Calls : CallAgrees(call[t])

-----------------------------------------------------------------------------
(* Prefixes, and a log that grows.                                         *)

LEMMA PrefixIs ==
    ASSUME NEW a \in Seq(Nat), NEW b \in Seq(Nat)
    PROVE  IsPrefix(a, b) <=> Len(a) <= Len(b) /\ \A i \in 1 .. Len(a) : a[i] = b[i]
<1>1. Len(a) \in Nat /\ Len(b) \in Nat /\ SubSeq(a, 1, Len(a)) = a
  OBVIOUS
<1>2. CASE ~(Len(a) <= Len(b))
  BY <1>2 DEF IsPrefix
<1>3. CASE Len(a) <= Len(b)
  <2> DEFINE s == SubSeq(b, 1, Len(a))
  <2>1. s \in Seq(Nat) /\ Len(s) = Len(a) /\ \A i \in 1 .. Len(a) : s[i] = b[i]
    BY <1>1, <1>3
  <2>2. IsPrefix(a, b) <=> a = s
    BY <1>1, <1>3 DEF IsPrefix
  <2> HIDE DEF s
  <2>3. a = s <=> \A i \in 1 .. Len(a) : a[i] = s[i]
    BY <1>1, <2>1, SeqEqual
  <2> QED
    BY <1>3, <2>1, <2>2, <2>3
<1> QED
  BY <1>2, <1>3

LEMMA PrefixFacts ==
    ASSUME NEW a \in Seq(Nat), NEW b \in Seq(Nat), IsPrefix(a, b)
    PROVE  /\ ToSet(a) \subseteq ToSet(b)
           /\ IsPrefix(b, b)
           /\ \A c \in Seq(Nat) : IsPrefix(b, c) => IsPrefix(a, c)
<1>1. Len(a) \in Nat /\ Len(b) \in Nat /\ DOMAIN a = 1 .. Len(a) /\ DOMAIN b = 1 .. Len(b)
  OBVIOUS
<1>2. Len(a) <= Len(b) /\ \A i \in 1 .. Len(a) : a[i] = b[i]
  BY PrefixIs
<1>3. ToSet(a) \subseteq ToSet(b)
  <2>1. \A i \in DOMAIN a : i \in DOMAIN b /\ a[i] = b[i]
    BY <1>1, <1>2
  <2> QED
    BY <2>1 DEF ToSet
<1>4. IsPrefix(b, b)
  BY <1>1, PrefixIs
<1>5. ASSUME NEW c \in Seq(Nat), IsPrefix(b, c) PROVE IsPrefix(a, c)
  <2>1. Len(b) <= Len(c) /\ \A i \in 1 .. Len(b) : b[i] = c[i]
    BY <1>5, PrefixIs
  <2>2. Len(c) \in Nat
    OBVIOUS
  <2>3. Len(a) <= Len(c) /\ \A i \in 1 .. Len(a) : a[i] = c[i]
    BY <1>1, <1>2, <2>1, <2>2
  <2> QED
    BY <2>3, PrefixIs
<1> QED
  BY <1>3, <1>4, <1>5

\* More records keep no less.
LEMMA KeepsMore ==
    ASSUME NEW l, NEW r1, NEW r2, NEW app, NEW seen,
           Keeps(l, r1, app, seen), ToSet(r1) \subseteq ToSet(r2)
    PROVE  Keeps(l, r2, app, seen)
<1>1. OthersReached(l, r2, app, seen)
  BY DEF Keeps, OthersReached
<1>2. OwnReached(l, r2, app)
  BY DEF Keeps, OwnReached
<1> QED
  BY <1>1, <1>2 DEF Keeps

LEMMA OthersFinite ==
    ASSUME NEW l \in Seq(Envelope)
    PROVE  /\ IsFiniteSet(Others(l)) /\ Cardinality(Others(l)) \in Nat
           /\ Others(l) \in SUBSET DOMAIN l
<1>1. Others(l) \in SUBSET (1 .. Len(l)) /\ Len(l) \in Nat
  BY DEF Others
<1>2. IsFiniteSet(1 .. Len(l))
  BY <1>1, FS_Interval
<1> QED
  BY <1>1, <1>2, FS_Subset, FS_CardinalityType

\* The log with another envelope at its end.
LEMMA LogAppended ==
    ASSUME NEW l \in Seq(Envelope), NEW e \in Envelope
    PROVE  /\ Append(l, e) \in Seq(Envelope) /\ Len(Append(l, e)) = Len(l) + 1
           /\ DOMAIN Append(l, e) = DOMAIN l \union {Len(l) + 1}
           /\ Len(l) + 1 \notin DOMAIN l
           /\ \A p \in DOMAIN l : Append(l, e)[p] = l[p]
           /\ Append(l, e)[Len(l) + 1] = e
  OBVIOUS

LEMMA PeerGrows ==
    ASSUME NEW l \in Seq(Envelope), Numbered(l), NEW e,
           e = [from |-> Peer, gen |-> Cardinality(Others(l)) + 1, token |-> 0]
    PROVE  /\ Numbered(Append(l, e))
           /\ \A app \in Application : \A r, seen : Keeps(l, r, app, seen) => Keeps(Append(l, e), r, app, seen)
<1> DEFINE m == Append(l, e)
           o == Others(l)
           x == Len(l) + 1
           n == Cardinality(o)
<1>1. IsFiniteSet(o) /\ n \in Nat /\ o \in SUBSET DOMAIN l
  BY OthersFinite
<1>2. /\ e \in Envelope
      /\ e.from = Peer /\ e.gen = n + 1
  BY <1>1 DEF Envelope
<1>3. /\ DOMAIN m = DOMAIN l \union {x} /\ Len(m) = x /\ x \notin DOMAIN l
      /\ \A p \in DOMAIN l : m[p] = l[p] /\ p < x
      /\ m[x] = e
  <2>1. \A p \in DOMAIN l : p < x
    OBVIOUS
  <2> QED
    BY <1>2, <2>1, LogAppended
<1>4. Len(l) \in Nat /\ x = Len(l) + 1 /\ Len(l) <= x
  OBVIOUS
<1>g. \A p \in o : l[p].gen \in Nat
  <2>1. \A p \in DOMAIN l : l[p] \in Envelope
    OBVIOUS
  <2> QED
    BY <1>1, <2>1 DEF Envelope
<1> HIDE DEF m, x
<1>5. Others(m) = o \union {x} /\ x \notin o
  BY <1>1, <1>2, <1>3 DEF Others
<1>6. Cardinality(Others(m)) = n + 1
  BY <1>1, <1>5, FS_AddElement
<1>7. \A p \in o : m[p] = l[p] /\ m[p].gen <= n /\ m[p].gen \in Nat
  BY <1>1, <1>3, <1>g DEF Numbered
<1>8. Numbered(m)
  <2>1. \A p \in Others(m) : m[p].gen <= n + 1
    BY <1>1, <1>2, <1>3, <1>5, <1>7
  <2>2. \A p \in o : m[p].gen # m[x].gen
    BY <1>1, <1>2, <1>3, <1>7
  <2>3. \A p, q \in o : m[p].gen = m[q].gen => p = q
    BY <1>7 DEF Numbered
  <2> HIDE DEF o, n
  <2>4. \A p, q \in Others(m) : m[p].gen = m[q].gen => p = q
    BY <1>5, <2>2, <2>3
  <2> QED
    BY <1>6, <2>1, <2>4 DEF Numbered
<1>9. ASSUME NEW app \in Application, NEW r, NEW seen, Keeps(l, r, app, seen)
      PROVE  Keeps(m, r, app, seen)
  <2>1. app.cursor \in Nat /\ app.cursor <= Len(l)
    BY <1>9 DEF Application, Keeps, Within
  <2>2. app.processed \subseteq DOMAIN m /\ x \notin app.processed /\ app.cursor <= Len(m) /\ x > app.cursor
    BY <1>3, <1>4, <1>9, <2>1 DEF Keeps, Within
  <2>3. seen \subseteq {l[q].gen : q \in o}
    BY <1>9 DEF Keeps, Within
  <2>4. {l[q].gen : q \in o} \subseteq {m[q].gen : q \in Others(m)}
    BY <1>5, <1>7
  <2>5. m[x].gen \notin seen
    <3>1. \A g \in seen : \E q \in o : g = m[q].gen
      BY <1>7, <2>3
    <3>2. \A q \in o : m[q].gen # m[x].gen
      BY <1>1, <1>2, <1>3, <1>7
    <3> QED
      BY <3>1, <3>2
  <2>6. \A p \in Others(m) : p \in ToSet(r) \/ (p \notin app.processed /\ p > app.cursor /\ m[p].gen \notin seen)
    <3>1. \A p \in o : p \in ToSet(r) \/ (p \notin app.processed /\ p > app.cursor /\ l[p].gen \notin seen)
      BY <1>9 DEF Keeps, OthersReached
    <3> QED
      BY <1>5, <1>7, <2>2, <2>5, <3>1
  <2>7. \A p \in DOMAIN m \ Others(m) :
            p \in ToSet(r) \/ [token |-> m[p].token, gen |-> m[p].gen] \in app.outbox
    <3>1. DOMAIN m \ Others(m) = DOMAIN l \ o
      BY <1>3, <1>5
    <3>2. \A p \in DOMAIN l \ o : p \in ToSet(r) \/ [token |-> l[p].token, gen |-> l[p].gen] \in app.outbox
      BY <1>9 DEF Keeps, OwnReached
    <3> QED
      BY <1>3, <3>1, <3>2
  <2> QED
    BY <2>2, <2>3, <2>4, <2>6, <2>7 DEF Keeps, Within, OthersReached, OwnReached
<1> QED
  BY <1>8, <1>9 DEF m

LEMMA OwnGrows ==
    ASSUME NEW l \in Seq(Envelope), Numbered(l), NEW item \in Item, NEW e,
           e = [from |-> Self, gen |-> item.gen, token |-> item.token]
    PROVE  /\ Numbered(Append(l, e))
           /\ \A app \in Application : \A r, seen :
                Keeps(l, r, app, seen) /\ item \in app.outbox => Keeps(Append(l, e), r, app, seen)
<1> DEFINE m == Append(l, e)
           o == Others(l)
           x == Len(l) + 1
<1>1. o \in SUBSET DOMAIN l
  BY OthersFinite
<1>2. /\ e \in Envelope
      /\ e.from = Self /\ e.gen = item.gen /\ e.token = item.token
      /\ [token |-> e.token, gen |-> e.gen] = item
  BY DEF Envelope, Item
<1>3. /\ DOMAIN m = DOMAIN l \union {x} /\ Len(m) = x /\ x \notin DOMAIN l
      /\ \A p \in DOMAIN l : m[p] = l[p]
      /\ m[x] = e
  BY <1>2, LogAppended
<1>4. Len(l) \in Nat /\ x = Len(l) + 1
  OBVIOUS
<1> HIDE DEF m, x
<1>5. Others(m) = o
  BY <1>1, <1>2, <1>3 DEF Others, Self, Peer
<1>6. \A p \in o : m[p] = l[p]
  BY <1>1, <1>3
<1>7. Numbered(m)
  BY <1>5, <1>6 DEF Numbered
<1>8. ASSUME NEW app \in Application, NEW r, NEW seen, Keeps(l, r, app, seen), item \in app.outbox
      PROVE  Keeps(m, r, app, seen)
  <2>1. app.cursor \in Nat /\ app.cursor <= Len(l)
    BY <1>8 DEF Application, Keeps, Within
  <2>2. app.processed \subseteq DOMAIN m /\ app.cursor <= Len(m)
    BY <1>3, <1>4, <1>8, <2>1 DEF Keeps, Within
  <2>3. seen \subseteq {m[q].gen : q \in Others(m)}
    BY <1>5, <1>6, <1>8 DEF Keeps, Within
  <2>4. \A p \in Others(m) : p \in ToSet(r) \/ (p \notin app.processed /\ p > app.cursor /\ m[p].gen \notin seen)
    BY <1>5, <1>6, <1>8 DEF Keeps, OthersReached
  <2>5. ASSUME NEW p \in DOMAIN m \ Others(m)
        PROVE  p \in ToSet(r) \/ [token |-> m[p].token, gen |-> m[p].gen] \in app.outbox
    <3>1. CASE p = x
      BY <1>2, <1>3, <1>8, <3>1
    <3>2. CASE p # x
      BY <1>3, <1>5, <1>8, <3>2 DEF Keeps, OwnReached
    <3> QED
      BY <3>1, <3>2
  <2> QED
    BY <2>2, <2>3, <2>4, <2>5 DEF Keeps, Within, OthersReached, OwnReached
<1> QED
  BY <1>7, <1>8 DEF m

-----------------------------------------------------------------------------
(* What the changes of the memory keep.                                    *)

\* A memory in which nothing changed.
Same(m) ==
    m.app = mem.app /\ m.records = mem.records /\ m.mark = mem.mark /\ m.ratchet = mem.ratchet

\* The end of a page: what is shown of it is the part that decrypts.
LEMMA SyncKeeps ==
    ASSUME log \in Seq(Envelope), Numbered(log), MemFit(mem),
           Keeps(log, mem.records, mem.app, mem.ratchet.seen),
           NEW v, ViewFit(v), v.processed = mem.app.processed, v.records = mem.records,
           NEW upto \in Nat, v.cursor <= upto, upto <= Len(log), v.cursor = mem.app.cursor
    PROVE  LET m == Synced(v, upto)
           IN  /\ Keeps(log, m.records, m.app, m.ratchet.seen)
               /\ IsPrefix(mem.records, m.records)
               /\ m.mark \in {mem.mark, MarkAppend(mem.mark)}
               /\ m.mark = "none" => mem.mark = "none" /\ m.records = mem.records
               /\ Unprocessed(v, upto) = {} /\ upto = v.cursor => Same(m)
<1> DEFINE m == Synced(v, upto)
           fresh == Unprocessed(v, upto)
           gens == {log[p].gen : p \in {q \in fresh : log[q].from = Peer}}
           more == {p \in fresh : Decrypts(p) /\ p \notin ToSet(v.records)}
           o == Others(log)
<1>1. /\ DOMAIN m = DOMAIN mem
      /\ m.app = [mem.app EXCEPT !.processed = v.processed \union fresh, !.cursor = upto]
      /\ m.records = Shown(v, upto)
      /\ m.mark = IF Len(Shown(v, upto)) > Len(mem.records) THEN MarkAppend(mem.mark) ELSE mem.mark
      /\ m.ratchet = [mem.ratchet EXCEPT !.seen = @ \union gens]
  BY DEF MemFit, Synced, Application
<1>2. /\ fresh \in SUBSET (v.cursor + 1 .. upto)
      /\ Shown(v, upto) \in Seq(Nat)
      /\ Len(v.records) <= Len(Shown(v, upto))
      /\ \A i \in 1 .. Len(v.records) : Shown(v, upto)[i] = v.records[i]
      /\ ToSet(Shown(v, upto)) = ToSet(v.records) \union more
      /\ Len(Shown(v, upto)) = Len(v.records) => Shown(v, upto) = v.records
  BY ShownType
<1>3. fresh = (v.cursor + 1 .. upto) \ mem.app.processed
  BY DEF Unprocessed
<1>4. \A p \in fresh : p \in more \/ p \in ToSet(v.records) \/ ~Decrypts(p)
  OBVIOUS
<1>5. /\ mem.app \in Application /\ mem.ratchet \in Ratchet /\ mem.records \in Seq(Nat)
      /\ mem.app.cursor \in Nat /\ v.records \in Seq(Nat)
  BY DEF MemFit, Application
<1>6. /\ m.app.processed = mem.app.processed \union fresh /\ m.app.cursor = upto
      /\ m.app.outbox = mem.app.outbox
      /\ m.ratchet.seen = mem.ratchet.seen \union gens
  BY <1>1, <1>5 DEF Application, Ratchet
<1>7. o = {p \in DOMAIN log : log[p].from = Peer} /\ DOMAIN log = 1 .. Len(log) /\ Len(log) \in Nat
  BY DEF Others
<1> HIDE DEF m, more, o
<1>8. ToSet(m.records) = ToSet(mem.records) \union more
  BY <1>1, <1>2
<1>9. fresh \subseteq DOMAIN log /\ gens \subseteq {log[q].gen : q \in o}
  <2>1. fresh \subseteq DOMAIN log
    BY <1>2, <1>5, <1>7
  <2> HIDE DEF fresh
  <2>2. {q \in fresh : log[q].from = Peer} \subseteq o
    BY <1>7, <2>1
  <2> QED
    BY <2>1, <2>2
<1>10. Within(log, m.app, m.ratchet.seen)
  <2> HIDE DEF gens, fresh
  <2> QED
    BY <1>6, <1>9 DEF Keeps, Within, o
<1>11. OthersReached(log, m.records, m.app, m.ratchet.seen)
  <2> SUFFICES ASSUME NEW p \in o, p \notin ToSet(m.records)
               PROVE  p \notin m.app.processed /\ p > m.app.cursor /\ log[p].gen \notin m.ratchet.seen
    BY DEF OthersReached, o
  <2>1. p \notin mem.app.processed /\ p > mem.app.cursor /\ log[p].gen \notin mem.ratchet.seen
    BY <1>8 DEF Keeps, OthersReached, o
  <2>2. log[p].from = Peer /\ p \in Nat
    BY <1>7
  <2>3. Decrypts(p)
    BY <2>1, <2>2 DEF Decrypts
  <2>4. p \notin fresh
    <3> HIDE DEF fresh
    <3> QED
      BY <1>4, <1>8, <2>3
  <2>5. p > upto
    BY <1>3, <1>5, <2>1, <2>2, <2>4
  <2>6. log[p].gen \notin gens
    <3>1. \A q \in fresh : q # p
      BY <2>4
    <3>2. \A q \in {q \in fresh : log[q].from = Peer} : q \in o /\ q # p
      BY <1>7, <1>9, <3>1
    <3>3. \A q \in {q \in fresh : log[q].from = Peer} : log[q].gen # log[p].gen
      BY <3>2 DEF Numbered, o
    <3> QED
      BY <3>3
  <2> QED
    BY <1>6, <2>1, <2>4, <2>5, <2>6
<1>12. OwnReached(log, m.records, m.app)
  BY <1>6, <1>8 DEF Keeps, OwnReached
<1>13. IsPrefix(mem.records, m.records)
  <2> DEFINE a == mem.records
             b == m.records
  <2>1. a \in Seq(Nat) /\ b \in Seq(Nat) /\ Len(a) <= Len(b) /\ \A i \in 1 .. Len(a) : b[i] = a[i]
    BY <1>1, <1>2, <1>5
  <2> HIDE DEF a, b
  <2>2. IsPrefix(a, b)
    BY <2>1, PrefixIs
  <2> QED
    BY <2>2 DEF a, b
<1>14. m.mark \in {mem.mark, MarkAppend(mem.mark)}
  BY <1>1
<1>15. ASSUME m.mark = "none" PROVE mem.mark = "none" /\ m.records = mem.records
  <2>1. MarkAppend(mem.mark) # "none"
    BY DEF MarkAppend
  <2>2. ~(Len(Shown(v, upto)) > Len(mem.records)) /\ mem.mark = "none"
    BY <1>1, <1>15, <2>1
  <2>3. Len(Shown(v, upto)) \in Nat /\ Len(mem.records) \in Nat
    BY <1>2, <1>5
  <2> QED
    BY <1>1, <1>2, <2>2, <2>3
<1>16. ASSUME fresh = {}, upto = v.cursor PROVE Same(m)
  <2>1. gens = {} /\ more = {}
    BY <1>16 DEF more
  <2>2. m.app.processed = mem.app.processed /\ m.app.cursor = mem.app.cursor /\ m.ratchet.seen = mem.ratchet.seen
    BY <1>6, <1>16, <2>1
  <2> HIDE DEF gens, fresh
  <2>3. m.app = mem.app
    <3>1. v.processed \union fresh = mem.app.processed /\ upto = mem.app.cursor
      BY <1>6, <1>16, <2>2
    <3>2. m.app = [mem.app EXCEPT !.processed = mem.app.processed, !.cursor = mem.app.cursor]
      BY <1>1, <3>1
    <3> QED
      BY <1>5, <3>2 DEF Application
  <2>4. m.ratchet = mem.ratchet
    <3>1. mem.ratchet.seen \union gens = mem.ratchet.seen
      BY <2>1
    <3>2. m.ratchet = [mem.ratchet EXCEPT !.seen = mem.ratchet.seen]
      BY <1>1, <3>1
    <3> QED
      BY <1>5, <3>2 DEF Ratchet
  <2>5. Shown(v, upto) = v.records
    <3>1. InLogOrder({}) = <<>>
      <4>1. IsFiniteSet({}) /\ Cardinality({}) = 0
        BY FS_EmptySet
      <4>2. InLogOrder({}) \in Seq({}) /\ Len(InLogOrder({})) = 0
        BY <4>1, Ordered
      <4> QED
        BY <4>2
    <3>2. Shown(v, upto) = v.records \o <<>>
      BY <2>1, <3>1 DEF Shown, more, fresh
    <3> QED
      BY <1>5, <3>2
  <2>6. m.records = mem.records /\ m.mark = mem.mark
    <3>1. Len(mem.records) \in Nat
      BY <1>5
    <3> QED
      BY <1>1, <2>5, <3>1
  <2>7. m.app = mem.app /\ m.records = mem.records /\ m.mark = mem.mark /\ m.ratchet = mem.ratchet
    BY <2>3, <2>4, <2>6
  <2> QED
    BY <2>7 DEF Same
<1>17. Keeps(log, m.records, m.app, m.ratchet.seen)
  BY <1>10, <1>11, <1>12 DEF Keeps
<1> HIDE DEF fresh, gens
<1>18. fresh = {} /\ upto = v.cursor => Same(m)
  BY <1>16
<1> QED
  BY <1>13, <1>14, <1>15, <1>17, <1>18 DEF m, fresh

\* The end of deliverPending: the entry leaves the outbox when its envelope is
\* shown, and no other envelope of the device has its token.
LEMMA DeliverKeeps ==
    ASSUME log \in Seq(Envelope), LogOnce, MemFit(mem),
           Keeps(log, mem.records, mem.app, mem.ratchet.seen),
           NEW item \in Item, NEW p \in Posted(item)
    PROVE  LET m == Delivered(p, item)
           IN  /\ Keeps(log, m.records, m.app, m.ratchet.seen)
               /\ IsPrefix(mem.records, m.records)
               /\ m.mark = MarkAppend(mem.mark)
<1> DEFINE m == Delivered(p, item)
           o == Others(log)
<1>1. /\ m.app = [mem.app EXCEPT !.processed = @ \union {p}, !.outbox = @ \ {item}]
      /\ m.records = IF p \in ToSet(mem.records) THEN mem.records ELSE Append(mem.records, p)
      /\ m.mark = MarkAppend(mem.mark)
      /\ m.ratchet = mem.ratchet
  BY DEF MemFit, Delivered, Application
<1>2. p \in DOMAIN log /\ log[p].from = Self /\ log[p].token = item.token /\ p \in Nat
  BY DEF Posted, Positions
<1>3. mem.app \in Application /\ mem.records \in Seq(Nat)
  BY DEF MemFit
<1> HIDE DEF m
<1>4. /\ m.app.processed = mem.app.processed \union {p} /\ m.app.cursor = mem.app.cursor
      /\ m.app.outbox = mem.app.outbox \ {item}
  BY <1>1, <1>3 DEF Application
<1>5. ToSet(m.records) = ToSet(mem.records) \union {p} /\ IsPrefix(mem.records, m.records)
  <2>1. CASE p \in ToSet(mem.records)
    <3>1. m.records = mem.records
      BY <1>1, <2>1
    <3>2. IsPrefix(mem.records, mem.records)
      BY <1>3, PrefixIs
    <3> QED
      BY <2>1, <3>1, <3>2
  <2>2. CASE p \notin ToSet(mem.records)
    <3> DEFINE r == mem.records
               x == Append(r, p)
    <3>0. r \in Seq(Nat) /\ p \in Nat
      BY <1>2, <1>3
    <3>1. /\ x \in Seq(Nat) /\ Len(x) = Len(r) + 1 /\ Len(r) \in Nat
          /\ DOMAIN x = 1 .. Len(r) + 1 /\ DOMAIN r = 1 .. Len(r)
          /\ x[Len(r) + 1] = p
      <4> HIDE DEF r
      <4> QED
        BY <3>0
    <3>2. \A i \in 1 .. Len(r) : x[i] = r[i]
      <4> HIDE DEF r
      <4> QED
        BY <3>0
    <3>3. m.records = x
      BY <1>1, <2>2
    <3> HIDE DEF x, r
    <3>4. ToSet(x) = ToSet(r) \union {p}
      <4>1. \A i \in DOMAIN x : x[i] = p \/ (i \in DOMAIN r /\ x[i] = r[i])
        BY <3>1, <3>2
      <4>2. \A i \in DOMAIN r : i \in DOMAIN x /\ x[i] = r[i]
        BY <3>1, <3>2
      <4>3. Len(r) + 1 \in DOMAIN x
        BY <3>1
      <4>4. ToSet(x) \subseteq ToSet(r) \union {p}
        BY <4>1 DEF ToSet
      <4>5. ToSet(r) \subseteq ToSet(x) /\ p \in ToSet(x)
        BY <3>1, <4>2, <4>3 DEF ToSet
      <4> QED
        BY <4>4, <4>5
    <3>5. IsPrefix(r, x)
      <4>1. Len(r) <= Len(x) /\ \A i \in 1 .. Len(r) : r[i] = x[i]
        BY <3>1, <3>2
      <4> QED
        BY <3>0, <3>1, <4>1, PrefixIs
    <3> QED
      BY <3>3, <3>4, <3>5 DEF r
  <2> QED
    BY <2>1, <2>2
<1>6. Within(log, m.app, m.ratchet.seen)
  BY <1>1, <1>2, <1>4 DEF Keeps, Within
<1>7. OthersReached(log, m.records, m.app, m.ratchet.seen)
  <2> SUFFICES ASSUME NEW q \in Others(log), q \notin ToSet(m.records)
               PROVE  q \notin m.app.processed /\ q > m.app.cursor /\ log[q].gen \notin m.ratchet.seen
    BY DEF OthersReached
  <2>1. q # p
    BY <1>5
  <2> QED
    BY <1>1, <1>4, <1>5, <2>1 DEF Keeps, OthersReached
<1>8. OwnReached(log, m.records, m.app)
  <2> SUFFICES ASSUME NEW q \in DOMAIN log \ Others(log), q \notin ToSet(m.records)
               PROVE  [token |-> log[q].token, gen |-> log[q].gen] \in m.app.outbox
    BY DEF OwnReached
  <2> DEFINE i == [token |-> log[q].token, gen |-> log[q].gen]
  <2>1. i \in mem.app.outbox
    BY <1>5 DEF Keeps, OwnReached
  <2>2. q # p
    BY <1>5
  <2>3. log[q].from = Self
    <3>1. log[q] \in Envelope
      OBVIOUS
    <3> QED
      BY <3>1 DEF Envelope, Others
  <2>4. log[q].token # item.token
    BY <1>2, <2>2, <2>3 DEF LogOnce
  <2>5. i.token = log[q].token
    OBVIOUS
  <2> HIDE DEF i
  <2>6. i # item
    BY <2>4, <2>5
  <2> QED
    BY <1>4, <2>1, <2>6 DEF i
<1> QED
  BY <1>1, <1>5, <1>6, <1>7, <1>8 DEF Keeps, m

\* An entry more in the outbox keeps no less.
LEMMA OutboxKeeps ==
    ASSUME NEW l, NEW r, NEW a, NEW b, NEW seen, Keeps(l, r, a, seen),
           b.processed = a.processed, b.cursor = a.cursor, a.outbox \subseteq b.outbox
    PROVE  Keeps(l, r, b, seen)
<1>1. Within(l, b, seen)
  BY DEF Keeps, Within
<1>2. OthersReached(l, r, b, seen)
  BY DEF Keeps, OthersReached
<1>3. OwnReached(l, r, b)
  BY DEF Keeps, OwnReached
<1> QED
  BY <1>1, <1>2, <1>3 DEF Keeps

-----------------------------------------------------------------------------
(* One call at a time.                                                     *)

LEMMA OthersIdle ==
    ASSUME Alone, NEW t \in Calls, call[t].pc # "idle"
    PROVE  phase = "ready" /\ ~call[t].detached /\ \A u \in Calls : u # t => call[u] = Idle
<1>1. call[t] # Idle
  BY IdleFacts
<1> QED
  BY <1>1 DEF Alone

LEMMA AllSettled == (\A u \in Calls : call[u] = Idle) => Settled
  BY IdleFacts DEF Settled

LEMMA OneCall ==
    ASSUME IInv, NEW t \in Calls, \A u \in Calls : u # t => call[u] = Idle,
           NEW d, call' = [call EXCEPT ![t] = d], ~d.detached,
           phase' = "ready" \/ d = Idle, CallAgrees(call[t])'
    PROVE  /\ Alone' /\ (\A u \in Calls : CallAgrees(call[u]))'
           /\ Settled' <=> d.pc \notin {"save", "write"}
<1>1. call'[t] = d /\ \A u \in Calls : u # t => call'[u] = Idle
  BY DEF IInv, Shape
<1>2. Alone'
  BY <1>1, IdleFacts DEF Alone
<1>3. ASSUME NEW u \in Calls PROVE CallAgrees(call[u])'
  <2>1. CASE u = t
    BY <2>1
  <2>2. CASE u # t
    <3>1. call'[u] = Idle
      BY <1>1, <2>2
    <3> QED
      BY <3>1, IdleFacts DEF CallAgrees
  <2> QED
    BY <2>1, <2>2
<1>4. Settled' <=> d.pc \notin {"save", "write"}
  BY <1>1, IdleFacts DEF Settled
<1> QED
  BY <1>2, <1>3, <1>4

\* A step after which no call is out, and no client if it had one.
LEMMA NoCall ==
    ASSUME HInv, UNCHANGED <<log, disk>>, phase' # "ready", \A u \in Calls : call'[u] = Idle
    PROVE  HInv'
<1>1. Alone'
  BY IdleFacts DEF Alone
<1>2. \A u \in Calls : CallAgrees(call[u])'
  BY IdleFacts DEF CallAgrees
<1> QED
  BY <1>1, <1>2 DEF HInv

\* A call that was begun by a change of the memory.
LEMMA PersistBegun ==
    ASSUME IInv, HInv, UNCHANGED <<log, disk>>, phase' = "ready",
           NEW t \in Calls, \A u \in Calls : u # t => call[u] = Idle,
           NEW c, Shaped(c), ~c.detached, c.role # "sync",
           call' = [call EXCEPT ![t] = Persisting(c, mem')],
           Keeps(log, mem'.records, mem'.app, mem'.ratchet.seen),
           IsPrefix(disk.records, mem'.records), mem'.mark \in {"none", "append"},
           mem'.mark = "none" => mem'.records = disk.records
    PROVE  HInv'
<1> DEFINE d == Persisting(c, mem')
<1>1. /\ d.pc = "save" /\ d.role = c.role /\ d.detached = c.detached
      /\ d.clone = [app |-> mem'.app, records |-> mem'.records, mark |-> mem'.mark]
  BY DEF Persisting, Shaped
<1>2. call' = [call EXCEPT ![t] = d] /\ call'[t] = d
  BY DEF IInv, Shape
<1> HIDE DEF d
<1>3. CallAgrees(call[t])'
  BY <1>1, <1>2 DEF CallAgrees
<1>4. Alone' /\ (\A u \in Calls : CallAgrees(call[u]))' /\ ~Settled'
  BY <1>1, <1>2, <1>3, OneCall
<1>5. MemoryKept'
  BY <1>4 DEF MemoryKept
<1> QED
  BY <1>4, <1>5 DEF HInv

-----------------------------------------------------------------------------
(* The history, step by step.                                              *)

LEMMA BeginSyncKeeps ==
    ASSUME ~Overlap, IInv, Types, HInv, NEW t \in Calls, BeginSync(t) PROVE HInv'
<1> DEFINE v == [processed |-> mem.app.processed, records |-> mem.records,
                 cursor |-> mem.app.cursor, changed |-> FALSE,
                 asked |-> Len(log), more |-> FALSE]
           d == [Idle EXCEPT !.pc = "fetch", !.role = "sync", !.view = v]
<1>1. /\ call' = [call EXCEPT ![t] = d] /\ UNCHANGED <<log, phase, mem, disk>> /\ phase = "ready"
      /\ \A u \in Calls : call[u] = Idle
  BY DEF BeginSync, MayBegin
<1>2. MemFit(mem) /\ MemoryKept
  BY <1>1 DEF Types, HInv
<1>3. Len(log) \in v.cursor .. Len(log)
  BY <1>2 DEF MemFit, Application, MemoryKept, Keeps, Within, IInv, Shape
<1>4. v.processed = mem.app.processed /\ v.cursor = mem.app.cursor /\ v.records = mem.records /\ v.asked = Len(log)
  OBVIOUS
<1> HIDE DEF v
<1>5. d.pc = "fetch" /\ d.role = "sync" /\ ~d.detached /\ d.view = v /\ call'[t] = d
  BY <1>1, IdleFacts DEF Idle, IInv, Shape
<1> HIDE DEF d
<1>6. CallAgrees(call[t])'
  BY <1>1, <1>3, <1>4, <1>5 DEF CallAgrees
<1>7. Alone' /\ (\A u \in Calls : CallAgrees(call[u]))'
  BY <1>1, <1>5, <1>6, OneCall
<1>8. Settled
  BY <1>1, AllSettled
<1>9. MemoryKept'
  BY <1>1, <1>2, <1>8 DEF MemoryKept
<1> QED
  BY <1>1, <1>7, <1>9 DEF HInv

LEMMA PageArrivesKeeps ==
    ASSUME IInv, Types, HInv, NEW t \in Calls, PageArrives(t) PROVE HInv'
<1> DEFINE c == call[t]
           v == c.view
<1>1. /\ Shaped(c) /\ CallFit(c) /\ ViewFit(v) /\ log \in Seq(Envelope) /\ Len(log) \in Nat
      /\ c.pc = "fetch" /\ c.role = "sync" /\ UNCHANGED <<log, phase, disk>>
      /\ DOMAIN call = Calls
  BY DEF IInv, Shape, Shaped, Types, CallFit, PageArrives
<1>2. /\ phase = "ready" /\ ~c.detached /\ MemFit(mem) /\ MemoryKept
      /\ \A u \in Calls : u # t => call[u] = Idle
  BY <1>1, OthersIdle DEF HInv, Types
<1>3. PICK n \in v.asked .. Len(log) : PageArrives(t)!2!(n)
  BY DEF PageArrives
<1> DEFINE upto == IF v.cursor + PageSize < n THEN v.cursor + PageSize ELSE n
           fresh == Unprocessed(v, upto)
           changed == v.changed \/ fresh # {}
           w == [processed |-> v.processed \union fresh,
                 records |-> IF c.detached THEN v.records ELSE Shown(v, upto),
                 cursor |-> upto, changed |-> changed,
                 asked |-> 0, more |-> upto < n]
           next == [c EXCEPT !.view = w]
           throws == c.detached /\ fresh # {}
           persists == ~throws /\ (changed \/ upto # v.cursor)
           m == Synced(v, upto)
           d == IF persists THEN Persisting(next, m) ELSE Idle
<1>4. mem' = m /\ call' = [call EXCEPT ![t] = d]
  BY <1>2, <1>3
<1>5. /\ v.processed = mem.app.processed /\ v.cursor = mem.app.cursor /\ v.records = mem.records
      /\ v.asked \in v.cursor .. Len(log)
  BY <1>1 DEF HInv, CallAgrees
<1>6. upto \in Nat /\ v.cursor <= upto /\ upto <= Len(log)
  <2>1. v.cursor \in Nat /\ v.asked \in Nat
    BY <1>1 DEF ViewFit
  <2> QED
    BY <1>1, <1>3, <1>5, <2>1, PageSizeAssumption
<1>7. /\ w.processed = v.processed \union fresh /\ w.records = Shown(v, upto) /\ w.cursor = upto
  BY <1>2
<1>8. ~persists => fresh = {} /\ upto = v.cursor
  BY <1>2
<1> HIDE DEF upto
<1>9. /\ m.app.processed = v.processed \union fresh /\ m.app.cursor = upto
      /\ m.records = Shown(v, upto)
  BY <1>2 DEF MemFit, Application, Synced
<1>10. /\ Keeps(log, m.records, m.app, m.ratchet.seen)
       /\ IsPrefix(mem.records, m.records)
       /\ m.mark \in {mem.mark, MarkAppend(mem.mark)}
       /\ m.mark = "none" => mem.mark = "none" /\ m.records = mem.records
       /\ fresh = {} /\ upto = v.cursor => Same(m)
  BY <1>1, <1>2, <1>5, <1>6, SyncKeeps DEF HInv, MemoryKept
<1>11. m.records \in Seq(Nat) /\ mem.records \in Seq(Nat) /\ disk.records \in Seq(Nat)
  BY <1>1, <1>2, <1>6, SyncedType DEF MemFit, HInv
<1> HIDE DEF w, fresh, m
<1>12. IsPrefix(disk.records, m.records) /\ m.mark \in {"none", "append"}
       /\ (m.mark = "none" => m.records = disk.records)
  <2>1. IsPrefix(disk.records, mem.records) /\ mem.mark \in {"none", "append"}
        /\ (mem.mark = "none" => mem.records = disk.records)
    BY <1>2 DEF MemoryKept
  <2> QED
    BY <1>10, <1>11, <2>1, PrefixFacts DEF MarkAppend
<1>13. CASE persists
  <2>1. /\ d.pc = "save" /\ d.role = "sync" /\ ~d.detached /\ d.view = w
        /\ d.clone = [app |-> m.app, records |-> m.records, mark |-> m.mark]
    BY <1>1, <1>2, <1>13 DEF Persisting, Shaped
  <2> HIDE DEF d
  <2>2. call'[t] = d
    BY <1>1, <1>4
  <2>3. CallAgrees(call[t])'
    BY <1>4, <1>7, <1>9, <2>1, <2>2 DEF CallAgrees
  <2>4. Alone' /\ (\A u \in Calls : CallAgrees(call[u]))' /\ ~Settled'
    BY <1>1, <1>2, <1>4, <2>1, <2>3, OneCall
  <2>5. MemoryKept'
    BY <1>1, <1>4, <1>10, <1>12, <2>4 DEF MemoryKept
  <2> QED
    BY <1>1, <2>4, <2>5 DEF HInv
<1>14. CASE ~persists
  <2>1. Same(m) /\ d = Idle
    BY <1>8, <1>10, <1>14
  <2> HIDE DEF d
  <2>2. call'[t] = Idle
    BY <1>1, <1>4, <2>1
  <2>3. CallAgrees(call[t])'
    BY <2>2, IdleFacts DEF CallAgrees
  <2>4. Alone' /\ (\A u \in Calls : CallAgrees(call[u]))'
    BY <1>1, <1>2, <1>4, <2>1, <2>3, IdleFacts, OneCall
  <2>5. Settled
    BY <1>1, <1>2, IdleFacts DEF Settled
  <2>6. MemoryKept'
    BY <1>1, <1>2, <1>4, <2>1, <2>5 DEF MemoryKept, Same
  <2> QED
    BY <1>1, <2>4, <2>6 DEF HInv
<1> QED
  BY <1>13, <1>14

LEMMA BeginSendKeeps ==
    ASSUME ~Overlap, IInv, Types, HInv, NEW t \in Calls, BeginSend(t) PROVE HInv'
<1> DEFINE item == [token |-> minted + 1, gen |-> mem.ratchet.sent + 1]
           m == [mem EXCEPT !.ratchet.sent = @ + 1, !.app.outbox = @ \union {item}]
           c == [Idle EXCEPT !.role = "send", !.item = item]
<1>1. /\ UNCHANGED <<log, phase, disk>> /\ phase = "ready" /\ mem' = m
      /\ call' = [call EXCEPT ![t] = Persisting(c, m)]
      /\ \A u \in Calls : call[u] = Idle
  BY DEF BeginSend, MayBegin
<1>2. MemFit(mem) /\ MemoryKept /\ minted \in Nat
  BY <1>1 DEF Types, HInv, IInv, Shape
<1>3. item \in Item
  BY <1>2 DEF MemFit, Ratchet, Item
<1> HIDE DEF item
<1>4. /\ m.app.processed = mem.app.processed /\ m.app.cursor = mem.app.cursor
      /\ mem.app.outbox \subseteq m.app.outbox
      /\ m.records = mem.records /\ m.mark = mem.mark /\ m.ratchet.seen = mem.ratchet.seen
  BY <1>2 DEF MemFit, Application, Ratchet
<1> HIDE DEF m
<1>5. Keeps(log, m.records, m.app, m.ratchet.seen)
  <2>1. Keeps(log, mem.records, mem.app, mem.ratchet.seen)
    BY <1>2 DEF MemoryKept
  <2>2. Keeps(log, mem.records, m.app, mem.ratchet.seen)
    BY <1>4, <2>1, OutboxKeeps
  <2> QED
    BY <1>4, <2>2
<1>6. Shaped(c) /\ ~c.detached /\ c.role = "send"
  BY <1>3, IdleFacts DEF Shaped, Roles, Idle
<1> HIDE DEF c
<1>7. /\ IsPrefix(disk.records, m.records) /\ m.mark \in {"none", "append"}
      /\ m.mark = "none" => m.records = disk.records
  BY <1>2, <1>4 DEF MemoryKept
<1>8. call' = [call EXCEPT ![t] = Persisting(c, mem')] /\ phase' = "ready"
  BY <1>1
<1> QED
  BY <1>1, <1>5, <1>6, <1>7, <1>8, PersistBegun

LEMMA PostArrivesKeeps ==
    ASSUME IInv, Types, HInv, NEW t \in Calls, PostArrives(t) PROVE HInv'
<1> DEFINE c == call[t]
           d == [c EXCEPT !.pc = "posted"]
           e == [from |-> Self, gen |-> c.item.gen, token |-> c.item.token]
<1>1. /\ c.pc = "post" /\ call' = [call EXCEPT ![t] = d] /\ UNCHANGED <<phase, mem, disk>>
      /\ log' = log \/ log' = Append(log, e)
  BY DEF PostArrives
<1>2. Shaped(c) /\ log \in Seq(Envelope) /\ c.item \in Item /\ DOMAIN call = Calls
  BY DEF IInv, Shape, Shaped
<1>3. /\ phase = "ready" /\ ~c.detached /\ MemFit(mem) /\ MemoryKept
      /\ \A u \in Calls : u # t => call[u] = Idle
  BY <1>1, OthersIdle DEF HInv, Types
<1>4. Settled
  BY <1>1, <1>3, IdleFacts DEF Settled
<1>5. c.item \in mem.app.outbox /\ c.item \in disk.state.app.outbox
  BY <1>1, <1>3, <1>4 DEF HInv, CallAgrees, MemoryKept
<1>6. /\ Numbered(log) /\ Keeps(log, disk.records, disk.state.app, disk.state.ratchet.seen)
      /\ Keeps(log, mem.records, mem.app, mem.ratchet.seen)
      /\ disk.state.app \in Application /\ mem.app \in Application
  BY <1>3 DEF HInv, MemoryKept, Types, MemFit, RuntimeState
<1>7. /\ Numbered(log') /\ Keeps(log', disk.records, disk.state.app, disk.state.ratchet.seen)
      /\ Keeps(log', mem.records, mem.app, mem.ratchet.seen)
  <2> HIDE DEF e
  <2>1. CASE log' = log
    BY <1>6, <2>1
  <2>2. CASE log' = Append(log, e)
    <3>1. e = [from |-> Self, gen |-> c.item.gen, token |-> c.item.token]
      BY DEF e
    <3> QED
      BY <1>2, <1>5, <1>6, <2>2, <3>1, OwnGrows
  <2> QED
    BY <1>1, <2>1, <2>2
<1>8. /\ d.pc = "posted" /\ d.role = c.role /\ d.item = c.item /\ ~d.detached /\ d.view = c.view
      /\ call'[t] = d
  BY <1>1, <1>2, <1>3 DEF Shaped
<1> HIDE DEF d
<1>9. CallAgrees(call[t])'
  BY <1>1, <1>5, <1>8 DEF CallAgrees, HInv
<1>10. Alone' /\ (\A u \in Calls : CallAgrees(call[u]))'
  BY <1>1, <1>3, <1>8, <1>9, OneCall
<1>11. MemoryKept'
  BY <1>1, <1>3, <1>4, <1>7 DEF MemoryKept
<1> QED
  BY <1>1, <1>7, <1>10, <1>11 DEF HInv

LEMMA PostFailsKeeps ==
    ASSUME IInv, Types, HInv, NEW t \in Calls, PostFails(t) PROVE HInv'
<1>1. /\ call[t].pc \in {"post", "posted"} /\ call' = [call EXCEPT ![t] = Idle]
      /\ UNCHANGED <<log, disk>>
      /\ phase' = "absent" \/ UNCHANGED <<phase, mem>>
      /\ DOMAIN call = Calls
  BY DEF PostFails, IInv, Shape
<1>2. /\ phase = "ready" /\ MemoryKept
      /\ \A u \in Calls : u # t => call[u] = Idle
  BY <1>1, OthersIdle DEF HInv
<1>3. call'[t] = Idle /\ \A u \in Calls : call'[u] = Idle
  BY <1>1, <1>2
<1>4. CASE phase' = "absent"
  BY <1>1, <1>3, <1>4, NoCall
<1>5. CASE UNCHANGED <<phase, mem>>
  <2>1. CallAgrees(call[t])'
    BY <1>3, IdleFacts DEF CallAgrees
  <2>2. Alone' /\ (\A u \in Calls : CallAgrees(call[u]))'
    BY <1>1, <1>2, <1>5, <2>1, IdleFacts, OneCall
  <2>3. Settled
    BY <1>1, <1>2, IdleFacts DEF Settled
  <2>4. MemoryKept'
    BY <1>1, <1>2, <1>5, <2>3 DEF MemoryKept
  <2> QED
    BY <1>1, <2>2, <2>4 DEF HInv
<1> QED
  BY <1>1, <1>4, <1>5

LEMMA PostReturnsKeeps ==
    ASSUME IInv, Types, HInv, NEW t \in Calls, PostReturns(t) PROVE HInv'
<1>1. UNCHANGED <<log, phase, disk>> /\ call[t].pc = "posted" /\ log \in Seq(Envelope)
      /\ call[t].item \in Item /\ LogOnce
  BY DEF PostReturns, IInv, Shape, Shaped, Generations
<1>2. /\ phase = "ready" /\ ~call[t].detached /\ MemFit(mem) /\ MemoryKept
      /\ \A u \in Calls : u # t => call[u] = Idle
  BY <1>1, OthersIdle DEF HInv, Types
<1> DEFINE role == IF call[t].role = "retry" THEN "retry" ELSE "delivered"
           c == [Idle EXCEPT !.role = role]
<1>3. PICK p \in Posted(call[t].item) :
          /\ mem' = Delivered(p, call[t].item)
          /\ call' = [call EXCEPT ![t] = Persisting(c, Delivered(p, call[t].item))]
  BY <1>2 DEF PostReturns
<1>4. role \in Roles /\ role # "sync"
  BY DEF Roles
<1> HIDE DEF role
<1>5. Shaped(c) /\ ~c.detached /\ c.role # "sync"
  BY <1>4, IdleFacts DEF Shaped, Idle
<1> HIDE DEF c
<1>6. p \in Positions
  BY DEF Posted
<1>7. MemFit(mem')
  BY <1>1, <1>2, <1>3, <1>6, DeliveredType
<1>8. /\ Keeps(log, mem'.records, mem'.app, mem'.ratchet.seen)
      /\ IsPrefix(mem.records, mem'.records)
      /\ mem'.mark = MarkAppend(mem.mark)
  BY <1>1, <1>2, <1>3, DeliverKeeps DEF MemoryKept
<1>9. mem'.mark = "append" /\ IsPrefix(disk.records, mem.records)
  BY <1>2, <1>8 DEF MemoryKept, MarkAppend
<1>10. IsPrefix(disk.records, mem'.records)
  BY <1>2, <1>7, <1>8, <1>9, PrefixFacts DEF MemFit, HInv
<1>11. call' = [call EXCEPT ![t] = Persisting(c, mem')] /\ phase' = "ready"
  BY <1>1, <1>2, <1>3
<1> QED
  BY <1>1, <1>2, <1>5, <1>8, <1>9, <1>10, <1>11, PersistBegun

\* What a save of the one call finds and leaves.
LEMMA SaveFacts ==
    ASSUME IInv, Types, HInv, NEW t \in Calls, SaveDone(t)
    PROVE  /\ phase = "ready" /\ MemFit(mem) /\ MemoryKept /\ disk.records \in Seq(Nat)
           /\ ~call[t].detached /\ \A u \in Calls : u # t => call[u] = Idle
           /\ disk'.records = mem.records /\ disk'.state = disk.state
           /\ call[t].clone = [app |-> mem.app, records |-> mem.records, mark |-> mem.mark]
<1>1. call[t].pc = "save" /\ disk' = [disk EXCEPT !.records = Saved(call[t].clone)]
  BY DEF SaveDone, MaySave
<1>2. /\ phase = "ready" /\ ~call[t].detached /\ MemFit(mem) /\ MemoryKept
      /\ \A u \in Calls : u # t => call[u] = Idle
      /\ disk.records \in Seq(Nat)
  BY <1>1, OthersIdle DEF HInv, Types
<1>3. call[t].clone = [app |-> mem.app, records |-> mem.records, mark |-> mem.mark]
  BY <1>1 DEF HInv, CallAgrees
<1>4. mem.records # Gone /\ disk.records # Gone
  BY <1>2, GoneAssumption DEF MemFit
<1>5. Saved(call[t].clone) = mem.records
  <2>1. call[t].clone.records = mem.records /\ call[t].clone.mark = mem.mark
    BY <1>3
  <2> QED
    BY <1>2, <1>4, <2>1 DEF Saved, MemoryKept
<1>6. disk'.records = mem.records /\ disk'.state = disk.state
  BY <1>1, <1>5 DEF Types
<1> QED
  BY <1>2, <1>3, <1>6

LEMMA SaveDoneKeeps ==
    ASSUME IInv, Types, HInv, NEW t \in Calls, SaveDone(t) PROVE HInv'
<1> DEFINE c == call[t]
           s == [identity |-> ~c.detached, app |-> c.clone.app,
                 ratchet |-> IF c.detached THEN NoRatchet ELSE mem.ratchet]
           d == [c EXCEPT !.pc = "write", !.clone = NoClone, !.payload = s]
<1>1. /\ call' = [call EXCEPT ![t].pc = "write", ![t].clone = NoClone, ![t].payload = s]
      /\ UNCHANGED <<log, phase, mem>> /\ Shaped(c) /\ DOMAIN call = Calls
  BY DEF SaveDone, IInv, Shape
<1>2. /\ phase = "ready" /\ MemFit(mem) /\ MemoryKept /\ disk.records \in Seq(Nat)
      /\ ~c.detached /\ \A u \in Calls : u # t => call[u] = Idle
      /\ disk'.records = mem.records /\ disk'.state = disk.state
      /\ c.clone = [app |-> mem.app, records |-> mem.records, mark |-> mem.mark]
  BY SaveFacts
<1>3. call' = [call EXCEPT ![t] = d]
  BY <1>1 DEF Shaped
<1>4. s.app = mem.app /\ s.ratchet = mem.ratchet
  BY <1>2
<1> HIDE DEF s
<1>5. /\ d.pc = "write" /\ d.role = c.role /\ ~d.detached /\ d.view = c.view /\ d.payload = s
      /\ call'[t] = d
  BY <1>1, <1>2, <1>3 DEF Shaped
<1> HIDE DEF d
<1>6. CallAgrees(call[t])'
  BY <1>1, <1>2, <1>4, <1>5 DEF CallAgrees, HInv
<1>7. Alone' /\ (\A u \in Calls : CallAgrees(call[u]))' /\ ~Settled'
  BY <1>1, <1>2, <1>3, <1>5, <1>6, OneCall
<1>8. /\ ToSet(disk.records) \subseteq ToSet(mem.records) /\ IsPrefix(mem.records, mem.records)
      /\ mem.records \in Seq(Nat)
  BY <1>2, PrefixFacts DEF MemoryKept, MemFit
<1>9. Keeps(log, mem.records, disk.state.app, disk.state.ratchet.seen)
  BY <1>8, KeepsMore DEF HInv
<1>10. MemoryKept'
  BY <1>1, <1>2, <1>7, <1>8 DEF MemoryKept
<1> QED
  BY <1>1, <1>2, <1>7, <1>8, <1>9, <1>10 DEF HInv

\* What restore posts again waits in the outbox.
LEMMA RetryAgrees ==
    ASSUME NEW outbox \in SUBSET Item
    PROVE  LET d == NextRetry(outbox)
           IN  /\ ~d.detached /\ d.role # "sync" /\ d.pc \in {"idle", "post"}
               /\ d.pc = "post" => d.item \in outbox
<1>1. CASE outbox = {}
  BY <1>1, IdleFacts DEF NextRetry
<1>2. CASE outbox # {}
  <2> DEFINE i == CHOOSE i \in outbox : \A j \in outbox : i.token <= j.token
             d == [Idle EXCEPT !.pc = "post", !.role = "retry", !.item = i]
  <2>1. i \in outbox
    BY <1>2, OldestItem
  <2> HIDE DEF i
  <2>2. d.pc = "post" /\ d.role = "retry" /\ d.item = i /\ ~d.detached
    BY IdleFacts DEF Idle
  <2>3. NextRetry(outbox) = d
    BY <1>2 DEF NextRetry, i
  <2> HIDE DEF d
  <2> QED
    BY <2>1, <2>2, <2>3
<1> QED
  BY <1>1, <1>2

LEMMA StateWrittenKeeps ==
    ASSUME IInv, Types, HInv, NEW t \in Calls, StateWritten(t) PROVE HInv'
<1> DEFINE c == call[t]
           d == Continued(c)
<1>1. /\ c.pc = "write" /\ UNCHANGED <<log, phase>> /\ call' = [call EXCEPT ![t] = d]
      /\ disk' = [disk EXCEPT !.state = c.payload]
      /\ Shaped(c) /\ DOMAIN call = Calls /\ Len(log) \in Nat
  BY DEF StateWritten, MayWrite, IInv, Shape
<1>2. /\ phase = "ready" /\ ~c.detached /\ MemFit(mem) /\ MemoryKept
      /\ \A u \in Calls : u # t => call[u] = Idle
  BY <1>1, OthersIdle DEF HInv, Types
<1>3. /\ mem'.app = mem.app /\ mem'.records = mem.records /\ mem'.ratchet = mem.ratchet
      /\ mem'.mark = "none"
  BY <1>2 DEF StateWritten, MemFit
<1>4. disk.records = mem.records /\ c.payload.app = mem.app /\ c.payload.ratchet = mem.ratchet
  BY <1>1 DEF HInv, CallAgrees
<1>5. disk'.records = mem.records /\ disk'.state = c.payload
  BY <1>1, <1>4 DEF Types
<1>6. Keeps(log, mem.records, mem.app, mem.ratchet.seen)
  BY <1>2 DEF MemoryKept
<1>7. /\ ~d.detached
      /\ d.pc \notin {"save", "write"}
      /\ d.role = "sync" => d.view.processed = mem.app.processed /\ d.view.cursor = mem.app.cursor
                            /\ d.view.records = mem.records
      /\ d.pc = "fetch" => d.view.asked \in d.view.cursor .. Len(log)
      /\ d.pc \in {"post", "posted"} => d.item \in mem.app.outbox
  <2>1. CASE c.role = "sync" /\ c.view.more
    <3> DEFINE w == [c.view EXCEPT !.asked = Len(log)]
               x == [Idle EXCEPT !.pc = "fetch", !.role = "sync", !.detached = c.detached, !.view = w]
    <3>1. d = x
      BY <2>1 DEF Continued
    <3>2. /\ c.view.processed = mem.app.processed /\ c.view.cursor = mem.app.cursor
          /\ c.view.records = mem.records
      BY <2>1 DEF HInv, CallAgrees
    <3>3. /\ w.processed = c.view.processed /\ w.records = c.view.records /\ w.cursor = c.view.cursor
      OBVIOUS
    <3>4. mem.app.cursor \in Nat /\ mem.app.cursor <= Len(log)
      BY <1>2, <1>6 DEF MemFit, Application, Keeps, Within
    <3>5. w.asked = Len(log)
      BY DEF Types, CallFit, ViewFit
    <3> HIDE DEF w
    <3>6. x.pc = "fetch" /\ x.role = "sync" /\ x.detached = c.detached /\ x.view = w
      BY DEF Idle
    <3> HIDE DEF x, d
    <3> QED
      BY <1>1, <1>2, <3>1, <3>2, <3>3, <3>4, <3>5, <3>6
  <2>2. CASE ~(c.role = "sync" /\ c.view.more) /\ c.role = "send" /\ c.item \in mem.app.outbox
    <3>1. d = [Idle EXCEPT !.pc = "post", !.role = "send", !.item = c.item]
      BY <1>2, <2>2 DEF Continued
    <3>2. d.pc = "post" /\ d.role = "send" /\ d.item = c.item /\ ~d.detached
      BY <3>1, IdleFacts DEF Idle
    <3> QED
      BY <2>2, <3>2
  <2>3. CASE c.role = "retry"
    <3>1. d = NextRetry(mem.app.outbox)
      BY <1>2, <2>3 DEF Continued
    <3>2. mem.app.outbox \in SUBSET Item
      BY <1>2 DEF MemFit, Application
    <3> HIDE DEF d
    <3> QED
      BY <3>1, <3>2, RetryAgrees
  <2>4. CASE /\ ~(c.role = "sync" /\ c.view.more)
             /\ ~(c.role = "send" /\ c.item \in mem.app.outbox)
             /\ c.role # "retry"
    <3>1. d = Idle
      BY <1>2, <2>4 DEF Continued
    <3> QED
      BY <3>1, IdleFacts
  <2> QED
    BY <2>1, <2>2, <2>3, <2>4
<1> HIDE DEF d
<1>8. call'[t] = d
  BY <1>1
<1>9. CallAgrees(call[t])'
  BY <1>1, <1>3, <1>7, <1>8 DEF CallAgrees
<1>10. Alone' /\ (\A u \in Calls : CallAgrees(call[u]))'
  BY <1>1, <1>2, <1>7, <1>9, OneCall
<1>11. IsPrefix(mem.records, mem.records) /\ mem.records \in Seq(Nat)
  BY <1>2, PrefixFacts DEF MemoryKept, MemFit, HInv
<1>12. MemoryKept'
  BY <1>1, <1>3, <1>4, <1>5, <1>6, <1>11 DEF MemoryKept
<1> QED
  BY <1>1, <1>4, <1>5, <1>6, <1>10, <1>11, <1>12 DEF HInv

LEMMA PersistFailsKeeps ==
    ASSUME IInv, Types, HInv, NEW t \in Calls, PersistFails(t) PROVE HInv'
<1>1. UNCHANGED <<log, disk>> /\ call[t].pc \in {"save", "write"}
  BY DEF PersistFails, MaySave, MayWrite
<1>2. ~call[t].detached /\ \A u \in Calls : u # t => call[u] = Idle
  BY <1>1, OthersIdle DEF HInv
<1>3. /\ call' = [u \in Calls |-> IF u = t \/ call[u] = Idle THEN Idle
                                  ELSE [call[u] EXCEPT !.detached = TRUE]]
      /\ phase' \in {"absent", "broken"}
  BY <1>2 DEF PersistFails
<1>4. \A u \in Calls : call'[u] = Idle
  BY <1>2, <1>3
<1> QED
  BY <1>1, <1>3, <1>4, NoCall

LEMMA RestoreKeeps ==
    ASSUME IInv, Types, HInv, NEW t \in Calls, Restore(t) PROVE HInv'
<1>1. phase = "absent" /\ \A u \in Calls : call[u] = Idle
  BY DEF Restore, HInv, Alone
<1>2. disk.records \in Seq(Nat) /\ disk.records # Gone /\ disk.state.app.outbox \in SUBSET Item
  BY GoneAssumption DEF HInv, Types, RuntimeState, Application
<1>3. /\ Restored.app = disk.state.app /\ Restored.ratchet = disk.state.ratchet
      /\ Restored.records = disk.records /\ Restored.mark = "none"
  BY <1>2 DEF Restored
<1> DEFINE d == NextRetry(disk.state.app.outbox)
<1>4. /\ UNCHANGED <<log, disk>> /\ phase' = "ready" /\ mem' = Restored
      /\ call' = [call EXCEPT ![t] = d]
  BY <1>3 DEF Restore
<1>5. /\ ~d.detached /\ d.role # "sync" /\ d.pc \in {"idle", "post"}
      /\ d.pc = "post" => d.item \in disk.state.app.outbox
  BY <1>2, RetryAgrees
<1> HIDE DEF d
<1>6. call'[t] = d
  BY <1>4 DEF IInv, Shape
<1>7. CallAgrees(call[t])'
  BY <1>3, <1>4, <1>5, <1>6 DEF CallAgrees
<1>8. Alone' /\ (\A u \in Calls : CallAgrees(call[u]))'
  BY <1>1, <1>4, <1>5, <1>7, OneCall
<1>9. IsPrefix(disk.records, disk.records)
  BY <1>2, PrefixIs
<1>10. MemoryKept'
  BY <1>3, <1>4, <1>9 DEF MemoryKept, HInv
<1> QED
  BY <1>4, <1>8, <1>10 DEF HInv

LEMMA EmptiedKeeps ==
    ASSUME ~Release, HInv, DestroyMemory \/ Crash PROVE HInv'
<1>1. UNCHANGED <<log, disk>> /\ phase' = "absent"
  BY DEF DestroyMemory, Crash
<1>2. \A u \in Calls : call'[u] = Idle
  BY DEF DestroyMemory, Crash
<1> QED
  BY <1>1, <1>2, NoCall

LEMMA PeerPostsKeeps ==
    ASSUME IInv, Types, HInv, PeerPosts PROVE HInv'
<1> DEFINE e == [from |-> Peer, gen |-> Cardinality(Others(log)) + 1, token |-> 0]
<1>1. log' = Append(log, e) /\ UNCHANGED <<phase, mem, call, queue, disk>>
  BY DEF PeerPosts, Others, Positions
<1>2. log \in Seq(Envelope) /\ Len(log) \in Nat
  BY DEF IInv, Shape
<1>3. /\ Numbered(log) /\ disk.state.app \in Application
      /\ Keeps(log, disk.records, disk.state.app, disk.state.ratchet.seen)
  BY DEF HInv, Types, RuntimeState
<1>4. phase = "ready" => mem.app \in Application /\ Keeps(log, mem.records, mem.app, mem.ratchet.seen)
  BY DEF HInv, MemoryKept, Types, MemFit
<1>5. e = [from |-> Peer, gen |-> Cardinality(Others(log)) + 1, token |-> 0]
  OBVIOUS
<1>6. Len(log') = Len(log) + 1
  <2>1. Cardinality(Others(log)) \in Nat
    BY <1>2, OthersFinite
  <2>2. e \in Envelope
    BY <2>1 DEF Envelope
  <2> HIDE DEF e
  <2> QED
    BY <1>1, <1>2, <2>2, LogAppended
<1> HIDE DEF e
<1>7. /\ Numbered(log')
      /\ Keeps(log', disk.records, disk.state.app, disk.state.ratchet.seen)
      /\ phase = "ready" => Keeps(log', mem.records, mem.app, mem.ratchet.seen)
  BY <1>1, <1>2, <1>3, <1>4, <1>5, PeerGrows
<1>8. phase' = "ready" => MemoryKept'
  BY <1>1, <1>7 DEF HInv, MemoryKept, Settled
<1>9. \A u \in Calls : CallAgrees(call[u])'
  <2>1. \A u \in Calls : CallAgrees(call[u]) /\ call[u].view.cursor \in Nat
    BY DEF HInv, Types, CallFit, ViewFit
  <2> QED
    BY <1>1, <1>2, <1>6, <2>1 DEF CallAgrees
<1>10. Alone'
  BY <1>1 DEF HInv, Alone
<1> QED
  BY <1>1, <1>7, <1>8, <1>9, <1>10 DEF HInv

LEMMA InitKeeps == Init => HInv
<1> SUFFICES ASSUME Init PROVE HInv
  OBVIOUS
<1>1. /\ log = <<>> /\ phase = "absent" /\ \A t \in Calls : call[t] = Idle
      /\ disk.records = <<>> /\ disk.state = [NoState EXCEPT !.identity = TRUE]
  BY DEF Init
<1>2. disk.state.app = NoApplication /\ disk.state.ratchet = NoRatchet
  BY <1>1 DEF NoState
<1>3. DOMAIN log = {} /\ Others(log) = {} /\ Len(log) = 0
  BY <1>1 DEF Others
<1>4. Numbered(log)
  BY <1>3 DEF Numbered
<1>5. Keeps(log, disk.records, disk.state.app, disk.state.ratchet.seen)
  BY <1>2, <1>3 DEF Keeps, Within, OthersReached, OwnReached, NoApplication, NoRatchet
<1>6. \A t \in Calls : CallAgrees(call[t])
  BY <1>1, IdleFacts DEF CallAgrees
<1>7. Alone
  BY <1>1, IdleFacts DEF Alone
<1>8. disk.records \in Seq(Nat)
  BY <1>1
<1> QED
  BY <1>1, <1>4, <1>5, <1>6, <1>7, <1>8 DEF HInv

LEMMA NextKeeps ==
    ASSUME ~Overlap, ~Release, IInv, Types, HInv, [Next]_vars PROVE HInv'
<1>1. ASSUME NEW t \in Calls, Step(t) PROVE HInv'
  <2>1. CASE BeginSync(t) \/ PageArrives(t) \/ BeginSend(t)
    BY <2>1, BeginSyncKeeps, PageArrivesKeeps, BeginSendKeeps
  <2>2. CASE PostArrives(t) \/ PostFails(t) \/ PostReturns(t)
    BY <2>2, PostArrivesKeeps, PostFailsKeeps, PostReturnsKeeps
  <2>3. CASE SaveDone(t) \/ StateWritten(t) \/ PersistFails(t) \/ Restore(t)
    BY <2>3, SaveDoneKeeps, StateWrittenKeeps, PersistFailsKeeps, RestoreKeeps
  <2> QED
    BY <1>1, <2>1, <2>2, <2>3 DEF Step
<1>2. CASE DestroyMemory \/ Crash
  BY <1>2, EmptiedKeeps
<1>3. CASE PeerPosts
  BY <1>3, PeerPostsKeeps
<1>4. CASE UNCHANGED vars
  BY <1>4 DEF vars, HInv, Alone, MemoryKept, Settled, CallAgrees
<1> QED
  BY <1>1, <1>2, <1>3, <1>4 DEF Next

-----------------------------------------------------------------------------
(* The theorems.                                                           *)

\* Types, generations and history together, while one call runs at a time.
THEOREM HistoryInvariant ==
    ASSUME ~Overlap, ~Release
    PROVE  Spec => [](IInv /\ Types /\ HInv)
<1>1. Init => Types /\ HInv
  BY InitTypes, InitKeeps
<1>2. IInv /\ Types /\ HInv /\ [Next]_vars => Types' /\ HInv'
  BY NextTypes, NextKeeps
<1> QED
  BY <1>1, <1>2, GenerationsStayAhead, PTL DEF Spec

LEMMA StoredKeeps ==
    ASSUME HInv
    PROVE  Stored = ToSet(disk.records)
  BY GoneAssumption DEF HInv, Stored

\* While one call runs at a time, whatever fails and whenever the process
\* dies: an envelope of another member that is not in the stored history can
\* still be fetched and decrypted from the stored state.
THEOREM OthersAreKept ==
    ASSUME ~Overlap, ~Release
    PROVE  Spec => []PeerKept
<1>1. HInv => PeerKept
  <2> SUFFICES ASSUME HInv, NEW p \in Positions, log[p].from = Peer
               PROVE  \/ p \in Stored
                      \/ /\ p \notin disk.state.app.processed
                         /\ p > disk.state.app.cursor
                         /\ log[p].gen \notin disk.state.ratchet.seen
    BY DEF PeerKept
  <2>1. p \in Others(log)
    BY DEF Others, Positions
  <2> QED
    BY <2>1, StoredKeeps DEF HInv, Keeps, OthersReached
<1> QED
  BY <1>1, HistoryInvariant, PTL

\* While one call runs at a time: what the server accepted of the device is in
\* its stored history, or in the stored outbox, where a restore finds it.
THEOREM OwnAreKept ==
    ASSUME ~Overlap, ~Release
    PROVE  Spec => []OwnKept
<1>1. HInv => OwnKept
  <2> SUFFICES ASSUME HInv, NEW p \in Positions, log[p].from = Self
               PROVE  \/ p \in Stored
                      \/ [token |-> log[p].token, gen |-> log[p].gen] \in disk.state.app.outbox
    BY DEF OwnKept
  <2>1. p \in DOMAIN log \ Others(log)
    BY DEF Others, Positions, Self, Peer
  <2> QED
    BY <2>1, StoredKeeps DEF HInv, Keeps, OwnReached
<1> QED
  BY <1>1, HistoryInvariant, PTL

\* While one call runs at a time, an append-only save extends what is stored:
\* writeThread's append check never empties the client.
THEOREM AppendsAreAccepted ==
    ASSUME ~Overlap, ~Release
    PROVE  Spec => []AppendsExtend
<1>1. HInv => AppendsExtend
  <2> SUFFICES ASSUME HInv, NEW t \in Calls, MaySave(t)
               PROVE  AppendAccepted(call[t].clone)
    BY DEF AppendsExtend
  <2>1. call[t].pc = "save"
    BY DEF MaySave
  <2>2. MemoryKept
    BY <2>1, OthersIdle DEF HInv
  <2>3. call[t].clone.records = mem.records
    BY <2>1 DEF HInv, CallAgrees
  <2> QED
    BY <2>2, <2>3 DEF AppendAccepted, MemoryKept
<1> QED
  BY <1>1, HistoryInvariant, PTL

\* While one call runs at a time, the stored history only grows: no save
\* drops, reorders or replaces a message a user has seen stored.
THEOREM HistoryOnlyGrows ==
    ASSUME ~Overlap, ~Release
    PROVE  Spec => HistoryGrows
<1>1. ASSUME IInv, Types, HInv, [Next]_vars
      PROVE  [disk.records # Gone => disk'.records # Gone /\ IsPrefix(disk.records, disk'.records)]_vars
  <2>1. disk.records \in Seq(Nat) /\ IsPrefix(disk.records, disk.records) /\ disk.records # Gone
    BY <1>1, PrefixIs, GoneAssumption DEF HInv
  <2>2. CASE \E t \in Calls : SaveDone(t)
    <3>1. PICK t \in Calls : SaveDone(t)
      BY <2>2
    <3>2. MemFit(mem) /\ MemoryKept /\ disk'.records = mem.records
      BY <1>1, <3>1, SaveFacts
    <3> QED
      BY <3>2, GoneAssumption DEF MemFit, MemoryKept
  <2>3. CASE disk'.records = disk.records
    BY <2>1, <2>3
  <2>4. (\E t \in Calls : SaveDone(t)) \/ disk'.records = disk.records
    <3>1. ASSUME NEW t \in Calls, StateWritten(t) PROVE disk'.records = disk.records
      BY <1>1, <3>1 DEF StateWritten, Types
    <3>2. ASSUME NEW t \in Calls, Step(t), ~SaveDone(t), ~StateWritten(t) PROVE disk' = disk
      BY <3>2 DEF Step, BeginSync, PageArrives, BeginSend, PostArrives, PostFails, PostReturns,
                  PersistFails, Restore
    <3>3. CASE DestroyMemory \/ Crash \/ PeerPosts \/ UNCHANGED vars
      BY <3>3 DEF DestroyMemory, Crash, PeerPosts, vars
    <3> QED
      BY <1>1, <3>1, <3>2, <3>3 DEF Next
  <2> QED
    BY <2>2, <2>3, <2>4
<1> QED
  BY <1>1, HistoryInvariant, PTL DEF Spec, HistoryGrows
=============================================================================
