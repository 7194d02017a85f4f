-------------------------- MODULE MembershipProofs --------------------------
(***************************************************************************)
(* Proofs about ThreadRekey, for any devices and any bounds; and, from the *)
(* proofs about ThreadActivation and DeviceTransfer, that the behaviours   *)
(* of MCMembership, whose devices and records are any, keep their          *)
(* invariants.                                                             *)
(***************************************************************************)
EXTENDS MCMembership, TLAPS

-----------------------------------------------------------------------------
(* What the operators make of a device's memory.                           *)

LEMMA OffType == Off \in Memory /\ NoPending \in Pending /\ CallOK(Off)
<1>1. NoPending \in Pending
  BY DEF NoPending, Pending
<1>2. <<>> \in Seq(Nat)
  OBVIOUS
<1>3. Off \in Memory
  BY <1>1, <1>2 DEF Off, Memory
<1> QED
  BY <1>1, <1>3 DEF Off, CallOK

\* A call that throws leaves no client, or one with the same group and rekey.
LEMMA FailedType ==
    ASSUME NEW s \in Memory
    PROVE  /\ Failed(s) \in Memory
           /\ CallOK(Failed(s))
           /\ \/ Failed(s) = Off
              \/ Failed(s).pc = "ready" /\ Failed(s).group = s.group /\ Failed(s).pending = s.pending
<1>1. CASE s.restoring
  BY <1>1, OffType DEF Failed
<1>2. CASE ~s.restoring
  <2> DEFINE f == [s EXCEPT !.pc = "ready", !.then = "ready"]
  <2>1. Failed(s) = f
    BY <1>2 DEF Failed
  <2>2. f \in Memory /\ f.pc = "ready" /\ f.group = s.group /\ f.pending = s.pending
    BY DEF Memory
  <2> QED
    BY <2>1, <2>2 DEF CallOK
<1> QED
  BY <1>1, <1>2

\* joinPendingWelcomes changes neither the group nor the rekey of the memory.
LEMMA AfterWelcomesType ==
    ASSUME NEW d, NEW ws, NEW s \in Memory
    PROVE  LET n == AfterWelcomes(d, ws, s)
           IN  /\ n \in Memory /\ CallOK(n)
               /\ n.pc \in {"join", "post", "ready"}
               /\ n.group = s.group /\ n.pending = s.pending
<1> DEFINE n == AfterWelcomes(d, ws, s)
<1>1. CASE \E w \in ws : w.to = d
  <2>1. n = [s EXCEPT !.pc = "join"]
    BY <1>1 DEF AfterWelcomes
  <2> QED
    BY <2>1 DEF Memory, CallOK
<1>2. CASE ~(\E w \in ws : w.to = d) /\ s.restoring /\ s.pending # NoPending
  <2>1. n = [s EXCEPT !.pc = "post"]
    BY <1>2 DEF AfterWelcomes
  <2> QED
    BY <2>1, <1>2 DEF Memory, CallOK
<1>3. CASE ~(\E w \in ws : w.to = d) /\ ~(s.restoring /\ s.pending # NoPending)
  <2>1. n = [s EXCEPT !.pc = "ready", !.restoring = FALSE]
    BY <1>3 DEF AfterWelcomes
  <2> QED
    BY <2>1 DEF Memory, CallOK
<1> QED
  BY <1>1, <1>2, <1>3

\* One device's memory becomes n; the others' stay.
LEMMA BecomeType ==
    ASSUME TypeOK, NEW d \in Devices, NEW n \in Memory, CallOK(n), Become(d, n)
    PROVE  /\ dev' \in [Devices -> Memory]
           /\ \A e \in Devices : CallOK(dev'[e])
           /\ dev'[d] = n
           /\ \A e \in Devices : e # d => dev'[e] = dev[e]
<1>1. dev' = [dev EXCEPT ![d] = n] /\ dev \in [Devices -> Memory]
  BY DEF Become, TypeOK
<1>2. dev' \in [Devices -> Memory] /\ dev'[d] = n /\ \A e \in Devices : e # d => dev'[e] = dev[e]
  BY <1>1
<1>3. \A e \in Devices : CallOK(dev[e])
  BY DEF TypeOK
<1> QED
  BY <1>2, <1>3

\* A request that is committed adds one link, ends its operation, and makes
\* Welcomes to the new epoch.
LEMMA CommitsType ==
    ASSUME TypeOK, NEW r \in Request, Acceptable(r), Commits(r)
    PROVE  /\ chain' \in Seq(Link) /\ chain' # <<>> /\ Len(chain') = Epoch + 1
           /\ \A i \in 1 .. Epoch : chain'[i] = chain[i]
           /\ chain'[Epoch + 1].commit = r.pending.commit
           /\ chain'[Epoch + 1].op = r.pending.op
           /\ chain'[Epoch + 1].from = r.from
           /\ ops' \in Seq(Operation) /\ DOMAIN ops' = DOMAIN ops
           /\ \A o \in DOMAIN ops : ops'[o].base = ops[o].base
           /\ \A o \in DOMAIN ops : o # r.pending.op => ops'[o] = ops[o]
           /\ ops'[r.pending.op].status = "COMMITTED"
           /\ welcomes' \subseteq Welcome
           /\ \A w \in welcomes' : w \in welcomes \/
                (Len(w.group) = Epoch + 1 /\ \A i \in 1 .. Epoch + 1 : w.group[i] = chain'[i].commit)
<1> DEFINE o == r.pending.op
           roster == ops[o].roster
           group == [i \in 1 .. Epoch + 1 |->
                        IF i <= Epoch THEN chain[i].commit ELSE r.pending.commit]
           link == [commit |-> r.pending.commit, op |-> o, from |-> r.from, roster |-> roster]
<1>1. chain \in Seq(Link) /\ ops \in Seq(Operation) /\ welcomes \subseteq Welcome /\ Epoch \in Nat
  BY DEF TypeOK, Epoch
<1>2. o \in DOMAIN ops /\ ops[o] \in Operation
  BY <1>1 DEF Acceptable
<1>3. r.pending \in Pending /\ r.from \in Devices
  BY DEF Request
<1>4. link \in Link
  BY <1>2, <1>3 DEF Link, Operation, Pending
<1>5. chain' = Append(chain, link)
  BY DEF Commits
<1>6. /\ chain' \in Seq(Link) /\ chain' # <<>> /\ Len(chain') = Epoch + 1
      /\ \A i \in 1 .. Epoch : chain'[i] = chain[i]
      /\ chain'[Epoch + 1] = link
  <2> HIDE DEF link
  <2> QED
    BY <1>1, <1>4, <1>5 DEF Epoch
<1>7. ops' = [ops EXCEPT ![o].status = "COMMITTED"]
  BY DEF Commits
<1>8. /\ DOMAIN ops' = DOMAIN ops
      /\ \A q \in DOMAIN ops : q # o => ops'[q] = ops[q]
      /\ ops'[o] = [ops[o] EXCEPT !.status = "COMMITTED"]
  BY <1>7, <1>2
<1>9. ops'[o] \in Operation /\ ops'[o].base = ops[o].base /\ ops'[o].status = "COMMITTED"
  BY <1>8, <1>2 DEF Operation
<1>10. ops' \in Seq(Operation)
  <2>1. ops' = [ops EXCEPT ![o] = [ops[o] EXCEPT !.status = "COMMITTED"]]
    BY <1>7, <1>2
  <2>2. [ops[o] EXCEPT !.status = "COMMITTED"] \in Operation
    BY <1>8, <1>9
  <2> QED
    BY <1>1, <1>2, <2>1, <2>2
<1>11. group \in Seq(Nat) /\ Len(group) = Epoch + 1
  <2>1. \A i \in 1 .. Epoch : chain[i].commit \in Nat
    <3>1. \A i \in 1 .. Epoch : chain[i] \in Link
      BY <1>1 DEF Epoch
    <3> QED
      BY <3>1 DEF Link
  <2>2. r.pending.commit \in Nat
    BY <1>3 DEF Pending
  <2>3. \A i \in 1 .. Epoch + 1 : (IF i <= Epoch THEN chain[i].commit ELSE r.pending.commit) \in Nat
    BY <2>1, <2>2, <1>1
  <2>4. group \in [1 .. Epoch + 1 -> Nat]
    BY <2>3
  <2> QED
    BY <2>4, <1>1
<1>12. \A i \in 1 .. Epoch + 1 : group[i] = chain'[i].commit
  BY <1>1, <1>6
<1>13. welcomes' = welcomes \union {[to |-> d, group |-> group] : d \in roster \ Members}
  BY DEF Commits
<1>14. roster \subseteq Devices
  BY <1>2 DEF Operation
<1>15. \A w \in welcomes' : w \in welcomes \/ (w \in Welcome /\ w.group = group)
  <2>1. \A d \in roster \ Members : [to |-> d, group |-> group] \in Welcome
    BY <1>14, <1>11 DEF Welcome
  <2> HIDE DEF group
  <2> QED
    BY <1>13, <2>1
<1>16. welcomes' \subseteq Welcome
  BY <1>15, <1>1
<1>17. \A w \in welcomes' : w \in welcomes \/
                (Len(w.group) = Epoch + 1 /\ \A i \in 1 .. Epoch + 1 : w.group[i] = chain'[i].commit)
  BY <1>15, <1>11, <1>12
<1>18. \A q \in DOMAIN ops : ops'[q].base = ops[q].base
  BY <1>8, <1>9
<1> QED
  BY <1>6, <1>8, <1>9, <1>10, <1>16, <1>17, <1>18

\* An operation whose status changes is the same operation.
LEMMA StatusType ==
    ASSUME TypeOK, NEW o \in DOMAIN ops,
           NEW status \in {"PREPARED", "COMMITTED", "ABORTED", "EXPIRED"},
           ops' = [ops EXCEPT ![o].status = status]
    PROVE  /\ ops' \in Seq(Operation) /\ DOMAIN ops' = DOMAIN ops
           /\ ops'[o].status = status
           /\ \A q \in DOMAIN ops : ops'[q].base = ops[q].base
           /\ \A q \in DOMAIN ops : q # o => ops'[q] = ops[q]
<1>1. ops \in Seq(Operation) /\ ops[o] \in Operation
  BY DEF TypeOK
<1> DEFINE new == [ops[o] EXCEPT !.status = status]
<1>2. new \in Operation /\ new.base = ops[o].base /\ new.status = status
  BY <1>1 DEF Operation
<1>3. ops' = [ops EXCEPT ![o] = new]
  OBVIOUS
<1> HIDE DEF new
<1> QED
  BY <1>1, <1>2, <1>3
-----------------------------------------------------------------------------
(* What each step does.                                                    *)

\* Only the memory of d changes.
Moves(d) ==
    /\ dev' \in [Devices -> Memory]
    /\ \A e \in Devices : CallOK(dev'[e])
    /\ \A e \in Devices : e # d => dev'[e] = dev[e]

Steady(pc) == pc \notin {"off", "save"}

\* The client of d is gone, or keeps its group and its prepared rekey.
Rests(d) ==
    \/ dev'[d] = Off
    \/ /\ Steady(dev'[d].pc)
       /\ dev'[d].group = dev[d].group
       /\ dev'[d].pending = dev[d].pending

\* The client of d is about to store group g and the prepared rekey p.
Saves(d, g, p) == dev'[d].pc = "save" /\ dev'[d].group = g /\ dev'[d].pending = p

LEMMA FailedMoves ==
    ASSUME TypeOK, NEW d \in Devices, Become(d, Failed(dev[d]))
    PROVE  Moves(d) /\ Rests(d)
<1>1. dev[d] \in Memory
  BY DEF TypeOK
<1>2. Moves(d) /\ dev'[d] = Failed(dev[d])
  BY <1>1, FailedType, BecomeType DEF Moves
<1> QED
  BY <1>1, <1>2, FailedType DEF Rests, Steady

LEMMA SavingMoves ==
    ASSUME TypeOK, NEW d \in Devices, NEW g \in Seq(Nat), NEW p \in Pending,
           NEW then \in {"ack", "ready", "prepare", "post"},
           then = "post" => p # NoPending,
           then = "prepare" => p = NoPending,
           Become(d, Saving([dev[d] EXCEPT !.group = g, !.pending = p], then))
    PROVE  Moves(d) /\ Saves(d, g, p)
<1>1. dev[d] \in Memory
  BY DEF TypeOK
<1> DEFINE n == Saving([dev[d] EXCEPT !.group = g, !.pending = p], then)
<1>2. n \in Memory /\ n.pc = "save" /\ n.then = then /\ n.group = g /\ n.pending = p
  BY <1>1 DEF Saving, Memory
<1>3. CallOK(n)
  BY <1>2 DEF CallOK
<1>4. Become(d, n)
  OBVIOUS
<1> HIDE DEF n
<1>5. Moves(d) /\ dev'[d] = n
  BY <1>2, <1>3, <1>4, BecomeType DEF Moves
<1> QED
  BY <1>2, <1>5 DEF Saves

LEMMA AfterWelcomesMoves ==
    ASSUME TypeOK, NEW d \in Devices, NEW ws, NEW s \in Memory,
           s.group = dev[d].group, s.pending = dev[d].pending,
           Become(d, AfterWelcomes(d, ws, s))
    PROVE  Moves(d) /\ Rests(d)
<1> DEFINE n == AfterWelcomes(d, ws, s)
<1>1. n \in Memory /\ CallOK(n) /\ n.pc \in {"join", "post", "ready"}
      /\ n.group = s.group /\ n.pending = s.pending
  BY AfterWelcomesType
<1>2. Become(d, n)
  OBVIOUS
<1> HIDE DEF n
<1>3. Moves(d) /\ dev'[d] = n
  BY <1>1, <1>2, BecomeType DEF Moves
<1> QED
  BY <1>1, <1>3 DEF Rests, Steady

LEMMA QuietType ==
    ASSUME TypeOK, NEW d \in Devices, Moves(d), UNCHANGED <<server, minted, disk>>
    PROVE  TypeOK'
BY DEF TypeOK, Moves, server

\* persist: what is in memory is on disk.
LEMMA SaveStep ==
    ASSUME TypeOK, NEW d \in Devices, Save(d)
    PROVE  /\ TypeOK' /\ Moves(d) /\ Rests(d)
           /\ disk'[d].group = dev[d].group /\ disk'[d].pending = dev[d].pending
           /\ \A e \in Devices : e # d => disk'[e] = disk[e]
<1> DEFINE new == [group |-> dev[d].group, pending |-> dev[d].pending]
           n == [dev[d] EXCEPT !.pc = dev[d].then, !.then = "ready",
                               !.restoring = @ /\ dev[d].then # "ready"]
<1>1. dev[d] \in Memory /\ CallOK(dev[d]) /\ dev[d].pc = "save"
  BY DEF TypeOK, Save
<1>2. new \in Stored /\ disk' = [disk EXCEPT ![d] = new] /\ disk \in [Devices -> Stored]
  BY <1>1 DEF Save, TypeOK, Memory, Stored
<1>3. dev[d].restoring \in BOOLEAN /\ dev[d].then \in {"ack", "ready", "prepare", "post"}
  BY <1>1 DEF Memory
<1>4. n \in Memory /\ n.pc = dev[d].then /\ n.then = "ready"
      /\ n.group = dev[d].group /\ n.pending = dev[d].pending
  BY <1>1, <1>3 DEF Memory
<1>5. CallOK(n)
  BY <1>1, <1>3, <1>4 DEF CallOK
<1>6. Become(d, n)
  BY DEF Save
<1> HIDE DEF n
<1>7. Moves(d) /\ dev'[d] = n
  BY <1>4, <1>5, <1>6, BecomeType DEF Moves
<1>8. Rests(d)
  BY <1>3, <1>4, <1>7 DEF Rests, Steady
<1>9. disk' \in [Devices -> Stored]
  BY <1>2
<1>10. TypeOK'
  BY <1>7, <1>9 DEF TypeOK, Save, Moves, server
<1> QED
  BY <1>2, <1>7, <1>8, <1>10

LEMMA CrashStep ==
    ASSUME TypeOK, NEW d \in Devices, Crash(d)
    PROVE  /\ TypeOK' /\ Moves(d) /\ Rests(d)
           /\ \A r \in late' : r \in late \/ (r = RequestOf(d) /\ dev[d].pc = "post")
<1>1. Become(d, Off)
  BY DEF Crash
<1>2. Moves(d) /\ dev'[d] = Off
  BY <1>1, OffType, BecomeType DEF Moves
<1>3. dev[d] \in Memory
  BY DEF TypeOK
<1>4. RequestOf(d) \in Request
  BY <1>3 DEF RequestOf, Request, Memory
<1>5. late' \subseteq Request /\ \A r \in late' : r \in late \/ (r = RequestOf(d) /\ dev[d].pc = "post")
  BY <1>4 DEF Crash, TypeOK
<1>6. TypeOK'
  BY <1>2, <1>5 DEF TypeOK, Crash, Moves
<1> QED
  BY <1>2, <1>5, <1>6 DEF Rests

\* restore: what is on disk is in memory.
LEMMA RestoreStep ==
    ASSUME TypeOK, NEW d \in Devices, Restore(d)
    PROVE  /\ TypeOK' /\ Moves(d) /\ Steady(dev'[d].pc)
           /\ dev'[d].group = disk[d].group /\ dev'[d].pending = disk[d].pending
<1> DEFINE m == [Off EXCEPT !.restoring = TRUE,
                            !.group = disk[d].group, !.pending = disk[d].pending]
           n == AfterWelcomes(d, welcomes, m)
<1>1. disk[d] \in Stored
  BY DEF TypeOK
<1>2. m \in Memory /\ m.group = disk[d].group /\ m.pending = disk[d].pending
  BY <1>1 DEF Memory, Stored, Off
<1>3. Become(d, n) /\ UNCHANGED <<server, minted, disk>>
  BY DEF Restore
<1> HIDE DEF m
<1>4. n \in Memory /\ CallOK(n) /\ n.pc \in {"join", "post", "ready"}
      /\ n.group = m.group /\ n.pending = m.pending
  BY <1>2, AfterWelcomesType
<1> HIDE DEF n
<1>5. Moves(d) /\ dev'[d] = n
  BY <1>3, <1>4, BecomeType DEF Moves
<1>6. TypeOK'
  BY <1>3, <1>5, QuietType
<1> QED
  BY <1>2, <1>4, <1>5, <1>6 DEF Steady

\* A step that only moves the program counter of d.
LEMMA GotoMoves ==
    ASSUME TypeOK, NEW d \in Devices, NEW pc \in {"join", "ready", "prepare", "post", "abort"},
           NEW r \in BOOLEAN,
           pc \in {"post", "abort"} => dev[d].pending # NoPending,
           pc = "prepare" => dev[d].pending = NoPending,
           Become(d, [dev[d] EXCEPT !.pc = pc, !.restoring = r])
    PROVE  Moves(d) /\ Rests(d)
<1> DEFINE n == [dev[d] EXCEPT !.pc = pc, !.restoring = r]
<1>1. dev[d] \in Memory
  BY DEF TypeOK
<1>2. n \in Memory /\ n.pc = pc /\ n.group = dev[d].group /\ n.pending = dev[d].pending
  BY <1>1 DEF Memory
<1>3. CallOK(n)
  BY <1>2 DEF CallOK
<1>4. Become(d, n)
  OBVIOUS
<1> HIDE DEF n
<1>5. Moves(d) /\ dev'[d] = n
  BY <1>2, <1>3, <1>4, BecomeType DEF Moves
<1> QED
  BY <1>2, <1>5 DEF Rests, Steady

LEMMA OpenStep ==
    ASSUME TypeOK, NEW d \in Devices, Open(d)
    PROVE  TypeOK' /\ Moves(d) /\ Rests(d)
<1>1. dev[d].restoring \in BOOLEAN /\ dev[d] \in Memory
  BY DEF TypeOK, Memory
<1>2. [dev[d] EXCEPT !.pc = "join"] = [dev[d] EXCEPT !.pc = "join", !.restoring = dev[d].restoring]
  BY <1>1 DEF Memory
<1>3. Become(d, [dev[d] EXCEPT !.pc = "join", !.restoring = dev[d].restoring])
  BY <1>2 DEF Open
<1>4. Moves(d) /\ Rests(d)
  BY <1>1, <1>3, GotoMoves
<1> QED
  BY <1>4, QuietType DEF Open

LEMMA ReconcileStep ==
    ASSUME TypeOK, NEW d \in Devices, Reconcile(d)
    PROVE  TypeOK' /\ Moves(d) /\ Rests(d)
<1> DEFINE pc == IF dev[d].pending = NoPending THEN "prepare" ELSE "post"
<1>1. dev[d].restoring \in BOOLEAN /\ dev[d] \in Memory
  BY DEF TypeOK, Memory
<1>2. [dev[d] EXCEPT !.pc = pc] = [dev[d] EXCEPT !.pc = pc, !.restoring = dev[d].restoring]
  BY <1>1 DEF Memory
<1>3. Become(d, [dev[d] EXCEPT !.pc = pc, !.restoring = dev[d].restoring])
  BY <1>2 DEF Reconcile
<1>4. Moves(d) /\ Rests(d)
  BY <1>1, <1>3, GotoMoves
<1> QED
  BY <1>4, QuietType DEF Reconcile

LEMMA PrepareFailsStep ==
    ASSUME TypeOK, NEW d \in Devices, PrepareFails(d)
    PROVE  TypeOK' /\ Moves(d) /\ Rests(d)
<1>1. Moves(d) /\ Rests(d)
  BY FailedMoves DEF PrepareFails
<1> QED
  BY <1>1, QuietType DEF PrepareFails

\* A Welcome gives a device without a group the group it is a Welcome to.
LEMMA JoinStep ==
    ASSUME TypeOK, NEW d \in Devices, Join(d)
    PROVE  /\ TypeOK' /\ Moves(d)
           /\ \/ Rests(d)
              \/ Saves(d, dev[d].group, dev[d].pending)
              \/ /\ dev[d].group = <<>>
                 /\ \E w \in welcomes : Saves(d, w.group, dev[d].pending)
<1>1. PICK w \in welcomes :
        Become(d, IF Joinable(d, w)
                  THEN Saving([dev[d] EXCEPT !.group =
                            IF dev[d].group = <<>> THEN w.group ELSE dev[d].group], "ack")
                  ELSE Failed(dev[d]))
  BY DEF Join
<1>2. dev[d] \in Memory /\ w.group \in Seq(Nat)
  BY DEF TypeOK, Welcome
<1>3. dev[d].group \in Seq(Nat) /\ dev[d].pending \in Pending
  BY <1>2 DEF Memory
<1>4. CASE ~Joinable(d, w)
  <2>1. Moves(d) /\ Rests(d)
    BY <1>1, <1>4, FailedMoves
  <2> QED
    BY <2>1, QuietType DEF Join
<1>5. CASE Joinable(d, w)
  <2> DEFINE g == IF dev[d].group = <<>> THEN w.group ELSE dev[d].group
  <2>1. g \in Seq(Nat)
    BY <1>2, <1>3
  <2>2. [dev[d] EXCEPT !.group = g] = [dev[d] EXCEPT !.group = g, !.pending = dev[d].pending]
    BY <1>2 DEF Memory
  <2>3. Become(d, Saving([dev[d] EXCEPT !.group = g, !.pending = dev[d].pending], "ack"))
    BY <1>1, <1>5, <2>2
  <2>4. Moves(d) /\ Saves(d, g, dev[d].pending)
    <3> HIDE DEF g
    <3> QED
      BY <2>1, <2>3, <1>3, SavingMoves
  <2>5. TypeOK'
    BY <2>4, QuietType DEF Join
  <2> QED
    BY <2>4, <2>5
<1> QED
  BY <1>4, <1>5

LEMMA AckStep ==
    ASSUME TypeOK, NEW d \in Devices, Ack(d)
    PROVE  TypeOK' /\ Moves(d) /\ Rests(d) /\ welcomes' \subseteq welcomes
<1>1. dev[d] \in Memory
  BY DEF TypeOK
<1>2. welcomes' \subseteq welcomes
  BY DEF Ack
<1>3. Become(d, AfterWelcomes(d, welcomes', dev[d])) \/ Become(d, Failed(dev[d]))
  BY DEF Ack
<1>4. Moves(d) /\ Rests(d)
  BY <1>1, <1>3, FailedMoves, AfterWelcomesMoves
<1>5. TypeOK'
  BY <1>2, <1>4 DEF TypeOK, Moves, Ack
<1> QED
  BY <1>2, <1>4, <1>5

\* The group goes through the server's next Commit.
LEMMA SyncStep ==
    ASSUME TypeOK, NEW d \in Devices, Sync(d)
    PROVE  /\ TypeOK' /\ Moves(d)
           /\ Saves(d, Append(dev[d].group, NextLink(d).commit), dev[d].pending)
<1>1. dev[d] \in Memory /\ chain \in Seq(Link)
  BY DEF TypeOK
<1>2. dev[d].group \in Seq(Nat) /\ dev[d].pending \in Pending
  BY <1>1 DEF Memory
<1>3. NextLink(d) \in Link
  BY <1>1, <1>2 DEF NextLink, Sync, MayApply, Epoch
<1>4. NextLink(d).commit \in Nat
  BY <1>3 DEF Link
<1> DEFINE g == Append(dev[d].group, NextLink(d).commit)
<1>5. g \in Seq(Nat)
  BY <1>2, <1>4
<1>6. [dev[d] EXCEPT !.group = Append(@, NextLink(d).commit)]
        = [dev[d] EXCEPT !.group = g, !.pending = dev[d].pending]
  BY <1>1 DEF Memory
<1>7. Become(d, Saving([dev[d] EXCEPT !.group = g, !.pending = dev[d].pending], "ready"))
  BY <1>6 DEF Sync
<1>8. Moves(d) /\ Saves(d, g, dev[d].pending)
  <2> HIDE DEF g
  <2> QED
    BY <1>2, <1>5, <1>7, SavingMoves
<1> QED
  BY <1>8, QuietType DEF Sync

\* A Commit made for an operation is prepared, and not applied.
LEMMA PreparedForStep ==
    ASSUME TypeOK, NEW d \in Devices, NEW o \in Nat \ {0}, NEW op \in Operation,
           PreparedFor(d, o, op)
    PROVE  /\ Moves(d) /\ minted' \in Nat
           /\ \/ Rests(d)
              \/ \E p \in Pending : p # NoPending /\ p.op = o /\ p.base = op.base
                                    /\ Saves(d, dev[d].group, p)
<1>1. dev[d] \in Memory /\ minted \in Nat
  BY DEF TypeOK
<1>2. dev[d].group \in Seq(Nat)
  BY <1>1 DEF Memory
<1>3. CASE op.from = d /\ op.base = Len(dev[d].group) /\ op.roster = Active
  <2> DEFINE p == [op |-> o, commit |-> minted + 1, base |-> op.base]
  <2>1. p \in Pending /\ p.op = o /\ p.base = op.base
    BY <1>1 DEF Pending, Operation
  <2>2. p # NoPending
    BY <2>1 DEF NoPending
  <2>3. [dev[d] EXCEPT !.pending = p] = [dev[d] EXCEPT !.group = dev[d].group, !.pending = p]
    BY <1>1 DEF Memory
  <2>4. minted' = minted + 1 /\ Become(d, Saving([dev[d] EXCEPT !.pending = p], "post"))
    BY <1>3 DEF PreparedFor
  <2>5. Become(d, Saving([dev[d] EXCEPT !.group = dev[d].group, !.pending = p], "post"))
    BY <2>3, <2>4
  <2> HIDE DEF p
  <2>6. Moves(d) /\ Saves(d, dev[d].group, p)
    BY <1>2, <2>1, <2>2, <2>5, SavingMoves
  <2> QED
    BY <1>1, <2>1, <2>2, <2>4, <2>6
<1>4. CASE ~(op.from = d /\ op.base = Len(dev[d].group) /\ op.roster = Active)
  <2>1. Become(d, Failed(dev[d])) /\ minted' = minted
    BY <1>4 DEF PreparedFor
  <2> QED
    BY <1>1, <2>1, FailedMoves
<1> QED
  BY <1>3, <1>4

\* The operations only grow; what is prepared, if anything, is one of them.
LEMMA PrepareStep ==
    ASSUME TypeOK, NEW d \in Devices, Prepare(d)
    PROVE  /\ TypeOK' /\ Moves(d)
           /\ DOMAIN ops \subseteq DOMAIN ops' /\ \A o \in DOMAIN ops : ops'[o] = ops[o]
           /\ \/ Rests(d)
              \/ \E p \in Pending : /\ p # NoPending /\ p.op \in DOMAIN ops'
                                    /\ ops'[p.op].base = p.base
                                    /\ Saves(d, dev[d].group, p)
<1> DEFINE new == [from |-> d, base |-> Epoch, roster |-> Active, status |-> "PREPARED"]
           open == {o \in DOMAIN ops : ops[o].status = "PREPARED"}
<1>1. ops \in Seq(Operation) /\ chain \in Seq(Link) /\ minted \in Nat
  BY DEF TypeOK
<1>2. new \in Operation
  BY <1>1 DEF Operation, Active, Epoch
<1>3. UNCHANGED <<standing, chain, welcomes, late, disk>>
  BY DEF Prepare
<1>4. CASE ops' = Append(ops, new)
           /\ (PreparedFor(d, Len(ops) + 1, new) \/ (Become(d, Failed(dev[d])) /\ UNCHANGED minted))
  <2> HIDE DEF new
  <2>1. /\ ops' \in Seq(Operation) /\ DOMAIN ops \subseteq DOMAIN ops'
        /\ \A o \in DOMAIN ops : ops'[o] = ops[o]
        /\ Len(ops) + 1 \in DOMAIN ops' /\ ops'[Len(ops) + 1] = new
    BY <1>1, <1>2, <1>4
  <2>2. Len(ops) + 1 \in Nat \ {0}
    BY <1>1
  <2>3. /\ Moves(d) /\ minted' \in Nat
        /\ \/ Rests(d)
           \/ \E p \in Pending : p # NoPending /\ p.op = Len(ops) + 1 /\ p.base = new.base
                                 /\ Saves(d, dev[d].group, p)
    BY <1>1, <1>2, <1>4, <2>2, PreparedForStep, FailedMoves
  <2>4. TypeOK'
    BY <1>3, <2>1, <2>3 DEF TypeOK, Moves
  <2> QED
    BY <2>1, <2>3, <2>4
<1>5. CASE ops' = ops /\ \E o \in open : PreparedFor(d, o, ops[o])
  <2>1. PICK o \in open : PreparedFor(d, o, ops[o])
    BY <1>5
  <2>2. o \in DOMAIN ops /\ o \in Nat \ {0} /\ ops[o] \in Operation
    BY <1>1
  <2>3. /\ Moves(d) /\ minted' \in Nat
        /\ \/ Rests(d)
           \/ \E p \in Pending : p # NoPending /\ p.op = o /\ p.base = ops[o].base
                                 /\ Saves(d, dev[d].group, p)
    BY <2>1, <2>2, PreparedForStep
  <2>4. TypeOK'
    BY <1>3, <1>5, <2>3 DEF TypeOK, Moves
  <2> QED
    BY <1>5, <2>2, <2>3, <2>4
<1>6. CASE ops' = ops /\ minted' = minted
           /\ Become(d, [dev[d] EXCEPT !.pc = "ready", !.restoring = FALSE])
  <2>1. Moves(d) /\ Rests(d)
    BY <1>6, GotoMoves
  <2>2. TypeOK'
    BY <1>3, <1>6, <2>1 DEF TypeOK, Moves
  <2> QED
    BY <1>6, <2>1, <2>2
<1> QED
  BY <1>4, <1>5, <1>6 DEF Prepare

LEMMA AppliedMoves ==
    ASSUME TypeOK, NEW d \in Devices, Become(d, Applied(dev[d]))
    PROVE  /\ Moves(d)
           /\ \/ Rests(d)
              \/ /\ Len(dev[d].group) = dev[d].pending.base
                 /\ Saves(d, Append(dev[d].group, dev[d].pending.commit), NoPending)
<1>1. dev[d] \in Memory
  BY DEF TypeOK
<1>2. dev[d].group \in Seq(Nat) /\ dev[d].pending.commit \in Nat
  BY <1>1 DEF Memory, Pending
<1> DEFINE g == Append(dev[d].group, dev[d].pending.commit)
<1>3. CASE Len(dev[d].group) = dev[d].pending.base
  <2>1. g \in Seq(Nat)
    BY <1>2
  <2>2. [dev[d] EXCEPT !.group = Append(@, dev[d].pending.commit), !.pending = NoPending]
            = [dev[d] EXCEPT !.group = g, !.pending = NoPending]
    BY <1>1 DEF Memory
  <2>3. Become(d, Saving([dev[d] EXCEPT !.group = g, !.pending = NoPending], "ready"))
    BY <1>3, <2>2 DEF Applied
  <2> HIDE DEF g
  <2>4. Moves(d) /\ Saves(d, g, NoPending)
    BY <2>1, <2>3, OffType, SavingMoves
  <2> QED
    BY <1>3, <2>4 DEF g
<1>4. CASE Len(dev[d].group) # dev[d].pending.base
  <2>1. Become(d, Failed(dev[d]))
    BY <1>4 DEF Applied
  <2> QED
    BY <2>1, FailedMoves
<1> QED
  BY <1>3, <1>4

LEMMA DroppedMoves ==
    ASSUME TypeOK, NEW d \in Devices, Become(d, Dropped(dev[d]))
    PROVE  Moves(d) /\ Saves(d, dev[d].group, NoPending)
<1>1. dev[d] \in Memory
  BY DEF TypeOK
<1>2. dev[d].group \in Seq(Nat)
  BY <1>1 DEF Memory
<1>3. [dev[d] EXCEPT !.pending = NoPending] = [dev[d] EXCEPT !.group = dev[d].group, !.pending = NoPending]
  BY <1>1 DEF Memory
<1>4. Become(d, Saving([dev[d] EXCEPT !.group = dev[d].group, !.pending = NoPending], "prepare"))
  BY <1>3 DEF Dropped
<1> QED
  BY <1>2, <1>4, OffType, SavingMoves

LEMMA CommitTakenStep ==
    ASSUME TypeOK, NEW d \in Devices, CommitTaken(d)
    PROVE  /\ TypeOK' /\ Moves(d) /\ RequestOf(d) \in Request
           /\ \/ Rests(d)
              \/ /\ Len(dev[d].group) = dev[d].pending.base
                 /\ Saves(d, Append(dev[d].group, dev[d].pending.commit), NoPending)
<1>1. Moves(d) /\ (Rests(d) \/ (/\ Len(dev[d].group) = dev[d].pending.base
                                /\ Saves(d, Append(dev[d].group, dev[d].pending.commit), NoPending)))
  BY AppliedMoves DEF CommitTaken
<1>2. RequestOf(d) \in Request
  <2>1. dev[d] \in Memory
    BY DEF TypeOK
  <2> QED
    BY <2>1 DEF RequestOf, Request, Memory
<1>3. UNCHANGED <<standing, late, minted, disk>>
  BY DEF CommitTaken
<1>4. CASE Acceptable(RequestOf(d)) /\ Commits(RequestOf(d))
  <2>1. /\ chain' \in Seq(Link) /\ chain' # <<>> /\ ops' \in Seq(Operation)
        /\ welcomes' \subseteq Welcome
    BY <1>2, <1>4, CommitsType
  <2>2. TypeOK'
    BY <1>1, <1>3, <2>1 DEF TypeOK, Moves
  <2> QED
    BY <1>1, <1>2, <2>2
<1>5. CASE UNCHANGED <<chain, ops, welcomes>>
  <2>1. TypeOK'
    BY <1>1, <1>3, <1>5 DEF TypeOK, Moves
  <2> QED
    BY <1>1, <1>2, <2>1
<1> QED
  BY <1>4, <1>5 DEF CommitTaken

LEMMA CommitLostStep ==
    ASSUME TypeOK, NEW d \in Devices, CommitLost(d)
    PROVE  /\ TypeOK' /\ Moves(d) /\ Rests(d)
           /\ \A r \in late' : r \in late \/ r = RequestOf(d)
<1>1. Moves(d) /\ Rests(d)
  BY FailedMoves DEF CommitLost
<1>2. dev[d] \in Memory
  BY DEF TypeOK
<1>3. RequestOf(d) \in Request
  BY <1>2 DEF RequestOf, Request, Memory
<1>4. late' \subseteq Request /\ \A r \in late' : r \in late \/ r = RequestOf(d)
  BY <1>3 DEF CommitLost, TypeOK
<1>5. TypeOK'
  BY <1>1, <1>4 DEF TypeOK, CommitLost, Moves
<1> QED
  BY <1>1, <1>4, <1>5

\* After a 409 the prepared rekey is applied only if the server took it, and
\* dropped only if its operation has ended.
LEMMA CommitRefusedStep ==
    ASSUME TypeOK, NEW d \in Devices, CommitRefused(d)
    PROVE  /\ TypeOK' /\ Moves(d)
           /\ \/ Rests(d)
              \/ /\ Known(RequestOf(d))
                 /\ Len(dev[d].group) = dev[d].pending.base
                 /\ Saves(d, Append(dev[d].group, dev[d].pending.commit), NoPending)
              \/ /\ ops[dev[d].pending.op].status \notin {"PREPARED", "COMMITTED"}
                 /\ Saves(d, dev[d].group, NoPending)
<1> DEFINE status == ops[dev[d].pending.op].status
<1>1. CASE status = "COMMITTED" /\ Known(RequestOf(d))
  <2>1. Become(d, Applied(dev[d]))
    BY <1>1 DEF CommitRefused
  <2>2. TypeOK'
    BY <2>1, AppliedMoves, QuietType DEF CommitRefused
  <2> QED
    BY <1>1, <2>1, <2>2, AppliedMoves
<1>2. CASE status = "COMMITTED" /\ ~Known(RequestOf(d))
  <2>1. Become(d, Failed(dev[d]))
    BY <1>2 DEF CommitRefused
  <2>2. TypeOK'
    BY <2>1, FailedMoves, QuietType DEF CommitRefused
  <2> QED
    BY <2>1, <2>2, FailedMoves
<1>3. CASE status = "PREPARED"
  <2>1. dev[d].restoring \in BOOLEAN /\ dev[d] \in Memory /\ dev[d].pending # NoPending
    BY DEF TypeOK, Memory, CallOK, CommitRefused
  <2>2. [dev[d] EXCEPT !.pc = "abort"] = [dev[d] EXCEPT !.pc = "abort", !.restoring = dev[d].restoring]
    BY <2>1 DEF Memory
  <2>3. Become(d, [dev[d] EXCEPT !.pc = "abort", !.restoring = dev[d].restoring])
    BY <1>3, <2>2 DEF CommitRefused
  <2>4. Moves(d) /\ Rests(d)
    BY <2>1, <2>3, GotoMoves
  <2> QED
    BY <2>4, QuietType DEF CommitRefused
<1>4. CASE status \notin {"PREPARED", "COMMITTED"}
  <2>1. Become(d, Dropped(dev[d]))
    BY <1>4 DEF CommitRefused
  <2>2. TypeOK'
    BY <2>1, DroppedMoves, QuietType DEF CommitRefused
  <2> QED
    BY <1>4, <2>1, <2>2, DroppedMoves
<1> QED
  BY <1>1, <1>2, <1>3, <1>4

\* The server's epochs and operations only go on: an operation that has ended
\* stays so.
OpsGrow ==
    /\ DOMAIN ops \subseteq DOMAIN ops'
    /\ \A o \in DOMAIN ops :
        /\ ops'[o].base = ops[o].base
        /\ ops[o].status = "COMMITTED" => ops'[o].status = "COMMITTED"
        /\ ops'[o].status = "PREPARED" => ops[o].status = "PREPARED"

\* A prepared rekey whose operation is not committed may be dropped.
LEMMA AbortStep ==
    ASSUME TypeOK, NEW d \in Devices, dev[d].pending.op \in DOMAIN ops, Abort(d)
    PROVE  /\ TypeOK' /\ Moves(d) /\ OpsGrow
           /\ \/ Rests(d)
              \/ /\ Saves(d, dev[d].group, NoPending)
                 /\ ops'[dev[d].pending.op].status \notin {"PREPARED", "COMMITTED"}
<1> DEFINE o == dev[d].pending.op
           status == IF ops[o].status = "PREPARED" THEN "ABORTED" ELSE ops[o].status
<1>1. ops \in Seq(Operation) /\ ops[o] \in Operation
  BY DEF TypeOK
<1>2. status \in {"PREPARED", "COMMITTED", "ABORTED", "EXPIRED"} /\ status # "PREPARED"
  BY <1>1 DEF Operation
<1>3. UNCHANGED <<standing, chain, welcomes, late, minted, disk>>
  BY DEF Abort
<1>4. CASE /\ ops[o].status # "COMMITTED"
           /\ ops' = [ops EXCEPT ![o].status = IF @ = "PREPARED" THEN "ABORTED" ELSE @]
           /\ Become(d, Dropped(dev[d])) \/ Become(d, Failed(dev[d]))
  <2>1. ops' = [ops EXCEPT ![o].status = status]
    BY <1>4
  <2>2. /\ ops' \in Seq(Operation) /\ DOMAIN ops' = DOMAIN ops
        /\ ops'[o].status = status
        /\ \A q \in DOMAIN ops : ops'[q].base = ops[q].base
        /\ \A q \in DOMAIN ops : q # o => ops'[q] = ops[q]
    <3> HIDE DEF status, o
    <3>1. o \in DOMAIN ops
      BY DEF o
    <3> QED
      BY <1>2, <2>1, <3>1, StatusType
  <2>3. status # "COMMITTED"
    BY <1>4
  <2>4. OpsGrow
    BY <1>2, <1>4, <2>2, <2>3 DEF OpsGrow
  <2>5. Moves(d) /\ (Rests(d) \/ Saves(d, dev[d].group, NoPending))
    BY <1>4, FailedMoves, DroppedMoves
  <2>6. TypeOK'
    BY <1>3, <2>2, <2>5 DEF TypeOK, Moves
  <2> QED
    BY <1>2, <2>2, <2>3, <2>4, <2>5, <2>6
<1>5. CASE UNCHANGED ops /\ Become(d, Failed(dev[d]))
  <2>1. Moves(d) /\ Rests(d)
    BY <1>5, FailedMoves
  <2>2. TypeOK'
    BY <1>3, <1>5, <2>1 DEF TypeOK, Moves
  <2> QED
    BY <1>5, <2>1, <2>2 DEF OpsGrow
<1> QED
  BY <1>4, <1>5 DEF Abort

LEMMA AbortTypeStep ==
    ASSUME TypeOK, NEW d \in Devices, Abort(d)
    PROVE  TypeOK'
<1>1. CASE dev[d].pending.op \in DOMAIN ops
  BY <1>1, AbortStep
<1>2. CASE dev[d].pending.op \notin DOMAIN ops
  <2>1. ops \in Seq(Operation)
    BY DEF TypeOK
  <2>2. ops' = ops
    BY <1>2, <2>1 DEF Abort
  <2>3. Moves(d)
    BY FailedMoves, DroppedMoves DEF Abort
  <2> QED
    BY <2>2, <2>3 DEF TypeOK, Moves, Abort
<1> QED
  BY <1>1, <1>2

\* The directory, the deadline of an operation, and a request that comes late.
LEMMA ServerSteps ==
    ASSUME TypeOK,
           \/ \E d \in Devices : Enroll(d) \/ Revoke(d)
           \/ \E o \in DOMAIN ops : Expire(o)
           \/ \E r \in late : LateArrives(r)
    PROVE  TypeOK'
<1>1. ASSUME NEW d \in Devices, Enroll(d) \/ Revoke(d) PROVE TypeOK'
  <2>1. standing' \in [Devices -> {"new", "active", "revoked"}]
    BY <1>1 DEF TypeOK, Enroll, Revoke
  <2>2. UNCHANGED <<chain, ops, welcomes, late, minted, dev, disk>>
    BY <1>1 DEF Enroll, Revoke
  <2> QED
    BY <2>1, <2>2 DEF TypeOK
<1>2. ASSUME NEW o \in DOMAIN ops, Expire(o) PROVE TypeOK'
  <2>1. ops' \in Seq(Operation)
    BY <1>2, StatusType DEF Expire
  <2> QED
    BY <1>2, <2>1 DEF TypeOK, Expire
<1>3. ASSUME NEW r \in late, LateArrives(r) PROVE TypeOK'
  <2>1. r \in Request /\ late' \subseteq late
    BY <1>3 DEF TypeOK, LateArrives
  <2>2. UNCHANGED <<standing, minted, dev, disk>>
    BY <1>3 DEF LateArrives
  <2>3. CASE Acceptable(r) /\ Commits(r)
    <3>1. /\ chain' \in Seq(Link) /\ chain' # <<>> /\ ops' \in Seq(Operation)
          /\ welcomes' \subseteq Welcome
      BY <2>1, <2>3, CommitsType
    <3> QED
      BY <2>1, <2>2, <3>1 DEF TypeOK
  <2>4. CASE UNCHANGED <<chain, ops, welcomes>>
    BY <2>1, <2>2, <2>4 DEF TypeOK
  <2> QED
    BY <1>3, <2>3, <2>4 DEF LateArrives
<1> QED
  BY <1>1, <1>2, <1>3

LEMMA TypeInit == Init => TypeOK
<1> SUFFICES ASSUME Init PROVE TypeOK
  OBVIOUS
<1>1. standing \in [Devices -> {"new", "active", "revoked"}]
  BY DEF Init
<1> DEFINE first == [commit |-> 0, op |-> 0, from |-> None, roster |-> Founders]
<1>2. first \in Link
  BY FoundersAssumption DEF Link
<1>3. chain = <<first>>
  BY DEF Init
<1>4. chain \in Seq(Link) /\ chain # <<>>
  <2> HIDE DEF first
  <2> QED
    BY <1>2, <1>3
<1>5. ops \in Seq(Operation) /\ welcomes \subseteq Welcome /\ late \subseteq Request /\ minted \in Nat
  BY DEF Init
<1>6. dev \in [Devices -> Memory] /\ \A d \in Devices : CallOK(dev[d])
  BY OffType DEF Init
<1>7. disk \in [Devices -> Stored]
  <2>1. <<0>> \in Seq(Nat) /\ <<>> \in Seq(Nat)
    OBVIOUS
  <2>2. \A d \in Devices : [group |-> IF d \in Founders THEN <<0>> ELSE <<>>,
                            pending |-> NoPending] \in Stored
    BY <2>1, OffType DEF Stored
  <2> QED
    BY <2>2 DEF Init
<1> QED
  BY <1>1, <1>4, <1>5, <1>6, <1>7 DEF TypeOK

LEMMA TypeStep == TypeOK /\ [Next]_vars => TypeOK'
<1> SUFFICES ASSUME TypeOK, [Next]_vars PROVE TypeOK'
  OBVIOUS
<1>1. ASSUME NEW d \in Devices, Step(d) PROVE TypeOK'
  BY <1>1, SaveStep, CrashStep, RestoreStep, OpenStep, JoinStep, AckStep, SyncStep,
     ReconcileStep, PrepareStep, PrepareFailsStep, CommitTakenStep, CommitRefusedStep,
     CommitLostStep, AbortTypeStep DEF Step
<1>2. CASE UNCHANGED vars
  BY <1>2 DEF TypeOK, vars
<1> QED
  BY <1>1, <1>2, ServerSteps DEF Next

\* The devices, the server and the requests between them are of their types,
\* and no call waits for a commit or an abort without a prepared rekey, nor
\* asks for a new one while it has one (finishPreparedRekey).
THEOREM TypeCorrect == Spec => []TypeOK
<1>1. Init => TypeOK
  BY TypeInit
<1>2. TypeOK /\ [Next]_vars => TypeOK'
  BY TypeStep
<1> QED
  BY <1>1, <1>2, PTL DEF Spec

-----------------------------------------------------------------------------
(* What the growth of the server leaves true.                              *)

\* With no new epoch, what a device relied on stays.
LEMMA OpsGrowKeeps ==
    ASSUME TypeOK, RekeyInv, TypeOK', OpsGrow, chain' = chain
    PROVE  /\ LinkOK'
           /\ \A g : Follows(g) => Follows(g)'
           /\ \A p : PendingOK(p) => PendingOK(p)'
           /\ \A e, g, p : Keeps(e, g, p) => Keeps(e, g, p)'
<1>1. LinkOK'
  <2>1. LinkOK
    BY DEF RekeyInv
  <2> QED
    BY <2>1 DEF LinkOK, OpsGrow, Epoch
<1>2. \A g : Follows(g) => Follows(g)'
  BY DEF Follows, Epoch
<1>3. \A p : PendingOK(p) => PendingOK(p)'
  BY DEF PendingOK, OpsGrow, NoPending
<1>4. \A e, g, p : Keeps(e, g, p) => Keeps(e, g, p)'
  BY DEF Keeps, Epoch
<1> QED
  BY <1>1, <1>2, <1>3, <1>4

\* A request that is committed leaves them true as well, its own device having
\* prepared it.
LEMMA CommitsKeeps ==
    ASSUME TypeOK, RekeyInv, NEW r \in Request, Acceptable(r), Commits(r)
    PROVE  /\ LinkOK' /\ OpsGrow
           /\ \A g \in Seq(Nat) : Follows(g) => Follows(g)'
           /\ \A p : PendingOK(p) => PendingOK(p)'
           /\ \A e, g, p : Keeps(e, g, p) /\ (e = r.from => p = r.pending) => Keeps(e, g, p)'
           /\ \A w \in welcomes' : Follows(w.group)'
<1> DEFINE o == r.pending.op
<1>1. /\ chain' \in Seq(Link) /\ Len(chain') = Epoch + 1
      /\ \A i \in 1 .. Epoch : chain'[i] = chain[i]
      /\ chain'[Epoch + 1].commit = r.pending.commit
      /\ chain'[Epoch + 1].op = o
      /\ chain'[Epoch + 1].from = r.from
      /\ DOMAIN ops' = DOMAIN ops
      /\ \A q \in DOMAIN ops : ops'[q].base = ops[q].base
      /\ \A q \in DOMAIN ops : q # o => ops'[q] = ops[q]
      /\ ops'[o].status = "COMMITTED"
      /\ \A w \in welcomes' : w \in welcomes \/
            (Len(w.group) = Epoch + 1 /\ \A i \in 1 .. Epoch + 1 : w.group[i] = chain'[i].commit)
  BY CommitsType
<1>2. Epoch \in Nat \ {0} /\ Epoch' = Epoch + 1
  BY <1>1 DEF TypeOK, Epoch
<1>3. o \in DOMAIN ops /\ ops[o].base = Epoch /\ ops[o].status = "PREPARED"
  BY DEF Acceptable
<1>4. OpsGrow
  BY <1>1, <1>3 DEF OpsGrow
<1>5. LinkOK'
  <2> SUFFICES ASSUME NEW i \in 2 .. Epoch + 1
               PROVE  /\ chain'[i].from \in Devices
                      /\ chain'[i].op \in DOMAIN ops'
                      /\ ops'[chain'[i].op].base = i - 1
                      /\ ops'[chain'[i].op].status = "COMMITTED"
    BY <1>2 DEF LinkOK
  <2>1. CASE i = Epoch + 1
    BY <1>1, <1>2, <1>3, <2>1 DEF Request
  <2>2. CASE i # Epoch + 1
    <3>1. i \in 2 .. Epoch /\ i \in 1 .. Epoch
      BY <1>2, <2>2
    <3>2. /\ chain[i].from \in Devices
          /\ chain[i].op \in DOMAIN ops
          /\ ops[chain[i].op].base = i - 1
          /\ ops[chain[i].op].status = "COMMITTED"
      BY <3>1 DEF RekeyInv, LinkOK
    <3>3. chain'[i] = chain[i]
      BY <1>1, <3>1
    <3> QED
      BY <1>4, <3>2, <3>3 DEF OpsGrow
  <2> QED
    BY <2>1, <2>2
<1>6. ASSUME NEW g \in Seq(Nat), Follows(g)
      PROVE  Follows(g)'
  <2>1. Len(g) \in Nat /\ Len(g) <= Epoch'
    BY <1>2, <1>6 DEF Follows
  <2> SUFFICES ASSUME NEW i \in 1 .. Len(g)
               PROVE  g[i] = chain'[i].commit
    BY <2>1 DEF Follows
  <2>2. i \in 1 .. Epoch /\ g[i] = chain[i].commit
    BY <1>2, <1>6, <2>1 DEF Follows
  <2> QED
    BY <1>1, <2>2
<1>7. \A p : PendingOK(p) => PendingOK(p)'
  BY <1>1 DEF PendingOK, NoPending
<1>8. ASSUME NEW e, NEW g, NEW p, Keeps(e, g, p), e = r.from => p = r.pending
      PROVE  Keeps(e, g, p)'
  <2> SUFFICES ASSUME NEW i \in 2 .. Epoch + 1, chain'[i].from = e
               PROVE  Len(g) >= i \/ (p.op = chain'[i].op /\ p.commit = chain'[i].commit)
    BY <1>2 DEF Keeps
  <2>1. CASE i = Epoch + 1
    BY <1>1, <1>8, <2>1
  <2>2. CASE i # Epoch + 1
    <3>1. i \in 2 .. Epoch /\ i \in 1 .. Epoch
      BY <1>2, <2>2
    <3>2. chain'[i] = chain[i]
      BY <1>1, <3>1
    <3> QED
      BY <1>8, <3>1, <3>2 DEF Keeps
  <2> QED
    BY <2>1, <2>2
<1>9. \A w \in welcomes' : Follows(w.group)'
  <2> SUFFICES ASSUME NEW w \in welcomes' PROVE Follows(w.group)'
    OBVIOUS
  <2>1. CASE w \in welcomes
    <3>1. Follows(w.group) /\ w.group \in Seq(Nat)
      BY <2>1 DEF RekeyInv, TypeOK, Welcome
    <3> QED
      BY <1>6, <3>1
  <2>2. CASE Len(w.group) = Epoch + 1 /\ \A i \in 1 .. Epoch + 1 : w.group[i] = chain'[i].commit
    BY <1>2, <2>2 DEF Follows
  <2> QED
    BY <1>1, <2>1, <2>2
<1> QED
  BY <1>4, <1>5, <1>6, <1>7, <1>8, <1>9

-----------------------------------------------------------------------------
(* What a step of one device leaves true, when no epoch is added.          *)

\* The requests under way from d, after a step of d.
LateStays(d) == \A r \in late : r.from = d => LateOK(r)'

\* The other devices and their requests are not disturbed.
LEMMA OthersKept ==
    ASSUME TypeOK, RekeyInv, TypeOK', NEW d \in Devices, Moves(d), OpsGrow, chain' = chain,
           \A w \in welcomes' : w \in welcomes,
           \A e \in Devices : e # d => disk'[e] = disk[e],
           DeviceOK(d)', LateStays(d),
           \A r \in late' : r \in late \/ LateOK(r)'
    PROVE  RekeyInv'
<1>1. /\ LinkOK'
      /\ \A g : Follows(g) => Follows(g)'
      /\ \A p : PendingOK(p) => PendingOK(p)'
      /\ \A e, g, p : Keeps(e, g, p) => Keeps(e, g, p)'
  BY OpsGrowKeeps
<1>2. ASSUME NEW e \in Devices PROVE DeviceOK(e)'
  <2>1. CASE e = d
    BY <2>1
  <2>2. CASE e # d
    <3>1. dev'[e] = dev[e] /\ disk'[e] = disk[e]
      BY <2>2 DEF Moves
    <3>2. DeviceOK(e)
      BY DEF RekeyInv
    <3> QED
      BY <1>1, <3>1, <3>2 DEF DeviceOK
  <2> QED
    BY <2>1, <2>2
<1>3. ASSUME NEW r \in late' PROVE LateOK(r)'
  <2>1. CASE r \in late /\ r.from # d
    <3>1. r.from \in Devices
      BY <2>1 DEF TypeOK, Request
    <3>2. dev'[r.from] = dev[r.from] /\ disk'[r.from] = disk[r.from]
      BY <2>1, <3>1 DEF Moves
    <3>3. LateOK(r)
      BY <2>1 DEF RekeyInv
    <3>4. PendingOK(r.pending)'
      BY <1>1, <3>3 DEF LateOK
    <3>5. ops'[r.pending.op].status = "PREPARED" => ops[r.pending.op].status = "PREPARED"
      BY <3>3 DEF LateOK, PendingOK, OpsGrow
    <3> QED
      BY <3>2, <3>3, <3>4, <3>5 DEF LateOK
  <2> QED
    BY <1>3, <2>1 DEF LateStays
<1>4. ASSUME NEW w \in welcomes' PROVE Follows(w.group)'
  BY <1>1, <1>4 DEF RekeyInv
<1> QED
  BY <1>1, <1>2, <1>3, <1>4 DEF RekeyInv

\* A device that crashes or goes on with what it has.
LEMMA RestKept ==
    ASSUME TypeOK, RekeyInv, TypeOK', NEW d \in Devices, Rests(d), OpsGrow, chain' = chain,
           disk' = disk, Steady(dev[d].pc) \/ dev'[d] = Off
    PROVE  DeviceOK(d)' /\ LateStays(d)
<1>1. /\ \A g : Follows(g) => Follows(g)'
      /\ \A p : PendingOK(p) => PendingOK(p)'
      /\ \A e, g, p : Keeps(e, g, p) => Keeps(e, g, p)'
  BY OpsGrowKeeps
<1>2. DeviceOK(d) /\ chain \in Seq(Link)
  BY DEF RekeyInv, TypeOK
<1>3. DeviceOK(d)'
  <2>1. CASE dev'[d] = Off
    <3>1. Follows(<<>>)' /\ PendingOK(NoPending)'
      BY <1>2 DEF Follows, PendingOK, Epoch, TypeOK
    <3> QED
      BY <1>1, <1>2, <2>1, <3>1 DEF DeviceOK, Off
  <2>2. CASE /\ Steady(dev[d].pc) /\ dev'[d].group = dev[d].group
             /\ dev'[d].pending = dev[d].pending
    <3>1. dev[d].group = disk[d].group /\ dev[d].pending = disk[d].pending
      BY <1>2, <2>2 DEF DeviceOK, Steady
    <3> QED
      BY <1>1, <1>2, <2>2, <3>1 DEF DeviceOK
  <2> QED
    BY <2>1, <2>2 DEF Rests
<1>4. ASSUME NEW r \in late, r.from = d PROVE LateOK(r)'
  <2>1. LateOK(r)
    BY DEF RekeyInv
  <2>2. PendingOK(r.pending)' /\ r.pending # NoPending
    BY <1>1, <2>1 DEF LateOK
  <2>3. ops'[r.pending.op].status = "PREPARED" => ops[r.pending.op].status = "PREPARED"
    BY <2>1 DEF LateOK, PendingOK, OpsGrow
  <2>4. dev'[d] = Off \/ (dev[d].pc # "off" /\ dev'[d].pending = dev[d].pending)
    BY DEF Rests, Steady
  <2> QED
    BY <1>4, <2>1, <2>2, <2>3, <2>4 DEF LateOK, Off
<1> QED
  BY <1>3, <1>4 DEF LateStays

\* A device that is about to store group g and prepared rekey p.
LEMMA SaveKept ==
    ASSUME TypeOK, RekeyInv, TypeOK', NEW d \in Devices, NEW g, NEW p,
           Saves(d, g, p), OpsGrow, chain' = chain, disk' = disk, Steady(dev[d].pc),
           Follows(g), PendingOK(p)', Keeps(d, g, p),
           \/ p = dev[d].pending
           \/ \A r \in late : r.from = d => ops'[r.pending.op].status # "PREPARED"
    PROVE  DeviceOK(d)' /\ LateStays(d)
<1>1. /\ \A h : Follows(h) => Follows(h)'
      /\ \A q : PendingOK(q) => PendingOK(q)'
      /\ \A e, h, q : Keeps(e, h, q) => Keeps(e, h, q)'
  BY OpsGrowKeeps
<1>2. DeviceOK(d)
  BY DEF RekeyInv
<1>3. DeviceOK(d)'
  BY <1>1, <1>2 DEF DeviceOK, Saves
<1>4. ASSUME NEW r \in late, r.from = d PROVE LateOK(r)'
  <2>1. LateOK(r)
    BY DEF RekeyInv
  <2>2. PendingOK(r.pending)' /\ r.pending # NoPending
    BY <1>1, <2>1 DEF LateOK
  <2>3. ops'[r.pending.op].status = "PREPARED" => ops[r.pending.op].status = "PREPARED"
    BY <2>1 DEF LateOK, PendingOK, OpsGrow
  <2>4. dev[d].pc # "off" /\ dev'[d].pending = p
    BY DEF Saves, Steady
  <2> QED
    BY <1>4, <2>1, <2>2, <2>3, <2>4 DEF LateOK
<1> QED
  BY <1>3, <1>4 DEF LateStays

-----------------------------------------------------------------------------
(* Each step preserves RekeyInv.                                           *)

\* A request of d that could be committed is the rekey that d has prepared.
LEMMA LateIsPrepared ==
    ASSUME RekeyInv, OpsGrow, NEW d, NEW r \in late, r.from = d, dev[d].pc # "off",
           ops'[r.pending.op].status = "PREPARED"
    PROVE  /\ ops[r.pending.op].status = "PREPARED"
           /\ dev[d].pending = r.pending /\ r.pending # NoPending
<1>1. LateOK(r)
  BY DEF RekeyInv
<1>2. ops[r.pending.op].status = "PREPARED"
  BY <1>1 DEF LateOK, PendingOK, OpsGrow
<1> QED
  BY <1>1, <1>2 DEF LateOK

LEMMA RestingInv ==
    ASSUME TypeOK, RekeyInv, NEW d \in Devices,
           Crash(d) \/ Open(d) \/ Reconcile(d) \/ PrepareFails(d) \/ CommitLost(d) \/ Ack(d)
    PROVE  RekeyInv'
<1>1. TypeOK' /\ Moves(d) /\ Rests(d) /\ \A w \in welcomes' : w \in welcomes
  <2>1. Ack(d) \/ welcomes' = welcomes
    BY DEF Crash, Open, Reconcile, PrepareFails, CommitLost, server
  <2> QED
    BY <2>1, CrashStep, OpenStep, ReconcileStep, PrepareFailsStep, CommitLostStep, AckStep
<1>2. chain' = chain /\ ops' = ops /\ disk' = disk
  BY DEF Crash, Open, Reconcile, PrepareFails, CommitLost, Ack, server
<1>3. OpsGrow
  BY <1>2 DEF OpsGrow
<1>4. Steady(dev[d].pc) \/ dev'[d] = Off
  <2>1. CASE Crash(d)
    BY <2>1 DEF Crash, Become, TypeOK
  <2>2. CASE ~Crash(d)
    BY <2>2 DEF Open, Reconcile, PrepareFails, CommitLost, Ack, Steady
  <2> QED
    BY <2>1, <2>2
<1>5. DeviceOK(d)' /\ LateStays(d)
  BY <1>1, <1>2, <1>3, <1>4, RestKept
<1>6. ASSUME NEW r \in late' PROVE r \in late \/ LateOK(r)'
  <2>1. r \in late \/ (r = RequestOf(d) /\ dev[d].pc = "post")
    <3>1. CASE Crash(d)
      BY <1>6, <3>1, CrashStep
    <3>2. CASE CommitLost(d)
      BY <1>6, <3>2, CommitLostStep DEF CommitLost
    <3>3. CASE ~Crash(d) /\ ~CommitLost(d)
      BY <1>6, <3>3 DEF Open, Reconcile, PrepareFails, Ack, server
    <3> QED
      BY <3>1, <3>2, <3>3
  <2>2. CASE r = RequestOf(d) /\ dev[d].pc = "post"
    <3>1. r.from = d /\ r.pending = dev[d].pending
      BY <2>2 DEF RequestOf
    <3>2. CallOK(dev[d]) /\ DeviceOK(d)
      BY DEF TypeOK, RekeyInv
    <3>3. r.pending # NoPending /\ disk[d].pending = r.pending /\ PendingOK(r.pending)
      BY <2>2, <3>1, <3>2 DEF CallOK, DeviceOK
    <3>4. PendingOK(r.pending)'
      BY <1>2, <3>3 DEF PendingOK
    <3>5. dev'[d].pc # "off" => dev'[d].pending = r.pending
      BY <1>1, <3>1 DEF Rests, Off
    <3> QED
      BY <1>2, <3>1, <3>3, <3>4, <3>5 DEF LateOK
  <2> QED
    BY <2>1, <2>2
<1> QED
  BY <1>1, <1>2, <1>3, <1>5, <1>6, OthersKept

LEMMA SaveInv ==
    ASSUME TypeOK, RekeyInv, NEW d \in Devices, Save(d)
    PROVE  RekeyInv'
<1>1. /\ TypeOK' /\ Moves(d) /\ Rests(d)
      /\ disk'[d].group = dev[d].group /\ disk'[d].pending = dev[d].pending
      /\ \A e \in Devices : e # d => disk'[e] = disk[e]
  BY SaveStep
<1>2. UNCHANGED <<chain, ops, welcomes, late>> /\ dev[d].pc = "save"
  BY DEF Save, server
<1>3. OpsGrow
  BY <1>2 DEF OpsGrow
<1>4. /\ \A g : Follows(g) => Follows(g)'
      /\ \A p : PendingOK(p) => PendingOK(p)'
      /\ \A e, g, p : Keeps(e, g, p) => Keeps(e, g, p)'
  BY <1>1, <1>2, <1>3, OpsGrowKeeps
<1>5. DeviceOK(d)
  BY DEF RekeyInv
<1>6. dev'[d] = Off \/ (dev'[d].group = dev[d].group /\ dev'[d].pending = dev[d].pending)
  BY <1>1 DEF Rests
<1>7. DeviceOK(d)'
  <2>1. Follows(<<>>)' /\ PendingOK(NoPending)'
    BY <1>1 DEF Follows, PendingOK, Epoch, TypeOK
  <2> QED
    BY <1>1, <1>2, <1>4, <1>5, <1>6, <2>1 DEF DeviceOK, Off
<1>8. LateStays(d)
  <2> SUFFICES ASSUME NEW r \in late, r.from = d PROVE LateOK(r)'
    BY DEF LateStays
  <2>1. LateOK(r)
    BY DEF RekeyInv
  <2>2. PendingOK(r.pending)'
    BY <1>4, <2>1 DEF LateOK
  <2> QED
    BY <1>1, <1>2, <1>6, <2>1, <2>2 DEF LateOK, Off
<1> QED
  BY <1>1, <1>2, <1>3, <1>7, <1>8, OthersKept

LEMMA RestoreInv ==
    ASSUME TypeOK, RekeyInv, NEW d \in Devices, Restore(d)
    PROVE  RekeyInv'
<1>1. /\ TypeOK' /\ Moves(d) /\ Steady(dev'[d].pc)
      /\ dev'[d].group = disk[d].group /\ dev'[d].pending = disk[d].pending
  BY RestoreStep
<1>2. UNCHANGED <<chain, ops, welcomes, late, disk>>
  BY DEF Restore, server
<1>3. OpsGrow
  BY <1>2 DEF OpsGrow
<1>4. /\ \A g : Follows(g) => Follows(g)'
      /\ \A p : PendingOK(p) => PendingOK(p)'
      /\ \A e, g, p : Keeps(e, g, p) => Keeps(e, g, p)'
  BY <1>1, <1>2, <1>3, OpsGrowKeeps
<1>5. DeviceOK(d)'
  <2>1. DeviceOK(d)
    BY DEF RekeyInv
  <2> QED
    BY <1>1, <1>2, <1>4, <2>1 DEF DeviceOK
<1>6. LateStays(d)
  <2> SUFFICES ASSUME NEW r \in late, r.from = d PROVE LateOK(r)'
    BY DEF LateStays
  <2>1. LateOK(r)
    BY DEF RekeyInv
  <2>2. PendingOK(r.pending)'
    BY <1>4, <2>1 DEF LateOK
  <2> QED
    BY <1>1, <1>2, <2>1, <2>2 DEF LateOK
<1> QED
  BY <1>1, <1>2, <1>3, <1>5, <1>6, OthersKept

\* A group joined from a Welcome, or already there, follows the chain.
LEMMA JoinInv ==
    ASSUME TypeOK, RekeyInv, NEW d \in Devices, Join(d)
    PROVE  RekeyInv'
<1>1. /\ TypeOK' /\ Moves(d)
      /\ \/ Rests(d)
         \/ Saves(d, dev[d].group, dev[d].pending)
         \/ dev[d].group = <<>> /\ \E w \in welcomes : Saves(d, w.group, dev[d].pending)
  BY JoinStep
<1>2. UNCHANGED <<chain, ops, welcomes, late, disk>> /\ Steady(dev[d].pc)
  BY DEF Join, server, Steady
<1>3. OpsGrow
  BY <1>2 DEF OpsGrow
<1>4. DeviceOK(d) /\ dev[d].pc # "off" /\ dev[d] \in Memory
  BY <1>2 DEF RekeyInv, Steady, TypeOK
<1>p. PICK p : p = dev[d].pending
  OBVIOUS
<1>5. PendingOK(p)'
  BY <1>2, <1>4, <1>p DEF DeviceOK, PendingOK
<1>6. DeviceOK(d)' /\ LateStays(d)
  <2>1. CASE Rests(d)
    BY <1>1, <1>2, <1>3, <2>1, RestKept
  <2>2. CASE Saves(d, dev[d].group, dev[d].pending)
    <3>1. Follows(dev[d].group) /\ Keeps(d, dev[d].group, p) /\ Saves(d, dev[d].group, p)
      BY <1>4, <1>p, <2>2 DEF DeviceOK
    <3> QED
      BY <1>1, <1>2, <1>3, <1>5, <1>p, <3>1, SaveKept
  <2>3. CASE dev[d].group = <<>> /\ \E w \in welcomes : Saves(d, w.group, dev[d].pending)
    <3>1. PICK w \in welcomes : Saves(d, w.group, p)
      BY <1>p, <2>3
    <3>2. Follows(w.group) /\ Len(w.group) \in Nat
      BY DEF RekeyInv, TypeOK, Welcome
    <3>3. Keeps(d, <<>>, p)
      BY <1>4, <1>p, <2>3 DEF DeviceOK
    <3>4. Keeps(d, w.group, p)
      BY <3>3 DEF Keeps
    <3> QED
      BY <1>1, <1>2, <1>3, <1>5, <1>p, <3>1, <3>2, <3>4, SaveKept
  <2> QED
    BY <1>1, <2>1, <2>2, <2>3
<1> QED
  BY <1>1, <1>2, <1>3, <1>6, OthersKept

LEMMA SyncInv ==
    ASSUME TypeOK, RekeyInv, NEW d \in Devices, Sync(d)
    PROVE  RekeyInv'
<1> DEFINE g == Append(dev[d].group, NextLink(d).commit)
<1>1. TypeOK' /\ Moves(d) /\ Saves(d, g, dev[d].pending)
  BY SyncStep
<1>2. UNCHANGED <<chain, ops, welcomes, late, disk>> /\ Steady(dev[d].pc)
  BY DEF Sync, server, Steady
<1>3. OpsGrow
  BY <1>2 DEF OpsGrow
<1>4. DeviceOK(d) /\ dev[d].pc # "off" /\ dev[d].group \in Seq(Nat) /\ Epoch \in Nat
  BY <1>2 DEF RekeyInv, Steady, TypeOK, Memory, Epoch
<1>p. PICK p : p = dev[d].pending
  OBVIOUS
<1>5. PendingOK(p)'
  BY <1>2, <1>4, <1>p DEF DeviceOK, PendingOK
<1>6. Follows(g)
  <2>1. Follows(dev[d].group) /\ Len(dev[d].group) < Epoch
    BY <1>4 DEF DeviceOK, Sync, MayApply
  <2>3. \A i \in 1 .. Len(dev[d].group) + 1 :
            g[i] = IF i <= Len(dev[d].group) THEN dev[d].group[i] ELSE NextLink(d).commit
    BY <1>4
  <2>4. Len(g) = Len(dev[d].group) + 1
    BY <1>4
  <2> HIDE DEF g
  <2> QED
    BY <1>4, <2>1, <2>3, <2>4 DEF Follows, NextLink
<1>7. Keeps(d, g, p)
  <2>1. Keeps(d, dev[d].group, p) /\ Len(g) = Len(dev[d].group) + 1
    BY <1>4, <1>p DEF DeviceOK
  <2> QED
    BY <1>4, <2>1 DEF Keeps
<1>8. DeviceOK(d)' /\ LateStays(d)
  <2> HIDE DEF g
  <2> QED
    BY <1>1, <1>2, <1>3, <1>5, <1>6, <1>7, <1>p, SaveKept
<1> QED
  BY <1>1, <1>2, <1>3, <1>8, OthersKept

\* A device without a prepared rekey has its own Commits in its group, and no
\* request under way that could be committed.
LEMMA PrepareInv ==
    ASSUME TypeOK, RekeyInv, NEW d \in Devices, Prepare(d)
    PROVE  RekeyInv'
<1>1. /\ TypeOK' /\ Moves(d)
      /\ DOMAIN ops \subseteq DOMAIN ops' /\ \A o \in DOMAIN ops : ops'[o] = ops[o]
      /\ \/ Rests(d)
         \/ \E p \in Pending : /\ p # NoPending /\ p.op \in DOMAIN ops'
                               /\ ops'[p.op].base = p.base
                               /\ Saves(d, dev[d].group, p)
  BY PrepareStep
<1>2. UNCHANGED <<chain, welcomes, late, disk>> /\ Steady(dev[d].pc) /\ dev[d].pc = "prepare"
  BY DEF Prepare, Steady
<1>3. OpsGrow
  BY <1>1 DEF OpsGrow
<1>4. DeviceOK(d) /\ CallOK(dev[d]) /\ LinkOK
  BY DEF RekeyInv, TypeOK
<1>5. dev[d].pending = NoPending
  BY <1>2, <1>4 DEF CallOK
<1>6. CASE Rests(d)
  <2>1. DeviceOK(d)' /\ LateStays(d)
    BY <1>1, <1>2, <1>3, <1>6, RestKept
  <2> QED
    BY <1>1, <1>2, <1>3, <2>1, OthersKept
<1>7. CASE \E p \in Pending : /\ p # NoPending /\ p.op \in DOMAIN ops'
                              /\ ops'[p.op].base = p.base
                              /\ Saves(d, dev[d].group, p)
  <2>1. PICK p \in Pending : /\ p # NoPending /\ p.op \in DOMAIN ops'
                             /\ ops'[p.op].base = p.base
                             /\ Saves(d, dev[d].group, p)
    BY <1>7
  <2>2. PendingOK(p)'
    BY <2>1 DEF PendingOK
  <2>3. Keeps(d, dev[d].group, p)
    <3>1. Keeps(d, dev[d].group, NoPending)
      BY <1>2, <1>4, <1>5 DEF DeviceOK
    <3>2. \A i \in 2 .. Epoch : chain[i].op # 0
      BY <1>4 DEF LinkOK, TypeOK
    <3> QED
      BY <3>1, <3>2 DEF Keeps, NoPending
  <2>4. \A r \in late : r.from = d => ops'[r.pending.op].status # "PREPARED"
    BY <1>2, <1>3, <1>5, LateIsPrepared
  <2>5. Follows(dev[d].group)
    BY <1>4 DEF DeviceOK
  <2>6. DeviceOK(d)' /\ LateStays(d)
    BY <1>1, <1>2, <1>3, <2>1, <2>2, <2>3, <2>4, <2>5, SaveKept
  <2> QED
    BY <1>1, <1>2, <1>3, <2>6, OthersKept
<1> QED
  BY <1>1, <1>6, <1>7

\* Without the Commit it prepared, a device keeps its Commits if the operation
\* was not committed.
LEMMA DropKept ==
    ASSUME TypeOK, RekeyInv, TypeOK', NEW d \in Devices, Saves(d, dev[d].group, NoPending),
           OpsGrow, chain' = chain, disk' = disk, Steady(dev[d].pc),
           ops'[dev[d].pending.op].status \notin {"PREPARED", "COMMITTED"}
    PROVE  DeviceOK(d)' /\ LateStays(d)
<1>1. DeviceOK(d) /\ dev[d].pc # "off"
  BY DEF RekeyInv, Steady
<1>2. Follows(dev[d].group)
  BY <1>1 DEF DeviceOK
<1>3. Keeps(d, dev[d].group, NoPending)
  <2>1. Keeps(d, dev[d].group, dev[d].pending)
    BY <1>1 DEF DeviceOK
  <2>2. \A i \in 2 .. Epoch : chain[i].op # dev[d].pending.op
    BY DEF RekeyInv, LinkOK, OpsGrow
  <2> QED
    BY <2>1, <2>2 DEF Keeps
<1>4. \A r \in late : r.from = d => ops'[r.pending.op].status # "PREPARED"
  BY <1>1, LateIsPrepared
<1>5. PendingOK(NoPending)'
  BY DEF PendingOK
<1> QED
  BY <1>2, <1>3, <1>4, <1>5, SaveKept

\* A Commit that the server has from this device is the next one of its group.
LEMMA KnownKept ==
    ASSUME TypeOK, RekeyInv, TypeOK', NEW d \in Devices, Known(RequestOf(d)),
           Len(dev[d].group) = dev[d].pending.base, dev[d].pending # NoPending,
           Saves(d, Append(dev[d].group, dev[d].pending.commit), NoPending),
           ops' = ops, chain' = chain, disk' = disk, Steady(dev[d].pc)
    PROVE  DeviceOK(d)' /\ LateStays(d)
<1> DEFINE g == Append(dev[d].group, dev[d].pending.commit)
           p == dev[d].pending
<1>1. DeviceOK(d) /\ dev[d].pc # "off" /\ dev[d].group \in Seq(Nat) /\ Epoch \in Nat /\ LinkOK
  BY DEF RekeyInv, Steady, TypeOK, Memory, Epoch
<1>2. PICK i \in 2 .. Epoch : chain[i].commit = p.commit /\ chain[i].op = p.op
  BY DEF Known, RequestOf
<1>3. ops[p.op].base = p.base /\ ops[p.op].base = i - 1 /\ ops[p.op].status = "COMMITTED"
  BY <1>1, <1>2 DEF DeviceOK, PendingOK, LinkOK
<1>4. i = Len(dev[d].group) + 1
  BY <1>1, <1>3
<1>5. Len(g) = i
  BY <1>1, <1>4
<1>6. Follows(g)
  <2>1. Follows(dev[d].group)
    BY <1>1 DEF DeviceOK
  <2>2. \A j \in 1 .. i : g[j] = IF j < i THEN dev[d].group[j] ELSE p.commit
    BY <1>1, <1>4
  <2>3. \A j \in 1 .. i : g[j] = chain[j].commit
    <3> SUFFICES ASSUME NEW j \in 1 .. i PROVE g[j] = chain[j].commit
      OBVIOUS
    <3> HIDE DEF g, p
    <3>0. i \in Nat /\ j \in Nat /\ j <= i
      BY <1>1, <1>2
    <3>1. CASE j = i
      <4>1. g[j] = p.commit
        BY <2>2, <3>0, <3>1
      <4> QED
        BY <1>2, <3>1, <4>1
    <3>2. CASE j < i
      <4>1. j \in 1 .. Len(dev[d].group)
        BY <1>1, <1>4, <3>0, <3>2
      <4>2. g[j] = dev[d].group[j]
        BY <2>2, <3>2
      <4> QED
        BY <2>1, <4>1, <4>2 DEF Follows
    <3> QED
      BY <3>0, <3>1, <3>2
  <2> HIDE DEF g
  <2> QED
    BY <1>1, <1>2, <1>5, <2>3 DEF Follows
<1>7. Keeps(d, g, NoPending)
  <2>1. Keeps(d, dev[d].group, p)
    BY <1>1 DEF DeviceOK
  <2>2. \A j \in 2 .. Epoch : chain[j].op = p.op => j = i
    BY <1>1, <1>3 DEF LinkOK
  <2> HIDE DEF g
  <2> QED
    BY <1>1, <1>4, <1>5, <2>1, <2>2 DEF Keeps
<1>8. OpsGrow
  BY DEF OpsGrow
<1>9. \A r \in late : r.from = d => ops'[r.pending.op].status # "PREPARED"
  BY <1>1, <1>3, <1>8, LateIsPrepared
<1>10. PendingOK(NoPending)'
  BY DEF PendingOK
<1> HIDE DEF g
<1> QED
  BY <1>6, <1>7, <1>8, <1>9, <1>10, SaveKept DEF g

LEMMA CommitRefusedInv ==
    ASSUME TypeOK, RekeyInv, NEW d \in Devices, CommitRefused(d)
    PROVE  RekeyInv'
<1>1. /\ TypeOK' /\ Moves(d)
      /\ \/ Rests(d)
         \/ /\ Known(RequestOf(d))
            /\ Len(dev[d].group) = dev[d].pending.base
            /\ Saves(d, Append(dev[d].group, dev[d].pending.commit), NoPending)
         \/ /\ ops[dev[d].pending.op].status \notin {"PREPARED", "COMMITTED"}
            /\ Saves(d, dev[d].group, NoPending)
  BY CommitRefusedStep
<1>2. UNCHANGED <<chain, ops, welcomes, late, disk>> /\ Steady(dev[d].pc)
  BY DEF CommitRefused, server, Steady
<1>3. OpsGrow
  BY <1>2 DEF OpsGrow
<1>4. dev[d].pending # NoPending
  BY DEF CommitRefused, TypeOK, CallOK
<1>5. DeviceOK(d)' /\ LateStays(d)
  BY <1>1, <1>2, <1>3, <1>4, RestKept, DropKept, KnownKept
<1> QED
  BY <1>1, <1>2, <1>3, <1>5, OthersKept

LEMMA AbortInv ==
    ASSUME TypeOK, RekeyInv, NEW d \in Devices, Abort(d)
    PROVE  RekeyInv'
<1>1. dev[d].pending.op \in DOMAIN ops
  <2>1. dev[d].pending # NoPending
    BY DEF Abort, TypeOK, CallOK
  <2> QED
    BY <2>1 DEF RekeyInv, DeviceOK, PendingOK
<1>2. /\ TypeOK' /\ Moves(d) /\ OpsGrow
      /\ \/ Rests(d)
         \/ /\ Saves(d, dev[d].group, NoPending)
            /\ ops'[dev[d].pending.op].status \notin {"PREPARED", "COMMITTED"}
  BY <1>1, AbortStep
<1>3. UNCHANGED <<chain, welcomes, late, disk>> /\ Steady(dev[d].pc)
  BY DEF Abort, Steady
<1>4. DeviceOK(d)' /\ LateStays(d)
  BY <1>2, <1>3, RestKept, DropKept
<1> QED
  BY <1>2, <1>3, <1>4, OthersKept

\* The server takes the Commit of d, and d applies it or is left with it
\* prepared.
LEMMA CommitTakenInv ==
    ASSUME TypeOK, RekeyInv, NEW d \in Devices, CommitTaken(d)
    PROVE  RekeyInv'
<1> DEFINE g == Append(dev[d].group, dev[d].pending.commit)
           p == dev[d].pending
<1>1. /\ TypeOK' /\ Moves(d) /\ RequestOf(d) \in Request
      /\ \/ Rests(d)
         \/ Len(dev[d].group) = p.base /\ Saves(d, g, NoPending)
  BY CommitTakenStep
<1>2. UNCHANGED <<late, disk>> /\ Steady(dev[d].pc)
  BY DEF CommitTaken, Steady
<1>3. p # NoPending
  BY DEF CommitTaken, TypeOK, CallOK
<1>4. CASE Known(RequestOf(d)) /\ UNCHANGED <<chain, ops, welcomes>>
  <2>1. OpsGrow
    BY <1>4 DEF OpsGrow
  <2>2. DeviceOK(d)' /\ LateStays(d)
    BY <1>1, <1>2, <1>3, <1>4, <2>1, RestKept, KnownKept
  <2> QED
    BY <1>1, <1>2, <1>4, <2>1, <2>2, OthersKept
<1>5. CASE Acceptable(RequestOf(d)) /\ Commits(RequestOf(d))
  <2>1. /\ LinkOK' /\ OpsGrow
        /\ \A h \in Seq(Nat) : Follows(h) => Follows(h)'
        /\ \A q : PendingOK(q) => PendingOK(q)'
        /\ \A e, h, q : Keeps(e, h, q) /\ (e = RequestOf(d).from => q = RequestOf(d).pending)
                            => Keeps(e, h, q)'
        /\ \A w \in welcomes' : Follows(w.group)'
    BY <1>1, <1>5, CommitsKeeps
  <2>2. RequestOf(d).from = d /\ RequestOf(d).pending = p
    BY DEF RequestOf
  <2>3. /\ \A e \in Devices : DeviceOK(e) /\ dev[e] \in Memory /\ disk[e] \in Stored
        /\ \A e \in Devices : dev[e].group \in Seq(Nat) /\ disk[e].group \in Seq(Nat)
    BY DEF RekeyInv, TypeOK, Memory, Stored
  <2>4. ASSUME NEW e \in Devices, e # d PROVE DeviceOK(e)'
    <3>1. dev'[e] = dev[e] /\ disk'[e] = disk[e]
      BY <1>1, <1>2, <2>4 DEF Moves
    <3> QED
      BY <2>1, <2>2, <2>3, <2>4, <3>1 DEF DeviceOK
  <2>5. DeviceOK(d) /\ dev[d].group = disk[d].group /\ disk[d].pending = p /\ dev[d].pc # "off"
    BY <1>2, <2>3 DEF DeviceOK, Steady
  <2>6. DeviceOK(d)'
    <3>1. /\ Follows(disk[d].group)' /\ PendingOK(disk[d].pending)'
          /\ Keeps(d, disk[d].group, disk[d].pending)'
      <4>1. PICK h, q : h = disk[d].group /\ q = disk[d].pending
        OBVIOUS
      <4>2. Follows(h)' /\ PendingOK(q)' /\ Keeps(d, h, q)'
        BY <2>1, <2>2, <2>3, <2>5, <4>1 DEF DeviceOK
      <4>3. h = disk'[d].group /\ q = disk'[d].pending
        BY <1>2, <4>1
      <4> QED
        BY <4>2, <4>3
    <3>2. CASE dev'[d] = Off
      <4>1. Follows(<<>>)' /\ PendingOK(NoPending)'
        BY <1>1 DEF Follows, PendingOK, Epoch, TypeOK
      <4> QED
        BY <3>1, <3>2, <4>1 DEF DeviceOK, Off
    <3>3. CASE dev'[d].group = dev[d].group /\ dev'[d].pending = p
      <4>1. dev'[d].group = disk'[d].group /\ dev'[d].pending = disk'[d].pending
        BY <1>2, <2>5, <3>3
      <4> QED
        BY <3>1, <4>1 DEF DeviceOK
    <3>4. CASE Len(dev[d].group) = p.base /\ Saves(d, g, NoPending)
      <4>1. Len(dev[d].group) = Epoch
        BY <1>3, <1>5, <2>2, <2>5, <3>4 DEF Acceptable, DeviceOK, PendingOK
      <4>2. /\ Len(chain') = Epoch + 1 /\ \A i \in 1 .. Epoch : chain'[i] = chain[i]
            /\ chain'[Epoch + 1].commit = p.commit
        BY <1>1, <1>5, <2>2, CommitsType
      <4>3. Epoch \in Nat /\ Len(g) = Epoch + 1
            /\ \A j \in 1 .. Epoch + 1 : g[j] = IF j <= Epoch THEN dev[d].group[j] ELSE p.commit
        <5>1. Len(dev[d].group) = Epoch /\ dev[d].group \in Seq(Nat) /\ Epoch \in Nat
          BY <2>3, <4>1 DEF TypeOK, Epoch
        <5>2. p.commit \in Nat
          BY <2>3 DEF Memory, Pending
        <5> HIDE DEF p
        <5>3. PICK h \in Seq(Nat) : h = dev[d].group
          BY <5>1
        <5>4. PICK c \in Nat : c = dev[d].pending.commit
          BY <5>2 DEF p
        <5>5. g = Append(h, c) /\ Len(h) = Epoch /\ p.commit = c
          BY <5>1, <5>3, <5>4 DEF p
        <5> QED
          BY <5>1, <5>3, <5>4, <5>5
      <4>4. \A j \in 1 .. Epoch + 1 : g[j] = chain'[j].commit
        <5> SUFFICES ASSUME NEW j \in 1 .. Epoch + 1 PROVE g[j] = chain'[j].commit
          OBVIOUS
        <5>1. CASE j = Epoch + 1
          BY <4>2, <4>3, <5>1
        <5>2. CASE j # Epoch + 1
          <6>1. j \in 1 .. Epoch /\ j \in 1 .. Len(dev[d].group)
            BY <4>1, <4>3, <5>2
          <6> QED
            BY <2>5, <4>2, <4>3, <6>1 DEF DeviceOK, Follows
        <5> QED
          BY <5>1, <5>2
      <4>5. dev'[d].pc = "save" /\ dev'[d].group = g /\ dev'[d].pending = NoPending
        BY <3>4 DEF Saves
      <4>6. Follows(dev[d].group)' /\ Keeps(d, dev[d].group, dev[d].pending)'
        <5> HIDE DEF g
        <5>1. Len(dev'[d].group) = Epoch' /\ Epoch' = Epoch + 1
          BY <4>2, <4>3, <4>5 DEF Epoch
        <5> QED
          BY <4>3, <4>4, <4>5, <5>1 DEF Follows, Keeps
      <4>7. PendingOK(dev[d].pending)'
        BY <4>5 DEF PendingOK
      <4> QED
        BY <3>1, <4>5, <4>6, <4>7 DEF DeviceOK
    <3> QED
      BY <1>1, <3>2, <3>3, <3>4 DEF Rests
  <2>7. ASSUME NEW r \in late' PROVE LateOK(r)'
    <3>1. r \in late /\ LateOK(r)
      BY <1>2, <2>7 DEF RekeyInv
    <3>2. r.from \in Devices
      BY <3>1 DEF TypeOK, Request
    <3>3. PendingOK(r.pending)' /\ r.pending # NoPending
      BY <2>1, <3>1 DEF LateOK
    <3>4. CASE r.from # d
      <4>1. dev'[r.from] = dev[r.from] /\ disk'[r.from] = disk[r.from]
        BY <1>1, <1>2, <3>2, <3>4 DEF Moves
      <4>2. ops'[r.pending.op].status = "PREPARED" => ops[r.pending.op].status = "PREPARED"
        BY <2>1, <3>1 DEF LateOK, PendingOK, OpsGrow
      <4> QED
        BY <3>1, <3>3, <4>1, <4>2 DEF LateOK
    <3>5. CASE r.from = d
      <4>1. ops'[p.op].status = "COMMITTED"
        BY <1>1, <1>5, <2>2, CommitsType
      <4>2. ops'[r.pending.op].status # "PREPARED"
        BY <2>1, <2>5, <3>1, <3>5, <4>1, LateIsPrepared
      <4> QED
        BY <3>3, <4>2 DEF LateOK
    <3> QED
      BY <3>4, <3>5
  <2> QED
    BY <2>1, <2>4, <2>6, <2>7 DEF RekeyInv
<1> QED
  BY <1>4, <1>5 DEF CommitTaken

\* A request that comes late and is committed is what its device has prepared.
LEMMA LateArrivesInv ==
    ASSUME TypeOK, RekeyInv, TypeOK', NEW r \in late, LateArrives(r)
    PROVE  RekeyInv'
<1>1. late' \subseteq late /\ UNCHANGED <<dev, disk>> /\ r \in Request /\ LateOK(r)
  BY DEF LateArrives, TypeOK, RekeyInv
<1>2. \A e \in Devices : DeviceOK(e) /\ dev[e].group \in Seq(Nat) /\ disk[e].group \in Seq(Nat)
  BY DEF RekeyInv, TypeOK, Memory, Stored
<1>3. CASE UNCHANGED <<chain, ops, welcomes>>
  <2>1. LinkOK' /\ \A w \in welcomes' : Follows(w.group)'
    BY <1>3 DEF RekeyInv, LinkOK, Follows, Epoch
  <2>2. ASSUME NEW e \in Devices PROVE DeviceOK(e)'
    BY <1>1, <1>2, <1>3 DEF DeviceOK, Follows, PendingOK, Keeps, Epoch
  <2>3. ASSUME NEW q \in late' PROVE LateOK(q)'
    <3>1. LateOK(q)
      BY <1>1, <2>3 DEF RekeyInv
    <3> QED
      BY <1>1, <1>3, <3>1 DEF LateOK, PendingOK
  <2> QED
    BY <2>1, <2>2, <2>3 DEF RekeyInv
<1>4. CASE Acceptable(r) /\ Commits(r)
  <2>1. /\ LinkOK' /\ OpsGrow
        /\ \A h \in Seq(Nat) : Follows(h) => Follows(h)'
        /\ \A q : PendingOK(q) => PendingOK(q)'
        /\ \A e, h, q : Keeps(e, h, q) /\ (e = r.from => q = r.pending) => Keeps(e, h, q)'
        /\ \A w \in welcomes' : Follows(w.group)'
    BY <1>1, <1>4, CommitsKeeps
  <2>2. /\ disk[r.from].pending = r.pending
        /\ dev[r.from].pc # "off" => dev[r.from].pending = r.pending
    BY <1>1, <1>4 DEF LateOK, Acceptable
  <2>3. ASSUME NEW e \in Devices PROVE DeviceOK(e)'
    <3>1. dev'[e] = dev[e] /\ disk'[e] = disk[e]
      BY <1>1
    <3> QED
      BY <1>2, <2>1, <2>2, <3>1 DEF DeviceOK
  <2>4. ASSUME NEW q \in late' PROVE LateOK(q)'
    <3>1. LateOK(q)
      BY <1>1, <2>4 DEF RekeyInv
    <3>2. PendingOK(q.pending)'
      BY <2>1, <3>1 DEF LateOK
    <3>3. ops'[q.pending.op].status = "PREPARED" => ops[q.pending.op].status = "PREPARED"
      BY <2>1, <3>1 DEF LateOK, PendingOK, OpsGrow
    <3> QED
      BY <1>1, <3>1, <3>2, <3>3 DEF LateOK
  <2> QED
    BY <2>1, <2>3, <2>4 DEF RekeyInv
<1> QED
  BY <1>3, <1>4 DEF LateArrives

\* The directory and the deadlines change nothing a device relies on.
LEMMA StillInv ==
    ASSUME TypeOK, RekeyInv, TypeOK', OpsGrow, UNCHANGED <<chain, welcomes, late, dev, disk>>
    PROVE  RekeyInv'
<1>1. /\ LinkOK'
      /\ \A g : Follows(g) => Follows(g)'
      /\ \A p : PendingOK(p) => PendingOK(p)'
      /\ \A e, g, p : Keeps(e, g, p) => Keeps(e, g, p)'
  BY OpsGrowKeeps
<1>2. ASSUME NEW e \in Devices PROVE DeviceOK(e)'
  <2>1. DeviceOK(e) /\ dev'[e] = dev[e] /\ disk'[e] = disk[e]
    BY DEF RekeyInv
  <2> QED
    BY <1>1, <2>1 DEF DeviceOK
<1>3. ASSUME NEW q \in late' PROVE LateOK(q)'
  <2>1. LateOK(q)
    BY <1>3 DEF RekeyInv
  <2>2. PendingOK(q.pending)'
    BY <1>1, <2>1 DEF LateOK
  <2>3. ops'[q.pending.op].status = "PREPARED" => ops[q.pending.op].status = "PREPARED"
    BY <2>1 DEF LateOK, PendingOK, OpsGrow
  <2> QED
    BY <2>1, <2>2, <2>3 DEF LateOK
<1>4. \A w \in welcomes' : Follows(w.group)'
  BY <1>1 DEF RekeyInv
<1> QED
  BY <1>1, <1>2, <1>3, <1>4 DEF RekeyInv

LEMMA RekeyInit == Init => RekeyInv
<1> SUFFICES ASSUME Init PROVE RekeyInv
  OBVIOUS
<1>1. Len(chain) = 1 /\ chain[1].commit = 0
  BY DEF Init
<1>2. LinkOK /\ \A e, g, p : Keeps(e, g, p)
  BY <1>1 DEF LinkOK, Keeps, Epoch
<1>3. Follows(<<>>) /\ Follows(<<0>>)
  BY <1>1 DEF Follows, Epoch
<1>4. PendingOK(NoPending)
  BY DEF PendingOK
<1>5. ASSUME NEW d \in Devices PROVE DeviceOK(d)
  <2>1. dev[d] = Off /\ disk[d].pending = NoPending /\ (disk[d].group = <<>> \/ disk[d].group = <<0>>)
    BY DEF Init
  <2> QED
    BY <1>2, <1>3, <1>4, <2>1 DEF DeviceOK, Off
<1> QED
  BY <1>2, <1>5 DEF RekeyInv, Init

LEMMA RekeyStep == TypeOK /\ RekeyInv /\ [Next]_vars => RekeyInv'
<1> SUFFICES ASSUME TypeOK, RekeyInv, [Next]_vars PROVE RekeyInv'
  OBVIOUS
<1>1. TypeOK'
  BY TypeStep
<1>2. ASSUME NEW d \in Devices, Step(d) PROVE RekeyInv'
  BY <1>2, SaveInv, RestoreInv, RestingInv, JoinInv, SyncInv, PrepareInv, CommitTakenInv,
     CommitRefusedInv, AbortInv DEF Step
<1>3. ASSUME NEW d \in Devices, Enroll(d) \/ Revoke(d) PROVE RekeyInv'
  <2>1. UNCHANGED <<chain, ops, welcomes, late, dev, disk>>
    BY <1>3 DEF Enroll, Revoke
  <2>2. OpsGrow
    BY <2>1 DEF OpsGrow
  <2> QED
    BY <1>1, <2>1, <2>2, StillInv
<1>4. ASSUME NEW o \in DOMAIN ops, Expire(o) PROVE RekeyInv'
  <2>1. UNCHANGED <<chain, welcomes, late, dev, disk>>
    BY <1>4 DEF Expire
  <2>2. /\ DOMAIN ops' = DOMAIN ops /\ ops'[o].status = "EXPIRED"
        /\ \A q \in DOMAIN ops : ops'[q].base = ops[q].base
        /\ \A q \in DOMAIN ops : q # o => ops'[q] = ops[q]
    BY <1>4, StatusType DEF Expire
  <2>3. OpsGrow
    BY <1>4, <2>2 DEF OpsGrow, Expire
  <2> QED
    BY <1>1, <2>1, <2>3, StillInv
<1>5. ASSUME NEW r \in late, LateArrives(r) PROVE RekeyInv'
  BY <1>1, <1>5, LateArrivesInv
<1>6. CASE UNCHANGED vars
  <2>1. UNCHANGED <<chain, ops, welcomes, late, dev, disk>>
    BY <1>6 DEF vars
  <2>2. OpsGrow
    BY <2>1 DEF OpsGrow
  <2> QED
    BY <1>1, <2>1, <2>2, StillInv
<1> QED
  BY <1>2, <1>3, <1>4, <1>5, <1>6 DEF Next

-----------------------------------------------------------------------------
\* The inductive invariant: memory and disk agree but for a save under way, both
\* follow the server's epochs and keep the device's own Commits, and a request
\* under way that could be committed is what its device has prepared
\* (finishPreparedRekey, persist and restore).
THEOREM RekeyInvariant == Spec => []RekeyInv
<1>1. Init => TypeOK /\ RekeyInv
  BY TypeInit, RekeyInit
<1>2. TypeOK /\ RekeyInv /\ [Next]_vars => (TypeOK /\ RekeyInv)'
  BY TypeStep, RekeyStep
<1> QED
  BY <1>1, <1>2, PTL DEF Spec

\* No device ever applies a Commit that the server has not accepted as the next
\* one of its group, in memory or on disk: the check of the base epoch in
\* commitPreparedRekeyLocally and that of getThreadRekey after a 409 suffice,
\* whatever is lost or late.
THEOREM NeverForks == Spec => []NoFork
<1>1. RekeyInv => NoFork
  BY DEF RekeyInv, DeviceOK, NoFork
<1>2. Spec => []RekeyInv
  BY RekeyInvariant
<1> QED
  BY <1>1, <1>2, PTL

\* A device never loses what it needs to apply a Commit of its own making that
\* the server accepted, even after it gave the request up: the prepared rekey
\* is stored before the request is made and dropped only when its operation has
\* ended (finishPreparedRekey).
THEOREM OwnCommitsKept == Spec => []OwnCommitKept
<1>1. RekeyInv => OwnCommitKept
  <2> SUFFICES ASSUME RekeyInv, NEW i \in 2 .. Epoch
               PROVE  \/ Len(disk[chain[i].from].group) >= i
                      \/ /\ disk[chain[i].from].pending.op = chain[i].op
                         /\ disk[chain[i].from].pending.commit = chain[i].commit
    BY DEF OwnCommitKept
  <2>1. chain[i].from \in Devices
    BY DEF RekeyInv, LinkOK
  <2>2. Keeps(chain[i].from, disk[chain[i].from].group, disk[chain[i].from].pending)
    BY <2>1 DEF RekeyInv, DeviceOK
  <2> QED
    BY <2>2 DEF Keeps
<1>2. Spec => []RekeyInv
  BY RekeyInvariant
<1> QED
  BY <1>1, <1>2, PTL

-----------------------------------------------------------------------------
(* Nobody is stranded.                                                     *)

\* What is about to acknowledge a Welcome has the group of the conversation.
AckOK(s) == s.pc = "ack" \/ (s.pc = "save" /\ s.then = "ack") => s.group # <<>>

\* A client has the group that its device has stored, or a later state of it.
Carries(d) == dev[d].pc # "off" /\ disk[d].group # <<>> => dev[d].group # <<>>

StrandInv ==
    /\ \A d \in Devices : AckOK(dev[d]) /\ Carries(d)
    /\ NobodyStranded

LEMMA BecomeIs ==
    ASSUME TypeOK, NEW d \in Devices, NEW n, Become(d, n)
    PROVE  dev'[d] = n
BY DEF TypeOK, Become

LEMMA SavingAckOK ==
    ASSUME NEW s \in Memory, NEW then, then # "ack" \/ s.group # <<>>
    PROVE  AckOK(Saving(s, then))
BY DEF Memory, Saving, AckOK

\* Neither a call that throws, nor one that goes on without a Welcome, nor one
\* that applies or drops a prepared rekey is about to acknowledge a Welcome.
LEMMA OthersAckOK ==
    ASSUME NEW s \in Memory
    PROVE  /\ AckOK(Failed(s)) /\ AckOK(Applied(s)) /\ AckOK(Dropped(s))
           /\ \A d, ws : AckOK(AfterWelcomes(d, ws, s))
<1>1. AckOK(Failed(s))
  BY FailedType DEF AckOK, Off
<1>2. AckOK(Applied(s))
  <2>1. CASE Len(s.group) = s.pending.base
    <3>1. Applied(s).pc = "save" /\ Applied(s).then = "ready"
      BY <2>1 DEF Applied, Saving, Memory
    <3> QED
      BY <3>1 DEF AckOK
  <2>2. CASE Len(s.group) # s.pending.base
    BY <1>1, <2>2 DEF Applied
  <2> QED
    BY <2>1, <2>2
<1>3. AckOK(Dropped(s))
  <2>1. Dropped(s).pc = "save" /\ Dropped(s).then = "prepare"
    BY DEF Dropped, Saving, Memory
  <2> QED
    BY <2>1 DEF AckOK
<1>4. ASSUME NEW d, NEW ws PROVE AckOK(AfterWelcomes(d, ws, s))
  <2>1. AfterWelcomes(d, ws, s).pc \in {"join", "post", "ready"}
    BY AfterWelcomesType
  <2> QED
    BY <2>1 DEF AckOK
<1> QED
  BY <1>1, <1>2, <1>3, <1>4

\* A Welcome is acknowledged only after its group was stored.
LEMMA AckOKStep ==
    ASSUME TypeOK, NEW d \in Devices, Step(d), AckOK(dev[d])
    PROVE  AckOK(dev'[d])
<1>1. dev[d] \in Memory /\ chain \in Seq(Link) /\ chain # <<>> /\ disk[d] \in Stored
  BY DEF TypeOK
<1>2. dev[d].group \in Seq(Nat)
  BY <1>1 DEF Memory
<1>3. ASSUME NEW pc \in {"join", "ready", "prepare", "post", "abort"}, NEW r \in BOOLEAN,
             Become(d, [dev[d] EXCEPT !.pc = pc, !.restoring = r])
                \/ Become(d, [dev[d] EXCEPT !.pc = pc])
      PROVE  AckOK(dev'[d])
  <2>1. dev'[d] = [dev[d] EXCEPT !.pc = pc, !.restoring = r]
            \/ dev'[d] = [dev[d] EXCEPT !.pc = pc]
    BY <1>3, BecomeIs
  <2>2. [dev[d] EXCEPT !.pc = pc].pc = pc
    BY <1>1 DEF Memory
  <2>3. [dev[d] EXCEPT !.pc = pc, !.restoring = r].pc = pc
    BY <1>1 DEF Memory
  <2> QED
    BY <2>1, <2>2, <2>3 DEF AckOK
<1>4. CASE Save(d)
  <2> DEFINE n == [dev[d] EXCEPT !.pc = dev[d].then, !.then = "ready",
                                 !.restoring = @ /\ dev[d].then # "ready"]
  <2>1. dev[d].restoring \in BOOLEAN /\ dev[d].then \in {"ack", "ready", "prepare", "post"}
    BY <1>1 DEF Memory
  <2>2. n.pc = dev[d].then /\ n.then = "ready" /\ n.group = dev[d].group
    BY <1>1, <2>1 DEF Memory
  <2>3. Become(d, n) /\ dev[d].pc = "save"
    BY <1>4 DEF Save
  <2> HIDE DEF n
  <2>4. dev'[d] = n
    BY <2>3, BecomeIs
  <2> QED
    BY <2>2, <2>3, <2>4 DEF AckOK
<1>5. CASE Crash(d)
  BY <1>5, BecomeIs DEF Crash, AckOK, Off
<1>6. CASE Restore(d)
  <2> DEFINE m == [Off EXCEPT !.restoring = TRUE,
                              !.group = disk[d].group, !.pending = disk[d].pending]
  <2>1. m \in Memory
    BY <1>1 DEF Memory, Stored, Off
  <2>2. dev'[d] = AfterWelcomes(d, welcomes, m)
    BY <1>6, BecomeIs DEF Restore
  <2> HIDE DEF m
  <2> QED
    BY <2>1, <2>2, OthersAckOK
<1>7. CASE Open(d)
  BY <1>3, <1>7 DEF Open
<1>8. CASE Join(d)
  <2>1. PICK w \in welcomes :
          Become(d, IF Joinable(d, w)
                    THEN Saving([dev[d] EXCEPT !.group =
                            IF dev[d].group = <<>> THEN w.group ELSE dev[d].group], "ack")
                    ELSE Failed(dev[d]))
    BY <1>8 DEF Join
  <2>2. w.group \in Seq(Nat)
    BY DEF TypeOK, Welcome
  <2>3. CASE Joinable(d, w)
    <3> DEFINE g == IF dev[d].group = <<>> THEN w.group ELSE dev[d].group
    <3>1. g \in Seq(Nat) /\ g # <<>>
      BY <1>1, <1>2, <2>2, <2>3 DEF Joinable, Epoch
    <3>2. dev'[d] = Saving([dev[d] EXCEPT !.group = g], "ack")
      BY <2>1, <2>3, BecomeIs
    <3> HIDE DEF g
    <3>3. [dev[d] EXCEPT !.group = g] \in Memory /\ [dev[d] EXCEPT !.group = g].group # <<>>
      BY <1>1, <3>1 DEF Memory
    <3> QED
      BY <3>2, <3>3, SavingAckOK
  <2>4. CASE ~Joinable(d, w)
    BY <1>1, <2>1, <2>4, BecomeIs, OthersAckOK
  <2> QED
    BY <2>3, <2>4
<1>9. CASE Ack(d)
  <2>1. Become(d, AfterWelcomes(d, welcomes', dev[d])) \/ Become(d, Failed(dev[d]))
    BY <1>9 DEF Ack
  <2>2. dev'[d] = AfterWelcomes(d, welcomes', dev[d]) \/ dev'[d] = Failed(dev[d])
    BY <2>1, BecomeIs
  <2> QED
    BY <1>1, <2>2, OthersAckOK
<1>10. CASE Sync(d)
  <2>1. dev'[d].pc = "save" /\ dev'[d].then = "ready"
    BY <1>1, <1>10, BecomeIs DEF Sync, Saving, Memory
  <2> QED
    BY <2>1 DEF AckOK
<1>11. CASE Reconcile(d)
  BY <1>3, <1>11 DEF Reconcile
<1>12. CASE PrepareFails(d) \/ CommitLost(d)
  BY <1>1, <1>12, BecomeIs, OthersAckOK DEF PrepareFails, CommitLost
<1>13. CASE Prepare(d)
  <2>1. \/ Become(d, Failed(dev[d]))
        \/ Become(d, [dev[d] EXCEPT !.pc = "ready", !.restoring = FALSE])
        \/ \E o, op : PreparedFor(d, o, op)
    BY <1>13 DEF Prepare
  <2>2. ASSUME NEW o, NEW op, PreparedFor(d, o, op) PROVE AckOK(dev'[d])
    <3> DEFINE p == [op |-> o, commit |-> minted + 1, base |-> op.base]
    <3>1. Become(d, Saving([dev[d] EXCEPT !.pending = p], "post")) \/ Become(d, Failed(dev[d]))
      BY <2>2 DEF PreparedFor
    <3> HIDE DEF p
    <3>2. CASE Become(d, Saving([dev[d] EXCEPT !.pending = p], "post"))
      <4>1. dev'[d].pc = "save" /\ dev'[d].then = "post"
        BY <1>1, <3>2, BecomeIs DEF Saving, Memory
      <4> QED
        BY <4>1 DEF AckOK
    <3> QED
      BY <1>1, <3>1, <3>2, BecomeIs, OthersAckOK
  <2> QED
    BY <1>1, <1>3, <2>1, <2>2, BecomeIs, OthersAckOK
<1>14. CASE CommitTaken(d)
  BY <1>1, <1>14, BecomeIs, OthersAckOK DEF CommitTaken
<1>15. CASE CommitRefused(d)
  <2>1. \/ Become(d, Applied(dev[d])) \/ Become(d, Failed(dev[d])) \/ Become(d, Dropped(dev[d]))
        \/ Become(d, [dev[d] EXCEPT !.pc = "abort"])
    BY <1>15 DEF CommitRefused
  <2> QED
    BY <1>1, <1>3, <2>1, BecomeIs, OthersAckOK
<1>16. CASE Abort(d)
  <2>1. Become(d, Failed(dev[d])) \/ Become(d, Dropped(dev[d]))
    BY <1>16 DEF Abort
  <2> QED
    BY <1>1, <2>1, BecomeIs, OthersAckOK
<1> QED
  BY <1>4, <1>5, <1>6, <1>7, <1>8, <1>9, <1>10, <1>11, <1>12, <1>13, <1>14, <1>15, <1>16 DEF Step

\* No step of a device makes it forget the group it has, nor that of another.
LEMMA CarriesStep ==
    ASSUME TypeOK, NEW d \in Devices, Step(d), Carries(d)
    PROVE  /\ Moves(d) /\ Carries(d)'
           /\ disk[d].group # <<>> => disk'[d].group # <<>>
           /\ \A e \in Devices : e # d => disk'[e] = disk[e]
<1>1. dev[d] \in Memory /\ disk \in [Devices -> Stored]
  BY DEF TypeOK
<1>2. dev[d].group \in Seq(Nat)
  BY <1>1 DEF Memory
<1>3. CASE Save(d)
  <2>1. /\ Moves(d) /\ Rests(d) /\ disk'[d].group = dev[d].group
        /\ \A e \in Devices : e # d => disk'[e] = disk[e]
    BY <1>3, SaveStep
  <2> QED
    BY <1>3, <2>1 DEF Rests, Carries, Off, Save
<1>4. CASE Restore(d)
  <2>1. Moves(d) /\ dev'[d].group = disk[d].group /\ disk' = disk
    BY <1>4, RestoreStep DEF Restore
  <2> QED
    BY <2>1 DEF Carries
<1>5. ASSUME ~Save(d), ~Restore(d)
      PROVE  disk' = disk /\ dev[d].pc # "off"
  BY <1>5 DEF Step, Crash, Open, Join, Ack, Sync, Reconcile, Prepare, PrepareFails,
              CommitTaken, CommitRefused, CommitLost, Abort
<1>6. CASE Rests(d) /\ Moves(d) /\ ~Save(d) /\ ~Restore(d)
  BY <1>5, <1>6 DEF Rests, Carries, Off
<1>7. CASE /\ Moves(d) /\ ~Save(d) /\ ~Restore(d)
           /\ \E g \in Seq(Nat) : \E p : Saves(d, g, p) /\ (dev[d].group # <<>> => g # <<>>)
  BY <1>5, <1>7 DEF Saves, Carries
<1>8. CASE Crash(d) \/ Open(d) \/ Ack(d) \/ Reconcile(d) \/ PrepareFails(d) \/ CommitLost(d)
  <2>1. Moves(d) /\ Rests(d)
    BY <1>8, CrashStep, OpenStep, AckStep, ReconcileStep, PrepareFailsStep, CommitLostStep
  <2> QED
    BY <1>3, <1>4, <1>6, <2>1
<1>9. CASE Join(d)
  <2>1. /\ Moves(d)
        /\ \/ Rests(d)
           \/ Saves(d, dev[d].group, dev[d].pending)
           \/ /\ dev[d].group = <<>>
              /\ \E w \in welcomes : Saves(d, w.group, dev[d].pending)
    BY <1>9, JoinStep
  <2>2. \A w \in welcomes : w.group \in Seq(Nat)
    BY DEF TypeOK, Welcome
  <2> QED
    BY <1>2, <1>3, <1>4, <1>6, <1>7, <2>1, <2>2
<1>10. CASE Sync(d)
  <2> DEFINE g == Append(dev[d].group, NextLink(d).commit)
  <2>1. Moves(d) /\ Saves(d, g, dev[d].pending) /\ TypeOK'
    BY <1>10, SyncStep
  <2>2. g # <<>>
    BY <1>2
  <2>3. g \in Seq(Nat)
    BY <2>1 DEF Saves, TypeOK, Memory
  <2> HIDE DEF g
  <2> QED
    BY <1>3, <1>4, <1>7, <2>1, <2>2, <2>3
<1>11. CASE Prepare(d)
  <2>1. Moves(d) /\ (Rests(d) \/ \E p : Saves(d, dev[d].group, p))
    BY <1>11, PrepareStep
  <2> QED
    BY <1>2, <1>3, <1>4, <1>6, <1>7, <2>1
<1>12. CASE CommitTaken(d) \/ CommitRefused(d)
  <2> DEFINE g == Append(dev[d].group, dev[d].pending.commit)
  <2>1. Moves(d) /\ (Rests(d) \/ Saves(d, g, NoPending) \/ Saves(d, dev[d].group, NoPending))
    BY <1>12, CommitTakenStep, CommitRefusedStep
  <2>2. g \in Seq(Nat) /\ g # <<>>
    <3>1. dev[d].pending.commit \in Nat
      BY <1>1 DEF Memory, Pending
    <3> QED
      BY <1>2, <3>1
  <2> HIDE DEF g
  <2> QED
    BY <1>2, <1>3, <1>4, <1>6, <1>7, <2>1, <2>2
<1>13. CASE Abort(d)
  <2>1. Moves(d) /\ (Rests(d) \/ Saves(d, dev[d].group, NoPending))
    BY <1>13, FailedMoves, DroppedMoves DEF Abort
  <2> QED
    BY <1>2, <1>3, <1>4, <1>6, <1>7, <2>1
<1> QED
  BY <1>3, <1>4, <1>8, <1>9, <1>10, <1>11, <1>12, <1>13 DEF Step

\* Where no epoch is added, it is the acknowledgement alone that ends a Welcome:
\* then its device has stored the group.
LEMMA WelcomesKept ==
    ASSUME TypeOK, RekeyInv, StrandInv, NEW d \in Devices, Step(d), chain' = chain
    PROVE  \A w \in welcomes : w \in welcomes' \/ disk[w.to].group # <<>>
<1>1. CASE welcomes' = welcomes
  BY <1>1
<1>2. CASE Ack(d)
  <2>1. DeviceOK(d) /\ AckOK(dev[d]) /\ dev[d].pc = "ack"
    BY <1>2 DEF RekeyInv, StrandInv, Ack
  <2>2. disk[d].group # <<>>
    BY <2>1 DEF DeviceOK, AckOK
  <2>3. \A w \in welcomes : w.to # d => w \in welcomes'
    BY <1>2 DEF Ack
  <2> QED
    BY <2>2, <2>3
<1>3. CASE CommitTaken(d) /\ welcomes \subseteq welcomes'
  BY <1>3
<1> QED
  BY <1>1, <1>2, <1>3 DEF Step, Save, Crash, Restore, Open, Join, Sync, Reconcile, Prepare,
     PrepareFails, CommitTaken, CommitRefused, CommitLost, Abort, Commits, server

\* The devices that an epoch adds have Welcomes to it; the others were members.
LEMMA CommitsStrandNobody ==
    ASSUME TypeOK, NobodyStranded, NEW r \in Request, Acceptable(r), Commits(r),
           \A d \in Devices : disk[d].group # <<>> => disk'[d].group # <<>>
    PROVE  NobodyStranded'
<1> DEFINE roster == ops[r.pending.op].roster
           group == [i \in 1 .. Epoch + 1 |->
                        IF i <= Epoch THEN chain[i].commit ELSE r.pending.commit]
           link == [commit |-> r.pending.commit, op |-> r.pending.op,
                    from |-> r.from, roster |-> roster]
<1>1. chain' = Append(chain, link) /\ chain \in Seq(Link) /\ link \in Link
  <2>1. chain \in Seq(Link) /\ ops[r.pending.op] \in Operation
    BY DEF TypeOK, Acceptable
  <2>2. link \in Link
    BY <2>1 DEF Link, Operation, Request, Pending
  <2> QED
    BY <2>1, <2>2 DEF Commits
<1>2. Members' = roster /\ roster \subseteq Devices
  <2>1. link.roster = roster
    OBVIOUS
  <2>2. link.roster \subseteq Devices
    BY <1>1 DEF Link
  <2> HIDE DEF link
  <2>3. chain'[Epoch'] = link
    BY <1>1 DEF Epoch
  <2> QED
    BY <2>1, <2>2, <2>3 DEF Members
<1>3. /\ welcomes \subseteq welcomes'
      /\ \A d \in roster \ Members : [to |-> d, group |-> group] \in welcomes'
  BY DEF Commits
<1> HIDE DEF roster, group
<1>4. ASSUME NEW d \in roster
      PROVE  disk'[d].group # <<>> \/ \E w \in welcomes' : w.to = d
  <2>1. CASE d \in Members
    BY <1>2, <1>3, <1>4, <2>1 DEF NobodyStranded
  <2>2. CASE d \notin Members
    <3>1. [to |-> d, group |-> group] \in welcomes' /\ [to |-> d, group |-> group].to = d
      BY <1>3, <1>4, <2>2
    <3> QED
      BY <3>1
  <2> QED
    BY <2>1, <2>2
<1> QED
  BY <1>2, <1>4 DEF NobodyStranded

LEMMA StrandStep == TypeOK /\ RekeyInv /\ StrandInv /\ [Next]_vars => StrandInv'
<1> SUFFICES ASSUME TypeOK, RekeyInv, StrandInv, [Next]_vars PROVE StrandInv'
  OBVIOUS
<1>1. \A e \in Devices : AckOK(dev[e]) /\ Carries(e)
  BY DEF StrandInv
<1>2. CASE UNCHANGED <<dev, disk>> /\ UNCHANGED <<chain, welcomes>>
  <2>1. NobodyStranded'
    BY <1>2 DEF StrandInv, NobodyStranded, Members, Epoch
  <2> QED
    BY <1>1, <1>2, <2>1 DEF StrandInv, Carries
<1>3. ASSUME NEW d \in Devices, Step(d) PROVE StrandInv'
  <2>1. /\ Moves(d) /\ Carries(d)' /\ AckOK(dev'[d])
        /\ disk[d].group # <<>> => disk'[d].group # <<>>
        /\ \A e \in Devices : e # d => disk'[e] = disk[e]
    BY <1>1, <1>3, AckOKStep, CarriesStep
  <2>2. \A e \in Devices : e # d => dev'[e] = dev[e]
    BY <2>1 DEF Moves
  <2>3. \A e \in Devices : AckOK(dev'[e]) /\ Carries(e)'
    BY <1>1, <2>1, <2>2 DEF Carries
  <2>4. \A e \in Devices : disk[e].group # <<>> => disk'[e].group # <<>>
    BY <2>1
  <2>5. NobodyStranded'
    <3>1. CASE chain' = chain
      <4>1. Members' = Members /\ Members \subseteq Devices
        <5>1. chain[Epoch] \in Link
          BY DEF TypeOK, Epoch
        <5> QED
          BY <3>1, <5>1 DEF Members, Epoch, Link
      <4>2. \A w \in welcomes : w \in welcomes' \/ disk[w.to].group # <<>>
        BY <1>3, <3>1, WelcomesKept
      <4> QED
        BY <2>4, <4>1, <4>2 DEF StrandInv, NobodyStranded
    <3>2. CASE chain' # chain
      <4>1. CommitTaken(d) /\ Acceptable(RequestOf(d)) /\ Commits(RequestOf(d))
        BY <1>3, <3>2 DEF Step, Save, Crash, Restore, Open, Join, Ack, Sync, Reconcile, Prepare,
           PrepareFails, CommitTaken, CommitRefused, CommitLost, Abort, server
      <4>2. RequestOf(d) \in Request
        BY <4>1, CommitTakenStep
      <4> QED
        BY <2>4, <4>1, <4>2, CommitsStrandNobody DEF StrandInv
    <3> QED
      BY <3>1, <3>2
  <2> QED
    BY <2>3, <2>5 DEF StrandInv
<1>4. ASSUME NEW r \in late, LateArrives(r) PROVE StrandInv'
  <2>1. r \in Request /\ UNCHANGED <<dev, disk>>
    BY <1>4 DEF TypeOK, LateArrives
  <2>2. CASE Acceptable(r) /\ Commits(r)
    <3>1. NobodyStranded'
      BY <2>1, <2>2, CommitsStrandNobody DEF StrandInv
    <3> QED
      BY <1>1, <2>1, <3>1 DEF StrandInv, Carries
  <2>3. CASE UNCHANGED <<chain, welcomes>>
    BY <1>2, <2>1, <2>3
  <2> QED
    BY <1>4, <2>2, <2>3 DEF LateArrives
<1>5. ASSUME NEW d \in Devices, Enroll(d) \/ Revoke(d) PROVE StrandInv'
  BY <1>2, <1>5 DEF Enroll, Revoke
<1>6. ASSUME NEW o \in DOMAIN ops, Expire(o) PROVE StrandInv'
  BY <1>2, <1>6 DEF Expire
<1>7. CASE UNCHANGED vars
  BY <1>2, <1>7 DEF vars
<1> QED
  BY <1>3, <1>4, <1>5, <1>6, <1>7 DEF Next

LEMMA StrandInit == Init => StrandInv
<1> SUFFICES ASSUME Init PROVE StrandInv
  OBVIOUS
<1>1. \A d \in Devices : dev[d] = Off
  BY DEF Init
<1>2. \A d \in Devices : AckOK(dev[d]) /\ Carries(d)
  BY <1>1 DEF AckOK, Carries, Off
<1>3. Members = Founders
  BY DEF Init, Members, Epoch
<1>4. \A d \in Founders : disk[d].group = <<0>>
  BY FoundersAssumption DEF Init
<1>5. NobodyStranded
  BY <1>3, <1>4 DEF NobodyStranded
<1> QED
  BY <1>2, <1>5 DEF StrandInv

\* A member of the conversation has its group stored or a Welcome to it that is
\* not acknowledged: joinPendingWelcomes persists before acknowledgeWelcome, so
\* that no crash and no lost answer between the two leaves a device without both.
THEOREM StrandsNobody == Spec => []NobodyStranded
<1>1. Init => TypeOK /\ RekeyInv /\ StrandInv
  BY TypeInit, RekeyInit, StrandInit
<1>2. TypeOK /\ RekeyInv /\ StrandInv /\ [Next]_vars => (TypeOK /\ RekeyInv /\ StrandInv)'
  BY TypeStep, RekeyStep, StrandStep
<1>3. StrandInv => NobodyStranded
  BY DEF StrandInv
<1> QED
  BY <1>1, <1>2, <1>3, PTL DEF Spec

-----------------------------------------------------------------------------
(* What the server committed fits.                                         *)

\* An epoch came of a Commit by the device whose operation it took.
LinkFrom == \A i \in 2 .. Epoch : chain[i].from = ops[chain[i].op].from

\* A device has a rekey prepared for an operation of its own.
Owns(d, p) == p # NoPending => ops[p.op].from = d

\* The group g has come to the base of the prepared rekey p, and not to an epoch
\* that its operation led to.
Fits(g, p) ==
    p # NoPending =>
        /\ p.base > 0 /\ Len(g) >= p.base
        /\ \A i \in 2 .. Epoch : chain[i].op = p.op => Len(g) < i

DeviceFits(d) ==
    /\ Owns(d, dev[d].pending) /\ Owns(d, disk[d].pending)
    /\ Fits(dev[d].group, dev[d].pending) /\ Fits(disk[d].group, disk[d].pending)

FitInv ==
    /\ LinkFrom
    /\ \A d \in Devices : DeviceFits(d)
    /\ \A r \in late : Owns(r.from, r.pending)

\* An operation stays that of the device that asked for it.
OpsFrom == \A o \in DOMAIN ops : o \in DOMAIN ops' /\ ops'[o].from = ops[o].from

\* What a step of the server leaves true.
StillFits ==
    /\ LinkFrom'
    /\ \A e, p : PendingOK(p) /\ Owns(e, p) => Owns(e, p)'
    /\ \A g \in Seq(Nat) : \A p : Follows(g) /\ Fits(g, p) => Fits(g, p)'

LEMMA SameEpochFits ==
    ASSUME TypeOK, RekeyInv, FitInv, OpsFrom, chain' = chain
    PROVE  StillFits
<1>1. LinkFrom'
  BY DEF RekeyInv, LinkOK, FitInv, LinkFrom, OpsFrom, Epoch
<1>2. \A e, p : PendingOK(p) /\ Owns(e, p) => Owns(e, p)'
  BY DEF PendingOK, Owns, OpsFrom
<1>3. \A g \in Seq(Nat) : \A p : Follows(g) /\ Fits(g, p) => Fits(g, p)'
  BY DEF Fits, Epoch
<1> QED
  BY <1>1, <1>2, <1>3 DEF StillFits

LEMMA OpsStatusFrom ==
    ASSUME TypeOK, NEW o \in DOMAIN ops, NEW status,
           ops' = [ops EXCEPT ![o].status = status]
    PROVE  OpsFrom
<1>1. ops \in Seq(Operation) /\ ops[o] \in Operation
  BY DEF TypeOK
<1> DEFINE new == [ops[o] EXCEPT !.status = status]
<1>2. new.from = ops[o].from
  BY <1>1 DEF Operation
<1>3. ops' = [ops EXCEPT ![o] = new]
  OBVIOUS
<1> HIDE DEF new
<1> QED
  BY <1>1, <1>2, <1>3 DEF OpsFrom

\* The operation that is committed is that of the device that committed it, and
\* no group has come to the new epoch yet.
LEMMA CommitsFits ==
    ASSUME TypeOK, RekeyInv, FitInv, NEW r \in Request, Acceptable(r), Commits(r),
           r.pending # NoPending, Owns(r.from, r.pending)
    PROVE  StillFits
<1> DEFINE o == r.pending.op
<1>1. /\ chain' \in Seq(Link) /\ Len(chain') = Epoch + 1
      /\ \A i \in 1 .. Epoch : chain'[i] = chain[i]
      /\ chain'[Epoch + 1].op = o
      /\ chain'[Epoch + 1].from = r.from
  BY CommitsType
<1>2. Epoch \in Nat \ {0} /\ Epoch' = Epoch + 1
  BY <1>1 DEF TypeOK, Epoch
<1>3. OpsFrom
  BY OpsStatusFrom DEF Acceptable, Commits
<1>4. o \in DOMAIN ops /\ ops[o].from = r.from
  BY DEF Acceptable, Owns
<1>5. LinkFrom'
  <2> SUFFICES ASSUME NEW i \in 2 .. Epoch + 1
               PROVE  chain'[i].from = ops'[chain'[i].op].from
    BY <1>2 DEF LinkFrom
  <2>1. CASE i = Epoch + 1
    BY <1>1, <1>3, <1>4, <2>1 DEF OpsFrom
  <2>2. CASE i # Epoch + 1
    <3>1. i \in 2 .. Epoch /\ i \in 1 .. Epoch
      BY <1>2, <2>2
    <3>2. chain[i].op \in DOMAIN ops /\ chain[i].from = ops[chain[i].op].from
      BY <3>1 DEF RekeyInv, LinkOK, FitInv, LinkFrom
    <3>3. chain'[i] = chain[i]
      BY <1>1, <3>1
    <3> QED
      BY <1>3, <3>2, <3>3 DEF OpsFrom
  <2> QED
    BY <2>1, <2>2
<1>6. \A e, p : PendingOK(p) /\ Owns(e, p) => Owns(e, p)'
  BY <1>3 DEF PendingOK, Owns, OpsFrom
<1>7. ASSUME NEW g \in Seq(Nat), NEW p, Follows(g), Fits(g, p), p # NoPending
      PROVE  /\ p.base > 0 /\ Len(g) >= p.base
             /\ \A i \in 2 .. Epoch + 1 : chain'[i].op = p.op => Len(g) < i
  <2>1. Len(g) \in Nat /\ Len(g) <= Epoch
    BY <1>7 DEF Follows
  <2>2. ASSUME NEW i \in 2 .. Epoch + 1, chain'[i].op = p.op PROVE Len(g) < i
    <3>1. CASE i = Epoch + 1
      BY <1>2, <2>1, <3>1
    <3>2. CASE i # Epoch + 1
      <4>1. i \in 2 .. Epoch /\ i \in 1 .. Epoch
        BY <1>2, <3>2
      <4>2. chain'[i] = chain[i]
        BY <1>1, <4>1
      <4> QED
        BY <1>7, <2>2, <4>1, <4>2 DEF Fits
    <3> QED
      BY <3>1, <3>2
  <2> QED
    BY <1>7, <2>2 DEF Fits
<1>8. \A g \in Seq(Nat) : \A p : Follows(g) /\ Fits(g, p) => Fits(g, p)'
  BY <1>2, <1>7 DEF Fits
<1> QED
  BY <1>5, <1>6, <1>8 DEF StillFits

\* The devices that do not move, and the requests under way, after a step of d.
LEMMA OthersFit ==
    ASSUME TypeOK, RekeyInv, FitInv, StillFits, NEW d \in Devices, Moves(d),
           \A e \in Devices : e # d => disk'[e] = disk[e],
           DeviceFits(d)',
           \A r \in late' : r \in late \/ r = RequestOf(d)
    PROVE  FitInv'
<1>1. \A e \in Devices : /\ DeviceOK(e) /\ DeviceFits(e)
                         /\ dev[e].group \in Seq(Nat) /\ disk[e].group \in Seq(Nat)
  BY DEF RekeyInv, FitInv, TypeOK, Memory, Stored
<1>2. ASSUME NEW e \in Devices PROVE DeviceFits(e)'
  <2>1. CASE e # d
    <3>1. dev'[e] = dev[e] /\ disk'[e] = disk[e]
      BY <2>1 DEF Moves
    <3> QED
      BY <1>1, <3>1 DEF StillFits, DeviceOK, DeviceFits
  <2> QED
    BY <2>1
<1>3. ASSUME NEW r \in late' PROVE Owns(r.from, r.pending)'
  <2>1. CASE r \in late
    <3>1. LateOK(r) /\ Owns(r.from, r.pending)
      BY <2>1 DEF RekeyInv, FitInv
    <3> QED
      BY <3>1 DEF StillFits, LateOK
  <2>2. CASE r = RequestOf(d)
    <3>1. r.from = d /\ r.pending = dev[d].pending
      BY <2>2 DEF RequestOf
    <3>2. PendingOK(r.pending) /\ Owns(r.from, r.pending)
      BY <1>1, <3>1 DEF DeviceOK, DeviceFits
    <3> QED
      BY <3>2 DEF StillFits
  <2> QED
    BY <1>3, <2>1, <2>2
<1> QED
  BY <1>2, <1>3 DEF FitInv, StillFits

\* Nothing is to fit where nothing is prepared.
LEMMA NothingFits == \A d, g : Owns(d, NoPending) /\ Fits(g, NoPending)
BY DEF Owns, Fits

\* A device that goes on with what it has, or is gone.
LEMMA RestFits ==
    ASSUME TypeOK, RekeyInv, FitInv, StillFits, NEW d \in Devices, Rests(d), disk'[d] = disk[d]
    PROVE  DeviceFits(d)'
<1>1. /\ DeviceOK(d) /\ DeviceFits(d)
      /\ dev[d].group \in Seq(Nat) /\ disk[d].group \in Seq(Nat)
  BY DEF RekeyInv, FitInv, TypeOK, Memory, Stored
<1>2. Owns(d, disk[d].pending)' /\ Fits(disk[d].group, disk[d].pending)'
  BY <1>1 DEF StillFits, DeviceOK, DeviceFits
<1>3. CASE dev'[d] = Off
  BY <1>2, <1>3, NothingFits DEF DeviceFits, Off, Owns, Fits
<1>4. CASE dev'[d].group = dev[d].group /\ dev'[d].pending = dev[d].pending
  <2>1. Owns(d, dev[d].pending)' /\ Fits(dev[d].group, dev[d].pending)'
    BY <1>1, <1>4 DEF StillFits, DeviceOK, DeviceFits
  <2> QED
    BY <1>2, <2>1 DEF DeviceFits
<1> QED
  BY <1>3, <1>4 DEF Rests

\* A device that is about to store a group and a prepared rekey that fits it.
LEMMA SaveFits ==
    ASSUME TypeOK, RekeyInv, FitInv, StillFits, NEW d \in Devices, disk'[d] = disk[d],
           NEW g, NEW p, Saves(d, g, p), Owns(d, p)', Fits(g, p)'
    PROVE  DeviceFits(d)'
<1>1. DeviceOK(d) /\ DeviceFits(d) /\ disk[d].group \in Seq(Nat)
  BY DEF RekeyInv, FitInv, TypeOK, Stored
<1>2. Owns(d, disk[d].pending)' /\ Fits(disk[d].group, disk[d].pending)'
  BY <1>1 DEF StillFits, DeviceOK, DeviceFits
<1>3. Owns(d, dev[d].pending)' /\ Fits(dev[d].group, dev[d].pending)'
  BY DEF Saves, Owns, Fits
<1> QED
  BY <1>2, <1>3 DEF DeviceFits

LEMMA RestingFits ==
    ASSUME TypeOK, RekeyInv, FitInv, NEW d \in Devices,
           Crash(d) \/ Open(d) \/ Reconcile(d) \/ PrepareFails(d) \/ CommitLost(d) \/ Ack(d)
    PROVE  FitInv'
<1>1. Moves(d) /\ Rests(d)
  BY CrashStep, OpenStep, ReconcileStep, PrepareFailsStep, CommitLostStep, AckStep
<1>2. chain' = chain /\ ops' = ops /\ disk' = disk
  BY DEF Crash, Open, Reconcile, PrepareFails, CommitLost, Ack, server
<1>3. StillFits
  BY <1>2, SameEpochFits DEF OpsFrom
<1>4. \A r \in late' : r \in late \/ r = RequestOf(d)
  BY DEF Crash, Open, Reconcile, PrepareFails, CommitLost, Ack, server
<1> QED
  BY <1>1, <1>2, <1>3, <1>4, RestFits, OthersFit

LEMMA StoredFits ==
    ASSUME TypeOK, RekeyInv, FitInv, NEW d \in Devices, Save(d) \/ Restore(d)
    PROVE  FitInv'
<1>1. UNCHANGED <<chain, ops, late>>
  BY DEF Save, Restore, server
<1>2. StillFits
  BY <1>1, SameEpochFits DEF OpsFrom
<1>3. /\ DeviceOK(d) /\ DeviceFits(d)
      /\ dev[d].group \in Seq(Nat) /\ disk[d].group \in Seq(Nat)
  BY DEF RekeyInv, FitInv, TypeOK, Memory, Stored
<1>4. /\ \A g, p : \/ g = dev[d].group /\ p = dev[d].pending
                   \/ g = disk[d].group /\ p = disk[d].pending
                   \/ g = <<>> /\ p = NoPending
            => Owns(d, p)' /\ Fits(g, p)'
  <2>1. /\ Owns(d, dev[d].pending) /\ Fits(dev[d].group, dev[d].pending)
        /\ Owns(d, disk[d].pending) /\ Fits(disk[d].group, disk[d].pending)
        /\ PendingOK(dev[d].pending) /\ PendingOK(disk[d].pending)
        /\ Follows(dev[d].group) /\ Follows(disk[d].group)
    BY <1>3 DEF DeviceOK, DeviceFits
  <2> SUFFICES ASSUME NEW g, NEW p,
                      \/ g = dev[d].group /\ p = dev[d].pending
                      \/ g = disk[d].group /\ p = disk[d].pending
                      \/ g = <<>> /\ p = NoPending
               PROVE  Owns(d, p)' /\ Fits(g, p)'
    OBVIOUS
  <2>2. CASE p = NoPending
    BY <2>2 DEF Owns, Fits
  <2>3. CASE p # NoPending
    <3>1. g \in Seq(Nat) /\ Follows(g) /\ PendingOK(p) /\ Owns(d, p) /\ Fits(g, p)
      BY <1>3, <2>1, <2>3
    <3> QED
      BY <1>2, <3>1 DEF StillFits
  <2> QED
    BY <2>2, <2>3
<1>5. /\ Moves(d)
      /\ \/ dev'[d].group = dev[d].group /\ dev'[d].pending = dev[d].pending
         \/ dev'[d].group = disk[d].group /\ dev'[d].pending = disk[d].pending
         \/ dev'[d].group = <<>> /\ dev'[d].pending = NoPending
      /\ \/ disk'[d].group = dev[d].group /\ disk'[d].pending = dev[d].pending
         \/ disk'[d].group = disk[d].group /\ disk'[d].pending = disk[d].pending
      /\ \A e \in Devices : e # d => disk'[e] = disk[e]
  <2>1. CASE Save(d)
    BY <2>1, SaveStep DEF Rests, Off
  <2>2. CASE Restore(d)
    BY <2>2, RestoreStep DEF Restore
  <2> QED
    BY <2>1, <2>2
<1>6. DeviceFits(d)'
  <2>1. PICK g1, p1 : g1 = dev'[d].group /\ p1 = dev'[d].pending
    OBVIOUS
  <2>2. PICK g2, p2 : g2 = disk'[d].group /\ p2 = disk'[d].pending
    OBVIOUS
  <2>3. Owns(d, p1)' /\ Fits(g1, p1)'
    BY <1>4, <1>5, <2>1
  <2>4. Owns(d, p2)' /\ Fits(g2, p2)'
    BY <1>4, <1>5, <2>2
  <2> QED
    BY <2>1, <2>2, <2>3, <2>4 DEF DeviceFits
<1> QED
  BY <1>1, <1>2, <1>5, <1>6, OthersFit

LEMMA JoinFits ==
    ASSUME TypeOK, RekeyInv, FitInv, NEW d \in Devices, Join(d)
    PROVE  FitInv'
<1>1. /\ Moves(d)
      /\ \/ Rests(d)
         \/ Saves(d, dev[d].group, dev[d].pending)
         \/ /\ dev[d].group = <<>>
            /\ \E w \in welcomes : Saves(d, w.group, dev[d].pending)
  BY JoinStep
<1>2. UNCHANGED <<chain, ops, late, disk>>
  BY DEF Join, server
<1>3. StillFits
  BY <1>2, SameEpochFits DEF OpsFrom
<1>4. /\ Owns(d, dev[d].pending) /\ Fits(dev[d].group, dev[d].pending)
      /\ PendingOK(dev[d].pending) /\ Follows(dev[d].group) /\ dev[d].group \in Seq(Nat)
  BY DEF RekeyInv, FitInv, DeviceOK, DeviceFits, TypeOK, Memory
<1>5. DeviceFits(d)'
  <2>1. CASE Rests(d)
    BY <1>2, <1>3, <2>1, RestFits
  <2>2. CASE Saves(d, dev[d].group, dev[d].pending)
    <3>1. PICK g, p : g = dev[d].group /\ p = dev[d].pending
      OBVIOUS
    <3>2. Owns(d, p)' /\ Fits(g, p)'
      BY <1>3, <1>4, <3>1 DEF StillFits
    <3> QED
      BY <1>2, <1>3, <2>2, <3>1, <3>2, SaveFits
  <2>3. ASSUME dev[d].group = <<>>, NEW w \in welcomes, Saves(d, w.group, dev[d].pending)
        PROVE  DeviceFits(d)'
    <3>1. dev[d].pending = NoPending
      <4>1. dev[d].pending \in Pending
        BY DEF TypeOK, Memory
      <4> QED
        BY <1>4, <2>3, <4>1 DEF Fits, Pending
    <3>2. \A g : Owns(d, NoPending)' /\ Fits(g, NoPending)'
      BY DEF Owns, Fits
    <3> QED
      BY <1>2, <1>3, <2>3, <3>1, <3>2, SaveFits
  <2> QED
    BY <1>1, <2>1, <2>2, <2>3
<1> QED
  BY <1>1, <1>2, <1>3, <1>5, OthersFit

\* A device does not synchronize past the epoch that its own Commit led to: the
\* library refuses a Commit of its own making.
LEMMA SyncFits ==
    ASSUME ~OwnApplies, TypeOK, RekeyInv, FitInv, NEW d \in Devices, Sync(d)
    PROVE  FitInv'
<1> DEFINE g == Append(dev[d].group, NextLink(d).commit)
           p == dev[d].pending
<1>1. Moves(d) /\ Saves(d, g, p) /\ TypeOK'
  BY SyncStep
<1>2. UNCHANGED <<chain, ops, late, disk>> /\ MayApply(d)
  BY DEF Sync, server
<1>3. StillFits
  BY <1>2, SameEpochFits DEF OpsFrom
<1>4. /\ Owns(d, p) /\ Fits(dev[d].group, p) /\ PendingOK(p) /\ dev[d].group \in Seq(Nat)
      /\ LinkFrom /\ LinkOK /\ p \in Pending
  BY DEF RekeyInv, FitInv, DeviceOK, DeviceFits, TypeOK, Memory
<1>5. Len(g) = Len(dev[d].group) + 1 /\ Len(dev[d].group) \in Nat \ {0} /\ Epoch \in Nat
      /\ Len(dev[d].group) < Epoch
  BY <1>2, <1>4 DEF MayApply, Epoch, TypeOK
<1>6. ASSUME p # NoPending, NEW i \in 2 .. Epoch, chain[i].op = p.op
      PROVE  Len(g) < i
  <2>1. Len(dev[d].group) < i
    BY <1>4, <1>6 DEF Fits
  <2>2. chain[i].from = d
    BY <1>4, <1>6 DEF LinkFrom, Owns
  <2>3. i # Len(dev[d].group) + 1
    BY <1>2, <2>2 DEF MayApply, NextLink
  <2> HIDE DEF g
  <2> QED
    BY <1>5, <2>1, <2>3
<1>7. Fits(g, p)
  <2> HIDE DEF g
  <2>1. p # NoPending => p.base > 0 /\ Len(g) >= p.base
    BY <1>4, <1>5 DEF Fits, Pending
  <2> QED
    BY <1>6, <2>1 DEF Fits
<1>8. DeviceFits(d)'
  <2>1. PICK h, q : h = g /\ q = p
    OBVIOUS
  <2>2. Owns(d, q)' /\ Fits(h, q)'
    <3>1. Owns(d, q) /\ Fits(h, q)
      BY <1>4, <1>7, <2>1
    <3> QED
      BY <1>2, <3>1 DEF Owns, Fits, Epoch
  <2>3. Saves(d, h, q)
    BY <1>1, <2>1
  <2> QED
    BY <1>2, <1>3, <2>2, <2>3, SaveFits
<1> QED
  BY <1>1, <1>2, <1>3, <1>8, OthersFit

\* What prepares a rekey made it for an operation of its own, which is prepared
\* at the epoch of the group.
LEMMA PreparedForOwn ==
    ASSUME TypeOK, NEW d \in Devices, NEW o \in Nat, NEW op \in Operation, PreparedFor(d, o, op),
           dev[d].group # <<>>
    PROVE  /\ Moves(d)
           /\ \/ Rests(d)
              \/ \E p : /\ p.op = o /\ op.from = d /\ p.base = Len(dev[d].group) /\ p.base > 0
                        /\ Saves(d, dev[d].group, p)
<1>1. dev[d] \in Memory /\ minted \in Nat
  BY DEF TypeOK
<1>2. dev[d].group \in Seq(Nat)
  BY <1>1 DEF Memory
<1>3. CASE op.from = d /\ op.base = Len(dev[d].group) /\ op.roster = Active
  <2> DEFINE p == [op |-> o, commit |-> minted + 1, base |-> op.base]
  <2>1. p \in Pending /\ p.op = o /\ p.base = op.base
    BY <1>1 DEF Pending, Operation
  <2>2. p # NoPending
    BY <1>1 DEF NoPending
  <2>3. [dev[d] EXCEPT !.pending = p] = [dev[d] EXCEPT !.group = dev[d].group, !.pending = p]
    BY <1>1 DEF Memory
  <2>4. Become(d, Saving([dev[d] EXCEPT !.pending = p], "post"))
    BY <1>3 DEF PreparedFor
  <2>5. Become(d, Saving([dev[d] EXCEPT !.group = dev[d].group, !.pending = p], "post"))
    BY <2>3, <2>4
  <2>6. Len(dev[d].group) > 0
    BY <1>2
  <2> HIDE DEF p
  <2>7. Moves(d) /\ Saves(d, dev[d].group, p)
    BY <1>2, <2>1, <2>2, <2>5, SavingMoves
  <2> QED
    BY <1>3, <2>1, <2>6, <2>7
<1>4. CASE ~(op.from = d /\ op.base = Len(dev[d].group) /\ op.roster = Active)
  <2>1. Become(d, Failed(dev[d]))
    BY <1>4 DEF PreparedFor
  <2> QED
    BY <2>1, FailedMoves
<1> QED
  BY <1>3, <1>4

LEMMA PrepareFits ==
    ASSUME TypeOK, RekeyInv, FitInv, NEW d \in Devices, Prepare(d)
    PROVE  FitInv'
<1> DEFINE new == [from |-> d, base |-> Epoch, roster |-> Active, status |-> "PREPARED"]
           Prepared(p) == /\ p.op \in DOMAIN ops' /\ ops'[p.op].from = d
                          /\ p.op \in DOMAIN ops => ops[p.op].status = "PREPARED"
                          /\ p.base = Len(dev[d].group) /\ p.base > 0
                          /\ Saves(d, dev[d].group, p)
<1>1. ops \in Seq(Operation) /\ chain \in Seq(Link) /\ chain # <<>> /\ dev[d].group \in Seq(Nat)
  BY DEF TypeOK, Memory
<1>2. dev[d].group # <<>> /\ Epoch \in Nat
  BY <1>1 DEF Prepare, Epoch
<1>3. UNCHANGED <<chain, late, disk>>
  BY DEF Prepare
<1>4. new \in Operation /\ new.from = d
  BY <1>2 DEF Operation, Active
<1>5. Rests(d) \/ \E p : Prepared(p)
  <2>1. \/ ops' = Append(ops, new) /\ PreparedFor(d, Len(ops) + 1, new)
        \/ Become(d, Failed(dev[d]))
        \/ ops' = ops /\ \E o \in DOMAIN ops : ops[o].status = "PREPARED" /\ PreparedFor(d, o, ops[o])
        \/ Become(d, [dev[d] EXCEPT !.pc = "ready", !.restoring = FALSE])
    BY DEF Prepare
  <2> HIDE DEF new
  <2>2. CASE ops' = Append(ops, new) /\ PreparedFor(d, Len(ops) + 1, new)
    <3>1. /\ Len(ops) + 1 \in Nat /\ Len(ops) + 1 \in DOMAIN ops' /\ Len(ops) + 1 \notin DOMAIN ops
          /\ ops'[Len(ops) + 1] = new
      BY <1>1, <1>4, <2>2
    <3> QED
      BY <1>2, <1>4, <2>2, <3>1, PreparedForOwn
  <2>3. ASSUME ops' = ops, NEW o \in DOMAIN ops, ops[o].status = "PREPARED",
               PreparedFor(d, o, ops[o])
        PROVE  Rests(d) \/ \E p : Prepared(p)
    <3>1. o \in Nat /\ ops[o] \in Operation
      BY <1>1
    <3> QED
      BY <1>2, <2>3, <3>1, PreparedForOwn
  <2>4. CASE Become(d, Failed(dev[d]))
    BY <2>4, FailedMoves
  <2>5. CASE Become(d, [dev[d] EXCEPT !.pc = "ready", !.restoring = FALSE])
    BY <2>5, GotoMoves
  <2> QED
    BY <2>1, <2>2, <2>3, <2>4, <2>5
<1>6. Moves(d) /\ DOMAIN ops \subseteq DOMAIN ops' /\ \A o \in DOMAIN ops : ops'[o] = ops[o]
  BY PrepareStep
<1>7. StillFits
  BY <1>3, <1>6, SameEpochFits DEF OpsFrom
<1>8. ASSUME NEW p, Prepared(p) PROVE DeviceFits(d)'
  <2>1. Owns(d, p)'
    BY <1>8 DEF Owns
  <2>2. \A i \in 2 .. Epoch : chain[i].op # p.op
    BY <1>8 DEF RekeyInv, LinkOK
  <2>3. PICK g : g = dev[d].group
    OBVIOUS
  <2>4. Fits(g, p)'
    BY <1>1, <1>3, <1>8, <2>2, <2>3 DEF Fits, Epoch
  <2> QED
    BY <1>3, <1>7, <1>8, <2>1, <2>3, <2>4, SaveFits
<1> HIDE DEF Prepared
<1>9. DeviceFits(d)'
  BY <1>3, <1>5, <1>7, <1>8, RestFits
<1> QED
  BY <1>3, <1>6, <1>7, <1>9, OthersFit

\* A prepared rekey that is applied or dropped is prepared no longer.
LEMMA EndedFits ==
    ASSUME TypeOK, RekeyInv, FitInv, StillFits, NEW d \in Devices,
           CommitTaken(d) \/ CommitRefused(d) \/ Abort(d)
    PROVE  FitInv'
<1>1. UNCHANGED <<late, disk>>
  BY DEF CommitTaken, CommitRefused, Abort, server
<1>2. Moves(d) /\ (Rests(d) \/ \E g : Saves(d, g, NoPending))
  BY CommitTakenStep, CommitRefusedStep, FailedMoves, DroppedMoves DEF Abort
<1>3. DeviceFits(d)'
  <2>1. CASE Rests(d)
    BY <1>1, <2>1, RestFits
  <2>2. ASSUME NEW g, Saves(d, g, NoPending) PROVE DeviceFits(d)'
    <3>1. Owns(d, NoPending)' /\ Fits(g, NoPending)'
      BY DEF Owns, Fits
    <3> QED
      BY <1>1, <2>2, <3>1, SaveFits
  <2> QED
    BY <1>2, <2>1, <2>2
<1> QED
  BY <1>1, <1>2, <1>3, OthersFit

\* A commit, a refusal or an abort: the server's part leaves true what fits.
LEMMA EndingFits ==
    ASSUME TypeOK, RekeyInv, FitInv, NEW d \in Devices,
           CommitTaken(d) \/ CommitRefused(d) \/ Abort(d)
    PROVE  FitInv'
<1>1. CASE chain' = chain /\ ops' = ops
  BY <1>1, SameEpochFits, EndedFits DEF OpsFrom
<1>2. CASE CommitTaken(d) /\ Acceptable(RequestOf(d)) /\ Commits(RequestOf(d))
  <2>1. RequestOf(d) \in Request /\ RequestOf(d).from = d /\ RequestOf(d).pending = dev[d].pending
    BY <1>2, CommitTakenStep DEF RequestOf
  <2>2. dev[d].pending # NoPending /\ Owns(d, dev[d].pending)
    BY <1>2 DEF CommitTaken, TypeOK, CallOK, FitInv, DeviceFits
  <2> QED
    BY <1>2, <2>1, <2>2, CommitsFits, EndedFits
<1>3. CASE Abort(d) /\ ops' # ops
  <2>1. dev[d].pending.op \in DOMAIN ops
    BY <1>3 DEF Abort, TypeOK, CallOK, RekeyInv, DeviceOK, PendingOK
  <2>2. PICK status : ops' = [ops EXCEPT ![dev[d].pending.op].status = status]
    BY <1>3, <2>1 DEF Abort
  <2>3. OpsFrom /\ chain' = chain
    BY <1>3, <2>1, <2>2, OpsStatusFrom DEF Abort
  <2> QED
    BY <2>3, SameEpochFits, EndedFits
<1> QED
  BY <1>1, <1>2, <1>3 DEF CommitTaken, CommitRefused, Abort, server

LEMMA FitStep == ~OwnApplies /\ TypeOK /\ RekeyInv /\ FitInv /\ [Next]_vars => FitInv'
<1> SUFFICES ASSUME ~OwnApplies, TypeOK, RekeyInv, FitInv, [Next]_vars PROVE FitInv'
  OBVIOUS
<1>1. ASSUME StillFits, UNCHANGED <<dev, disk>>, late' \subseteq late PROVE FitInv'
  <2>1. ASSUME NEW d \in Devices PROVE DeviceFits(d)'
    <3>1. /\ DeviceOK(d) /\ DeviceFits(d)
          /\ dev[d].group \in Seq(Nat) /\ disk[d].group \in Seq(Nat)
      BY DEF RekeyInv, FitInv, TypeOK, Memory, Stored
    <3> QED
      BY <1>1, <3>1 DEF StillFits, DeviceOK, DeviceFits
  <2>2. ASSUME NEW r \in late' PROVE Owns(r.from, r.pending)'
    <3>1. LateOK(r) /\ Owns(r.from, r.pending)
      BY <1>1, <2>2 DEF RekeyInv, FitInv
    <3> QED
      BY <1>1, <3>1 DEF StillFits, LateOK
  <2> QED
    BY <1>1, <2>1, <2>2 DEF FitInv, StillFits
<1>2. CASE UNCHANGED <<chain, dev, disk, late>> /\ OpsFrom
  BY <1>1, <1>2, SameEpochFits
<1>3. ASSUME NEW d \in Devices, Step(d) PROVE FitInv'
  BY <1>3, EndingFits, RestingFits, StoredFits, JoinFits, SyncFits, PrepareFits DEF Step
<1>4. ASSUME NEW r \in late, LateArrives(r) PROVE FitInv'
  <2>1. r \in Request /\ UNCHANGED <<dev, disk>> /\ late' \subseteq late
    BY <1>4 DEF TypeOK, LateArrives
  <2>2. CASE Acceptable(r) /\ Commits(r)
    <3>1. r.pending # NoPending /\ Owns(r.from, r.pending)
      BY DEF RekeyInv, LateOK, FitInv
    <3> QED
      BY <1>1, <2>1, <2>2, <3>1, CommitsFits
  <2>3. CASE UNCHANGED <<chain, ops>>
    BY <1>1, <2>1, <2>3, SameEpochFits DEF OpsFrom
  <2> QED
    BY <1>4, <2>2, <2>3 DEF LateArrives
<1>5. ASSUME NEW d \in Devices, Enroll(d) \/ Revoke(d) PROVE FitInv'
  BY <1>2, <1>5 DEF Enroll, Revoke, OpsFrom
<1>6. ASSUME NEW o \in DOMAIN ops, Expire(o) PROVE FitInv'
  BY <1>2, <1>6, OpsStatusFrom DEF Expire
<1>7. CASE UNCHANGED vars
  BY <1>2, <1>7 DEF vars, OpsFrom
<1> QED
  BY <1>3, <1>4, <1>5, <1>6, <1>7 DEF Next

LEMMA FitInit == Init => FitInv
<1> SUFFICES ASSUME Init PROVE FitInv
  OBVIOUS
<1>1. LinkFrom
  BY DEF Init, LinkFrom, Epoch
<1>2. \A d \in Devices : dev[d] = Off /\ disk[d].pending = NoPending
  BY DEF Init
<1>3. \A d \in Devices : DeviceFits(d)
  BY <1>2, NothingFits DEF DeviceFits, Off
<1> QED
  BY <1>1, <1>3 DEF Init, FitInv

\* With a library that refuses the Commits of its own making, a prepared rekey
\* that the server committed is still at the base of its device's stored group:
\* commitPreparedRekeyLocally will apply it, whatever was lost, and does not fail
\* with rekey_base_epoch_changed at every restore.
THEOREM CommittedIsApplicable == ~OwnApplies => (Spec => []CommittedFits)
<1> SUFFICES ASSUME ~OwnApplies PROVE Spec => []CommittedFits
  OBVIOUS
<1>1. Init => TypeOK /\ RekeyInv /\ FitInv
  BY TypeInit, RekeyInit, FitInit
<1>2. TypeOK /\ RekeyInv /\ FitInv /\ [Next]_vars => (TypeOK /\ RekeyInv /\ FitInv)'
  BY TypeStep, RekeyStep, FitStep
<1>3. TypeOK /\ RekeyInv /\ FitInv => CommittedFits
  <2> SUFFICES ASSUME TypeOK, RekeyInv, FitInv, NEW d \in Devices, NEW i \in 2 .. Epoch,
                      chain[i].op = disk[d].pending.op
               PROVE  Len(disk[d].group) = disk[d].pending.base
    BY DEF CommittedFits, Known
  <2> DEFINE p == disk[d].pending
  <2>1. ops \in Seq(Operation) /\ disk[d].group \in Seq(Nat) /\ p \in Pending
    BY DEF TypeOK, Stored
  <2>2. p.op \in DOMAIN ops /\ ops[p.op].base = i - 1
    BY DEF RekeyInv, LinkOK
  <2>3. p # NoPending
    BY <2>1, <2>2 DEF NoPending
  <2>4. p.base = i - 1
    BY <2>2, <2>3 DEF RekeyInv, DeviceOK, PendingOK
  <2>5. Len(disk[d].group) >= p.base /\ Len(disk[d].group) < i
    BY <2>3 DEF FitInv, DeviceFits, Fits
  <2> QED
    BY <2>1, <2>4, <2>5 DEF Pending
<1> QED
  BY <1>1, <1>2, <1>3, PTL DEF Spec

-----------------------------------------------------------------------------
(* The other components of the run: what is proved of them holds of the    *)
(* instances of MCMembership.                                              *)

ActivationP == INSTANCE ThreadActivationProofs WITH
    Devices <- {d1, d2}, MaxGroups <- 3, MaxExpiries <- 1
TransferP == INSTANCE DeviceTransferProofs WITH
    History <- <<r1, r2>>, Coming <- {r3}, MaxSessions <- 1, MaxLives <- 3
TransfersP == INSTANCE DeviceTransferProofs WITH
    History <- <<r1, r2>>, Coming <- {}, MaxSessions <- 2, MaxLives <- 3

LEMMA ActivationIsProved ==
    /\ Activation!Init <=> ActivationP!Init
    /\ Activation!Next <=> ActivationP!Next
    /\ Activation!JoinedKeep <=> ActivationP!JoinedKeep
    /\ Activation!GroupsTaken <=> ActivationP!GroupsTaken
<1>1. Activation!Init <=> ActivationP!Init
  BY
      DEF Activation!Off, Activation!Init, ActivationP!Off, ActivationP!Init
<1>2. Activation!Next <=> ActivationP!Next
  BY
      DEF Activation!Off, Activation!Ready, Activation!RecoveryAllowed,
          Activation!Accepts, Activation!Taken, Activation!Expire,
          Activation!ClaimsExpire, Activation!LateArrives, Activation!Goes,
          Activation!Saving, Activation!Ended, Activation!Failed, Activation!Save,
          Activation!Crash, Activation!Restore, Activation!Candidate,
          Activation!ActivateThread, Activation!RecoverExpiredActivation,
          Activation!Activated, Activation!Finish, Activation!FinishFails,
          Activation!Discarded, Activation!ResolveActivationConflict,
          Activation!OpenThread, Activation!ListWelcome, Activation!NoWelcome,
          Activation!JoinWelcome, Activation!Acknowledge, Activation!RequestFails,
          Activation!Step, Activation!Next, ActivationP!Off, ActivationP!Ready,
          ActivationP!RecoveryAllowed, ActivationP!Accepts, ActivationP!Taken,
          ActivationP!Expire, ActivationP!ClaimsExpire, ActivationP!LateArrives,
          ActivationP!Goes, ActivationP!Saving, ActivationP!Ended, ActivationP!Failed,
          ActivationP!Save, ActivationP!Crash, ActivationP!Restore,
          ActivationP!Candidate, ActivationP!ActivateThread,
          ActivationP!RecoverExpiredActivation, ActivationP!Activated,
          ActivationP!Finish, ActivationP!FinishFails, ActivationP!Discarded,
          ActivationP!ResolveActivationConflict, ActivationP!OpenThread,
          ActivationP!ListWelcome, ActivationP!NoWelcome, ActivationP!JoinWelcome,
          ActivationP!Acknowledge, ActivationP!RequestFails, ActivationP!Step,
          ActivationP!Next
<1>3. Activation!JoinedKeep <=> ActivationP!JoinedKeep
  BY
      DEF Activation!JoinedKeep, ActivationP!JoinedKeep
<1>4. Activation!GroupsTaken <=> ActivationP!GroupsTaken
  BY
      DEF Activation!GroupsTaken, ActivationP!GroupsTaken
<1> QED BY <1>1, <1>2, <1>3, <1>4

LEMMA TransferIsProved ==
    /\ Transfer!Init <=> TransferP!Init
    /\ Transfer!Next <=> TransferP!Next
    /\ Transfer!HistoryArrives <=> TransferP!HistoryArrives
    /\ Transfer!ResumesAsSent <=> TransferP!ResumesAsSent
<1>1. Transfer!Init <=> TransferP!Init
  BY
      DEF Transfer!NoSession, Transfer!NoEntry, Transfer!Empty, Transfer!Init,
          TransferP!NoSession, TransferP!NoEntry, TransferP!Empty, TransferP!Init
<1>2. Transfer!Next <=> TransferP!Next
  BY
      DEF Transfer!NoEntry, Transfer!Empty, Transfer!StartOutgoing, Transfer!Encrypted,
          Transfer!Chunk, Transfer!Saving, Transfer!Approving, Transfer!Plan,
          Transfer!ApproveOutgoing, Transfer!SourceSaved, Transfer!ServerConnects,
          Transfer!Accepts, Transfer!ServerTakesChunk, Transfer!ServerApproves,
          Transfer!CancelOutgoing, Transfer!Cancellable,
          Transfer!ServerCancelsOutgoing, Transfer!SourceAnswered,
          Transfer!ContinueOutgoing, Transfer!SourceFails, Transfer!SourceCrashes,
          Transfer!NewRecord, Transfer!Keeping, Transfer!TargetFree,
          Transfer!StartIncoming, Transfer!Made, Transfer!ServerCreates,
          Transfer!Created, Transfer!PollIncoming, Transfer!ServerTells, Transfer!Told,
          Transfer!Prev, Transfer!ChainFits, Transfer!Imported, Transfer!Transferred,
          Transfer!ChunksArrive, Transfer!ChunksFail, Transfer!SetupDevice,
          Transfer!ServerRegisters, Transfer!Activated, Transfer!Replenished,
          Transfer!ServerFinalizes, Transfer!Finalized, Transfer!TargetSaved,
          Transfer!TargetFails, Transfer!TargetCrashes, Transfer!CancelIncoming,
          Transfer!ServerCancelsIncoming, Transfer!CancelFails, Transfer!Destroyed,
          Transfer!Cleared, Transfer!Expire, Transfer!SourceNext, Transfer!TargetNext,
          Transfer!Next, Transfer!Range, TransferP!NoEntry, TransferP!Empty,
          TransferP!StartOutgoing, TransferP!Encrypted, TransferP!Chunk,
          TransferP!Saving, TransferP!Approving, TransferP!Plan,
          TransferP!ApproveOutgoing, TransferP!SourceSaved, TransferP!ServerConnects,
          TransferP!Accepts, TransferP!ServerTakesChunk, TransferP!ServerApproves,
          TransferP!CancelOutgoing, TransferP!Cancellable,
          TransferP!ServerCancelsOutgoing, TransferP!SourceAnswered,
          TransferP!ContinueOutgoing, TransferP!SourceFails, TransferP!SourceCrashes,
          TransferP!NewRecord, TransferP!Keeping, TransferP!TargetFree,
          TransferP!StartIncoming, TransferP!Made, TransferP!ServerCreates,
          TransferP!Created, TransferP!PollIncoming, TransferP!ServerTells,
          TransferP!Told, TransferP!Prev, TransferP!ChainFits, TransferP!Imported,
          TransferP!Transferred, TransferP!ChunksArrive, TransferP!ChunksFail,
          TransferP!SetupDevice, TransferP!ServerRegisters, TransferP!Activated,
          TransferP!Replenished, TransferP!ServerFinalizes, TransferP!Finalized,
          TransferP!TargetSaved, TransferP!TargetFails, TransferP!TargetCrashes,
          TransferP!CancelIncoming, TransferP!ServerCancelsIncoming,
          TransferP!CancelFails, TransferP!Destroyed, TransferP!Cleared,
          TransferP!Expire, TransferP!SourceNext, TransferP!TargetNext, TransferP!Next,
          TransferP!Range
<1>3. Transfer!HistoryArrives <=> TransferP!HistoryArrives
  BY
      DEF Transfer!HistoryArrives, Transfer!Range, TransferP!HistoryArrives,
          TransferP!Range
<1>4. Transfer!ResumesAsSent <=> TransferP!ResumesAsSent
  BY
      DEF Transfer!Accepts, Transfer!Prev, Transfer!ChainFits, Transfer!ResumesAsSent,
          Transfer!Range, TransferP!Accepts, TransferP!Prev, TransferP!ChainFits,
          TransferP!ResumesAsSent, TransferP!Range
<1> QED BY <1>1, <1>2, <1>3, <1>4

LEMMA TransfersIsProved ==
    /\ Transfers!Init <=> TransfersP!Init
    /\ Transfers!Next <=> TransfersP!Next
    /\ Transfers!HistoryArrives <=> TransfersP!HistoryArrives
    /\ Transfers!ResumesAsSent <=> TransfersP!ResumesAsSent
<1>1. Transfers!Init <=> TransfersP!Init
  BY
      DEF Transfers!NoSession, Transfers!NoEntry, Transfers!Empty, Transfers!Init,
          TransfersP!NoSession, TransfersP!NoEntry, TransfersP!Empty, TransfersP!Init
<1>2. Transfers!Next <=> TransfersP!Next
  BY
      DEF Transfers!NoEntry, Transfers!Empty, Transfers!StartOutgoing,
          Transfers!Encrypted, Transfers!Chunk, Transfers!Saving, Transfers!Approving,
          Transfers!Plan, Transfers!ApproveOutgoing, Transfers!SourceSaved,
          Transfers!ServerConnects, Transfers!Accepts, Transfers!ServerTakesChunk,
          Transfers!ServerApproves, Transfers!CancelOutgoing, Transfers!Cancellable,
          Transfers!ServerCancelsOutgoing, Transfers!SourceAnswered,
          Transfers!ContinueOutgoing, Transfers!SourceFails, Transfers!SourceCrashes,
          Transfers!NewRecord, Transfers!Keeping, Transfers!TargetFree,
          Transfers!StartIncoming, Transfers!Made, Transfers!ServerCreates,
          Transfers!Created, Transfers!PollIncoming, Transfers!ServerTells,
          Transfers!Told, Transfers!Prev, Transfers!ChainFits, Transfers!Imported,
          Transfers!Transferred, Transfers!ChunksArrive, Transfers!ChunksFail,
          Transfers!SetupDevice, Transfers!ServerRegisters, Transfers!Activated,
          Transfers!Replenished, Transfers!ServerFinalizes, Transfers!Finalized,
          Transfers!TargetSaved, Transfers!TargetFails, Transfers!TargetCrashes,
          Transfers!CancelIncoming, Transfers!ServerCancelsIncoming,
          Transfers!CancelFails, Transfers!Destroyed, Transfers!Cleared,
          Transfers!Expire, Transfers!SourceNext, Transfers!TargetNext, Transfers!Next,
          Transfers!Range, TransfersP!NoEntry, TransfersP!Empty,
          TransfersP!StartOutgoing, TransfersP!Encrypted, TransfersP!Chunk,
          TransfersP!Saving, TransfersP!Approving, TransfersP!Plan,
          TransfersP!ApproveOutgoing, TransfersP!SourceSaved,
          TransfersP!ServerConnects, TransfersP!Accepts, TransfersP!ServerTakesChunk,
          TransfersP!ServerApproves, TransfersP!CancelOutgoing, TransfersP!Cancellable,
          TransfersP!ServerCancelsOutgoing, TransfersP!SourceAnswered,
          TransfersP!ContinueOutgoing, TransfersP!SourceFails,
          TransfersP!SourceCrashes, TransfersP!NewRecord, TransfersP!Keeping,
          TransfersP!TargetFree, TransfersP!StartIncoming, TransfersP!Made,
          TransfersP!ServerCreates, TransfersP!Created, TransfersP!PollIncoming,
          TransfersP!ServerTells, TransfersP!Told, TransfersP!Prev,
          TransfersP!ChainFits, TransfersP!Imported, TransfersP!Transferred,
          TransfersP!ChunksArrive, TransfersP!ChunksFail, TransfersP!SetupDevice,
          TransfersP!ServerRegisters, TransfersP!Activated, TransfersP!Replenished,
          TransfersP!ServerFinalizes, TransfersP!Finalized, TransfersP!TargetSaved,
          TransfersP!TargetFails, TransfersP!TargetCrashes, TransfersP!CancelIncoming,
          TransfersP!ServerCancelsIncoming, TransfersP!CancelFails,
          TransfersP!Destroyed, TransfersP!Cleared, TransfersP!Expire,
          TransfersP!SourceNext, TransfersP!TargetNext, TransfersP!Next,
          TransfersP!Range
<1>3. Transfers!HistoryArrives <=> TransfersP!HistoryArrives
  BY
      DEF Transfers!HistoryArrives, Transfers!Range, TransfersP!HistoryArrives,
          TransfersP!Range
<1>4. Transfers!ResumesAsSent <=> TransfersP!ResumesAsSent
  BY
      DEF Transfers!Accepts, Transfers!Prev, Transfers!ChainFits,
          Transfers!ResumesAsSent, Transfers!Range, TransfersP!Accepts,
          TransfersP!Prev, TransfersP!ChainFits, TransfersP!ResumesAsSent,
          TransfersP!Range
<1> QED BY <1>1, <1>2, <1>3, <1>4

LEMMA ActivationSteps ==
    /\ MembershipInit => (focus = "activation" => ActivationP!Init)
    /\ [MembershipNext]_<<focus, vars, activationVars, transferVars>> =>
        /\ (focus = "activation")' <=> focus = "activation"
        /\ focus = "activation" => [ActivationP!Next]_(ActivationP!vars)
<1>1. MembershipInit => (focus = "activation" => ActivationP!Init)
  BY ActivationIsProved DEF MembershipInit
<1>2. ASSUME [MembershipNext]_<<focus, vars, activationVars, transferVars>>
      PROVE  /\ (focus = "activation")' <=> focus = "activation"
             /\ focus = "activation" => [ActivationP!Next]_(ActivationP!vars)
  BY <1>2, ActivationIsProved DEF MembershipNext, activationVars, ActivationP!vars
<1> QED BY <1>1, <1>2

LEMMA TransferSteps ==
    /\ MembershipInit => (focus = "transfer" => TransferP!Init)
    /\ [MembershipNext]_<<focus, vars, activationVars, transferVars>> =>
        /\ (focus = "transfer")' <=> focus = "transfer"
        /\ focus = "transfer" => [TransferP!Next]_(TransferP!vars)
<1>1. MembershipInit => (focus = "transfer" => TransferP!Init)
  BY TransferIsProved DEF MembershipInit
<1>2. ASSUME [MembershipNext]_<<focus, vars, activationVars, transferVars>>
      PROVE  /\ (focus = "transfer")' <=> focus = "transfer"
             /\ focus = "transfer" => [TransferP!Next]_(TransferP!vars)
  BY <1>2, TransferIsProved DEF MembershipNext, transferVars, TransferP!vars
<1> QED BY <1>1, <1>2

LEMMA TransfersSteps ==
    /\ MembershipInit => (focus = "transfers" => TransfersP!Init)
    /\ [MembershipNext]_<<focus, vars, activationVars, transferVars>> =>
        /\ (focus = "transfers")' <=> focus = "transfers"
        /\ focus = "transfers" => [TransfersP!Next]_(TransfersP!vars)
<1>1. MembershipInit => (focus = "transfers" => TransfersP!Init)
  BY TransfersIsProved DEF MembershipInit
<1>2. ASSUME [MembershipNext]_<<focus, vars, activationVars, transferVars>>
      PROVE  /\ (focus = "transfers")' <=> focus = "transfers"
             /\ focus = "transfers" => [TransfersP!Next]_(TransfersP!vars)
  BY <1>2, TransfersIsProved DEF MembershipNext, transferVars, TransfersP!vars
<1> QED BY <1>1, <1>2

\* None is no body, no Welcome, no key, no chunk and no session.
MembershipValues == ActivationP!Distinct /\ TransferP!Values /\ TransfersP!Values

\* A device that counts as joined keeps the group of the conversation, whatever it is
\* cut at (joinPendingWelcomes, finishActivation).
THEOREM JoinedKeepTheGroup == MembershipValues => (MembershipSpec => []JoinedKeep)
<1> SUFFICES ASSUME MembershipValues PROVE MembershipSpec => []JoinedKeep OBVIOUS
<1>1. (focus = "activation" => ActivationP!JoinedKeep) => JoinedKeep
  BY ActivationIsProved DEF JoinedKeep
<1>2. ActivationP!Spec => []ActivationP!JoinedKeep
  BY ActivationP!JoinedHaveTheGroup DEF MembershipValues
<1> QED BY <1>1, <1>2, ActivationSteps, PTL DEF MembershipSpec, ActivationP!Spec

\* A group that stays was taken by the server (resolveActivationConflict,
\* recoverExpiredActivation).
THEOREM KeptGroupsWereTaken == MembershipValues => (MembershipSpec => []GroupsTaken)
<1> SUFFICES ASSUME MembershipValues PROVE MembershipSpec => []GroupsTaken OBVIOUS
<1>1. (focus = "activation" => ActivationP!GroupsTaken) => GroupsTaken
  BY ActivationIsProved DEF GroupsTaken
<1>2. ActivationP!Spec => []ActivationP!GroupsTaken
  BY ActivationP!StoredGroupsWereTaken DEF MembershipValues
<1> QED BY <1>1, <1>2, ActivationSteps, PTL DEF MembershipSpec, ActivationP!Spec

\* A device that is registered by a transfer has the history it was owed, of one
\* session while records come and of two sessions (completeRegistration).
THEOREM HistoryArrivesWhole == MembershipValues => (MembershipSpec => []HistoryArrives)
<1> SUFFICES ASSUME MembershipValues PROVE MembershipSpec => []HistoryArrives OBVIOUS
<1>1. /\ focus = "transfer" => TransferP!HistoryArrives
      /\ focus = "transfers" => TransfersP!HistoryArrives
      => HistoryArrives
  BY TransferIsProved, TransfersIsProved DEF HistoryArrives
<1>2. TransferP!Spec => []TransferP!HistoryArrives
  BY TransferP!TransferredHistoryArrives DEF MembershipValues
<1>3. TransfersP!Spec => []TransfersP!HistoryArrives
  BY TransfersP!TransferredHistoryArrives DEF MembershipValues
<1> QED
  BY <1>1, <1>2, <1>3, TransferSteps, TransfersSteps, PTL
  DEF MembershipSpec, TransferP!Spec, TransfersP!Spec

\* What is sent again after a failure is what was sent (continueOutgoingDeviceTransfer).
THEOREM SentAgainAsSent == MembershipValues => (MembershipSpec => []ResumesAsSent)
<1> SUFFICES ASSUME MembershipValues PROVE MembershipSpec => []ResumesAsSent OBVIOUS
<1>1. /\ focus = "transfer" => TransferP!ResumesAsSent
      /\ focus = "transfers" => TransfersP!ResumesAsSent
      => ResumesAsSent
  BY TransferIsProved, TransfersIsProved DEF ResumesAsSent
<1>2. TransferP!Spec => []TransferP!ResumesAsSent
  BY TransferP!TransferResumesAsSent DEF MembershipValues
<1>3. TransfersP!Spec => []TransfersP!ResumesAsSent
  BY TransfersP!TransferResumesAsSent DEF MembershipValues
<1> QED
  BY <1>1, <1>2, <1>3, TransferSteps, TransfersSteps, PTL
  DEF MembershipSpec, TransferP!Spec, TransfersP!Spec
=============================================================================
