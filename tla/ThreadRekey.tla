--------------------------- MODULE ThreadRekey ---------------------------
(***************************************************************************)
(* Membership changes of one MLS conversation: how the devices of its two  *)
(* accounts follow one chain of epochs while devices are added and revoked *)
(* (reconcileThreadDevices, finishPreparedRekey, joinPendingWelcomes and   *)
(* the COMMIT envelopes of syncThread in                                   *)
(* packages/volna-messaging-client/src/secure-messaging-client.mjs, with   *)
(* prepareRekey, commitPreparedRekey and process of mls-runtime.mjs).      *)
(*                                                                         *)
(* A device runs one call at a time; it may crash, and any request or      *)
(* answer may be lost or, for the commit request, arrive later.  The       *)
(* server is external: it keeps at most one prepared operation, commits it *)
(* only from the current epoch to the present roster, and answers a commit *)
(* it has already taken from its record or with 409.  COMMITTED and READY  *)
(* are one status here, as the client treats them alike.                   *)
(*                                                                         *)
(* A group state is the sequence of commits that led to it: two devices    *)
(* share an epoch secret exactly if their sequences are equal.  The group  *)
(* is created elsewhere (thread activation), by commit 0 at epoch 1.       *)
(***************************************************************************)
EXTENDS Integers, Sequences, FiniteSets

CONSTANTS
    Devices,       \* the devices of both accounts, present and future
    Founders,      \* the members of epoch 1
    MaxOps,        \* bound on the rekey operations the server creates
    MaxCommits,    \* bound on the Commits the devices make
    MaxRevoked,    \* bound on the devices that are revoked
    OneAtATime,    \* the server prepares no rekey before all Welcomes are acknowledged
    OwnApplies,    \* the MLS library may apply a Commit of its own making
    Calm,          \* devices come and go only while no Welcome waits to be joined
    None

ASSUME FoundersAssumption == Founders \subseteq Devices /\ Founders # {}
ASSUME BoundsAssumption == {MaxOps, MaxCommits, MaxRevoked} \subseteq Nat
ASSUME ModesAssumption == {OneAtATime, OwnApplies, Calm} \subseteq BOOLEAN
ASSUME NoneAssumption == None \notin Devices

VARIABLES
    standing,  \* the directory: each device is new, active or revoked
    chain,     \* the server's epochs: the Commit that led to each
    ops,       \* the server's rekey operations
    welcomes,  \* the Welcomes not acknowledged
    late,      \* commit requests given up by their device, still on their way
    minted,    \* Commits made so far: no two are alike
    dev,       \* each device's memory and call
    disk       \* what each device has stored

vars == <<standing, chain, ops, welcomes, late, minted, dev, disk>>
server == <<standing, chain, ops, welcomes, late>>
-----------------------------------------------------------------------------
Active == {d \in Devices : standing[d] = "active"}
Epoch == Len(chain)
Members == chain[Epoch].roster
Required == Members # Active

Operation == [from : Devices, base : Nat, roster : SUBSET Devices,
              status : {"PREPARED", "COMMITTED", "ABORTED", "EXPIRED"}]
\* A prepared rekey: the operation, the Commit made for it, the base epoch.
Pending == [op : Nat, commit : Nat, base : Nat]
Link == [commit : Nat, op : Nat, from : Devices \union {None}, roster : SUBSET Devices]
Welcome == [to : Devices, group : Seq(Nat)]
Request == [from : Devices, pending : Pending]

NoPending == [op |-> 0, commit |-> 0, base |-> 0]
Off == [pc |-> "off", restoring |-> FALSE, then |-> "ready", group |-> <<>>,
        pending |-> NoPending]

Init ==
    /\ standing = [d \in Devices |-> IF d \in Founders THEN "active" ELSE "new"]
    /\ chain = <<[commit |-> 0, op |-> 0, from |-> None, roster |-> Founders]>>
    /\ ops = <<>>
    /\ welcomes = {}
    /\ late = {}
    /\ minted = 0
    /\ dev = [d \in Devices |-> Off]
    /\ disk = [d \in Devices |-> [group |-> IF d \in Founders THEN <<0>> ELSE <<>>,
                                  pending |-> NoPending]]

\* What becomes of a device whose call throws: the client stays, unless it was
\* being restored.
Failed(s) == IF s.restoring THEN Off
             ELSE [s EXCEPT !.pc = "ready", !.then = "ready"]

\* persist comes next, and then the step named.
Saving(s, then) == [s EXCEPT !.pc = "save", !.then = then]

Become(d, s) == dev' = [dev EXCEPT ![d] = s]
-----------------------------------------------------------------------------
(* The directory.                                                          *)

Waiting == \E w \in welcomes : w.to \in Active

Enroll(d) ==
    /\ standing[d] = "new"
    /\ Calm => ~Waiting
    /\ standing' = [standing EXCEPT ![d] = "active"]
    /\ UNCHANGED <<chain, ops, welcomes, late, minted, dev, disk>>

Revoke(d) ==
    /\ standing[d] = "active"
    /\ Cardinality({e \in Devices : standing[e] = "revoked"}) < MaxRevoked
    /\ Calm => ~Waiting
    /\ standing' = [standing EXCEPT ![d] = "revoked"]
    /\ UNCHANGED <<chain, ops, welcomes, late, minted, dev, disk>>

\* The deadline of a prepared operation passes.
Expire(o) ==
    /\ ops[o].status = "PREPARED"
    /\ ops' = [ops EXCEPT ![o].status = "EXPIRED"]
    /\ UNCHANGED <<standing, chain, welcomes, late, minted, dev, disk>>
-----------------------------------------------------------------------------
(* The commit request at the server.                                       *)

RequestOf(d) == [from |-> d, pending |-> dev[d].pending]

Acceptable(r) ==
    /\ r.from \in Active
    /\ r.pending.op \in DOMAIN ops
    /\ ops[r.pending.op].status = "PREPARED"
    /\ ops[r.pending.op].base = Epoch
    /\ ops[r.pending.op].roster = Active

Known(r) ==
    /\ r.from \in Active
    /\ \E i \in 2 .. Epoch : chain[i].commit = r.pending.commit /\ chain[i].op = r.pending.op

\* The Commit becomes the next epoch; each device it adds has a Welcome to it.
Commits(r) ==
    LET roster == ops[r.pending.op].roster
        group == [i \in 1 .. Epoch + 1 |->
                    IF i <= Epoch THEN chain[i].commit ELSE r.pending.commit]
    IN  /\ chain' = Append(chain, [commit |-> r.pending.commit, op |-> r.pending.op,
                                   from |-> r.from, roster |-> roster])
        /\ ops' = [ops EXCEPT ![r.pending.op].status = "COMMITTED"]
        /\ welcomes' = welcomes \union {[to |-> d, group |-> group] : d \in roster \ Members}

\* A request that its device gave up arrives after all.
LateArrives(r) ==
    /\ late' = late \ {r}
    /\ IF Acceptable(r) THEN Commits(r) ELSE UNCHANGED <<chain, ops, welcomes>>
    /\ UNCHANGED <<standing, minted, dev, disk>>
-----------------------------------------------------------------------------
(* persist, crash and restore.                                             *)

Save(d) ==
    /\ dev[d].pc = "save"
    /\ disk' = [disk EXCEPT ![d] = [group |-> dev[d].group, pending |-> dev[d].pending]]
    /\ Become(d, [dev[d] EXCEPT !.pc = dev[d].then, !.then = "ready",
                        !.restoring = @ /\ dev[d].then # "ready"])
    /\ UNCHANGED <<server, minted>>

\* The process dies, or persist fails and empties the client.
Crash(d) ==
    /\ dev[d].pc # "off"
    /\ Become(d, Off)
    /\ late' = IF dev[d].pc = "post"
               THEN late \union {RequestOf(d)} ELSE late
    /\ UNCHANGED <<standing, chain, ops, welcomes, minted, disk>>

\* Mutant: the rekeys left prepared are not retried.
MutNoRetry(d, ws, s) ==
    IF \E w \in ws : w.to = d THEN [s EXCEPT !.pc = "join"]
    ELSE [s EXCEPT !.pc = "ready", !.restoring = FALSE]

\* Mutant: a retry is made whether or not a rekey is prepared.
MutRetryAlways(d, ws, s) ==
    IF \E w \in ws : w.to = d THEN [s EXCEPT !.pc = "join"]
    ELSE IF s.restoring THEN [s EXCEPT !.pc = "post"]
    ELSE [s EXCEPT !.pc = "ready", !.restoring = FALSE]

\* joinPendingWelcomes ends without a Welcome left in ws; restore goes on with
\* retryPendingRekeys.
AfterWelcomes(d, ws, s) ==
    IF \E w \in ws : w.to = d THEN [s EXCEPT !.pc = "join"]
    ELSE IF s.restoring /\ s.pending # NoPending THEN [s EXCEPT !.pc = "post"]
    ELSE [s EXCEPT !.pc = "ready", !.restoring = FALSE]

\* restore; an inactive device fails its checks.
Restore(d) ==
    /\ dev[d].pc = "off"
    /\ d \in Active
    /\ Become(d, AfterWelcomes(d, welcomes,
            [Off EXCEPT !.restoring = TRUE,
                        !.group = disk[d].group, !.pending = disk[d].pending]))
    /\ UNCHANGED <<server, minted, disk>>
-----------------------------------------------------------------------------
(* joinPendingWelcomes.                                                    *)

\* The host opens a thread: joinPendingWelcomes comes before syncThread.
Open(d) ==
    /\ dev[d].pc = "ready"
    /\ d \in Active
    /\ \E w \in welcomes : w.to = d
    /\ Become(d, [dev[d] EXCEPT !.pc = "join"])
    /\ UNCHANGED <<server, minted, disk>>

\* A Welcome is to the current epoch and to the present roster; a group that is
\* there already is at that epoch.
Joinable(d, w) ==
    /\ Len(w.group) = Epoch
    /\ ~Required
    /\ dev[d].group = <<>> \/ Len(dev[d].group) = Epoch

\* Mutant: the Welcome is acknowledged before the group is stored.
MutAckFirst(d) ==
    /\ dev[d].pc = "join"
    /\ d \in Active
    /\ \E w \in welcomes :
        /\ w.to = d
        /\ IF Joinable(d, w)
           THEN /\ welcomes' = welcomes \ {w}
                /\ Become(d, Saving([dev[d] EXCEPT !.group =
                            IF dev[d].group = <<>> THEN w.group ELSE dev[d].group], "ready"))
           ELSE Become(d, Failed(dev[d])) /\ UNCHANGED welcomes
    /\ UNCHANGED <<standing, chain, ops, late, minted, disk>>

\* A Welcome of the device is joined, or found to be joined, and persisted.
Join(d) ==
    /\ dev[d].pc = "join"
    /\ d \in Active
    /\ \E w \in welcomes :
        /\ w.to = d
        /\ Become(d, IF Joinable(d, w)
                     THEN Saving([dev[d] EXCEPT !.group =
                            IF dev[d].group = <<>> THEN w.group ELSE dev[d].group], "ack")
                     ELSE Failed(dev[d]))
    /\ UNCHANGED <<server, minted, disk>>

\* acknowledgeWelcome; the request or its answer may be lost.
Ack(d) ==
    /\ dev[d].pc = "ack"
    /\ \/ /\ d \in Active
          /\ welcomes' = {w \in welcomes : w.to # d}
          /\ \/ Become(d, AfterWelcomes(d, welcomes', dev[d]))
             \/ Become(d, Failed(dev[d]))
       \/ UNCHANGED welcomes /\ Become(d, Failed(dev[d]))
    /\ UNCHANGED <<standing, chain, ops, late, minted, disk>>
-----------------------------------------------------------------------------
(* syncThread: COMMIT envelopes.                                           *)

\* The next Commit of the chain; a device that it removes cannot follow it.
NextLink(d) == chain[Len(dev[d].group) + 1]

MayApply(d) ==
    /\ dev[d].group # <<>>
    /\ Len(dev[d].group) < Epoch
    /\ d \in NextLink(d).roster
    /\ NextLink(d).from = d => OwnApplies

Sync(d) ==
    /\ dev[d].pc = "ready"
    /\ d \in Active
    /\ MayApply(d)
    /\ Become(d, Saving([dev[d] EXCEPT !.group = Append(@, NextLink(d).commit)], "ready"))
    /\ UNCHANGED <<server, minted, disk>>
-----------------------------------------------------------------------------
(* reconcileThreadDevices and finishPreparedRekey.                         *)

\* It is called for a thread the server lists, for a send while a rekey is
\* required, or when the group and the directory are found to differ.
Reconcile(d) ==
    /\ dev[d].pc = "ready"
    /\ dev[d].group # <<>>
    /\ Required \/ Len(dev[d].group) # Epoch
    /\ Become(d, [dev[d] EXCEPT !.pc = IF dev[d].pending = NoPending THEN "prepare" ELSE "post"])
    /\ UNCHANGED <<server, minted, disk>>

\* Mutant: the Commit is applied when it is made.
MutCommitFirst(d, o, op) ==
    IF op.from = d /\ op.base = Len(dev[d].group) /\ op.roster = Active
    THEN /\ minted < MaxCommits
         /\ minted' = minted + 1
         /\ Become(d, Saving([dev[d] EXCEPT !.group = Append(@, minted + 1), !.pending =
                [op |-> o, commit |-> minted + 1, base |-> op.base]], "post"))
    ELSE Become(d, Failed(dev[d])) /\ UNCHANGED minted

\* The operation o is answered: the client makes a Commit for it if it fits
\* the group and the directory.  (The client reads them before; a change since
\* then only makes it throw, which it may do here at any time.)
PreparedFor(d, o, op) ==
    IF op.from = d /\ op.base = Len(dev[d].group) /\ op.roster = Active
    THEN /\ minted < MaxCommits
         /\ minted' = minted + 1
         /\ Become(d, Saving([dev[d] EXCEPT !.pending =
                [op |-> o, commit |-> minted + 1, base |-> op.base]], "post"))
    ELSE Become(d, Failed(dev[d])) /\ UNCHANGED minted

Blocked == OneAtATime /\ Waiting

\* prepareThreadRekey: the server answers with its prepared operation, or makes
\* one; the answer may be lost.  The group is at the server's epoch.
Prepare(d) ==
    /\ dev[d].pc = "prepare"
    /\ Len(dev[d].group) = Epoch
    /\ LET open == {o \in DOMAIN ops : ops[o].status = "PREPARED"}
           new == [from |-> d, base |-> Epoch, roster |-> Active, status |-> "PREPARED"]
       IN  \/ /\ Required /\ d \in Active /\ ~Blocked /\ open = {} /\ Len(ops) < MaxOps
              /\ ops' = Append(ops, new)
              /\ \/ PreparedFor(d, Len(ops) + 1, new)
                 \/ Become(d, Failed(dev[d])) /\ UNCHANGED minted
           \/ /\ \E o \in open : d \in Active /\ PreparedFor(d, o, ops[o])
              /\ UNCHANGED ops
           \/ /\ ~Required
              /\ Become(d, [dev[d] EXCEPT !.pc = "ready", !.restoring = FALSE])
              /\ UNCHANGED <<ops, minted>>
    /\ UNCHANGED <<standing, chain, welcomes, late, disk>>

\* A request fails, or the group is not at the server's epoch: the call throws.
PrepareFails(d) ==
    /\ dev[d].pc = "prepare"
    /\ Become(d, Failed(dev[d]))
    /\ UNCHANGED <<server, minted, disk>>

\* Mutant: the base epoch is not compared.
MutNoBaseCheck(s) ==
    Saving([s EXCEPT !.group = Append(@, s.pending.commit), !.pending = NoPending], "ready")

\* Mutant: the prepared rekey is kept once it is applied.
MutKeepApplied(s) ==
    IF Len(s.group) = s.pending.base
    THEN Saving([s EXCEPT !.group = Append(@, s.pending.commit)], "ready")
    ELSE Failed(s)

\* commitPreparedRekeyLocally: the group must still be at the base epoch.
Applied(s) ==
    IF Len(s.group) = s.pending.base
    THEN Saving([s EXCEPT !.group = Append(@, s.pending.commit), !.pending = NoPending], "ready")
    ELSE Failed(s)

\* commitThreadRekey is taken, or was before, and answered.
CommitTaken(d) ==
    /\ dev[d].pc = "post"
    /\ \/ Acceptable(RequestOf(d)) /\ Commits(RequestOf(d))
       \/ Known(RequestOf(d)) /\ UNCHANGED <<chain, ops, welcomes>>
    /\ Become(d, Applied(dev[d]))
    /\ UNCHANGED <<standing, late, minted, disk>>

\* No answer comes, or one that is not a 409: the call throws.
CommitLost(d) ==
    /\ dev[d].pc = "post"
    /\ Become(d, Failed(dev[d]))
    /\ late' = late \union {RequestOf(d)}
    /\ UNCHANGED <<standing, chain, ops, welcomes, minted, disk>>

\* The prepared rekey is dropped, and the reconciliation starts again.
Dropped(s) == Saving([s EXCEPT !.pending = NoPending], "prepare")

\* Mutant: a prepared operation is dropped as an expired one is.
MutDropPrepared(d) ==
    /\ dev[d].pc = "post"
    /\ d \in Active
    /\ LET p == dev[d].pending IN
        Become(d,
            CASE ops[p.op].status = "COMMITTED" ->
                    IF Known(RequestOf(d)) THEN Applied(dev[d]) ELSE Failed(dev[d])
              [] OTHER -> Dropped(dev[d]))
    /\ UNCHANGED <<server, minted, disk>>

\* The commit is refused with 409, for whatever reason the server may have, and
\* getThreadRekey tells what to do with the prepared rekey.
CommitRefused(d) ==
    /\ dev[d].pc = "post"
    /\ d \in Active
    /\ LET p == dev[d].pending IN
        Become(d,
            CASE ops[p.op].status = "COMMITTED" ->
                    IF Known(RequestOf(d)) THEN Applied(dev[d]) ELSE Failed(dev[d])
              [] ops[p.op].status = "PREPARED" -> [dev[d] EXCEPT !.pc = "abort"]
              [] OTHER -> Dropped(dev[d]))
    /\ UNCHANGED <<server, minted, disk>>

\* abortThreadRekey: it ends the operation if it is still prepared; else the
\* server may refuse.  The answer may be lost.
Abort(d) ==
    /\ dev[d].pc = "abort"
    /\ LET o == dev[d].pending.op IN
        \/ /\ d \in Active
           /\ ops[o].status # "COMMITTED"
           /\ ops' = [ops EXCEPT ![o].status = IF @ = "PREPARED" THEN "ABORTED" ELSE @]
           /\ Become(d, Dropped(dev[d])) \/ Become(d, Failed(dev[d]))
        \/ UNCHANGED ops /\ Become(d, Failed(dev[d]))
    /\ UNCHANGED <<standing, chain, welcomes, late, minted, disk>>

Step(d) ==
    \/ Save(d) \/ Crash(d) \/ Restore(d) \/ Open(d) \/ Join(d) \/ Ack(d) \/ Sync(d)
    \/ Reconcile(d) \/ Prepare(d) \/ PrepareFails(d)
    \/ CommitTaken(d) \/ CommitRefused(d) \/ CommitLost(d) \/ Abort(d)

Next ==
    \/ \E d \in Devices : Enroll(d) \/ Revoke(d) \/ Step(d)
    \/ \E o \in DOMAIN ops : Expire(o)
    \/ \E r \in late : LateArrives(r)

Spec == Init /\ [][Next]_vars

\* An app that holds a prepared rekey is restarted some time.
Restart(d) == dev[d].pc = "ready" /\ dev[d].pending # NoPending /\ Crash(d)

\* What the code and its host do when nothing fails: the conversation is opened,
\* and a message is sent into it while its members are not the active devices.
Progress(d) ==
    \/ Save(d) \/ Restore(d) \/ Open(d) \/ Join(d) \/ Sync(d) \/ Restart(d)
    \/ Ack(d) /\ dev'[d].pc = "ready"
    \/ Required /\ ~MayApply(d) /\ Reconcile(d)
    \/ Prepare(d) /\ (dev'[d].pc = "save" \/ ~Required)
    \/ Len(dev[d].group) # Epoch /\ PrepareFails(d)
    \/ CommitTaken(d)
    \/ CommitRefused(d) /\ dev'[d].pc \in {"save", "abort"}
    \/ Abort(d) /\ (dev'[d].pc = "save" \/ ops[dev[d].pending.op].status = "COMMITTED")

\* An active device crashes, a request that could succeed does not, or the host
\* reconciles a thread that it should synchronize.
Fault ==
    \E d \in Active :
        \/ Crash(d) /\ ~Restart(d)
        \/ Reconcile(d) /\ MayApply(d)
        \/ CommitLost(d)
        \/ (Ack(d) \/ Abort(d) \/ Prepare(d) \/ PrepareFails(d)) /\ ~Progress(d)

\* Faults come to an end, for as long as it takes; prepared operations expire.
Fairness ==
    /\ \A d \in Devices : WF_vars(Progress(d))
    /\ WF_vars(\E o \in DOMAIN ops : Expire(o))
    /\ <>[][~Fault]_vars

FairSpec == Spec /\ Fairness
-----------------------------------------------------------------------------
Memory == [pc : {"off", "join", "ack", "ready", "prepare", "save", "post", "abort"},
           restoring : BOOLEAN, then : {"ack", "ready", "prepare", "post"},
           group : Seq(Nat), pending : Pending]
Stored == [group : Seq(Nat), pending : Pending]

\* What waits for a commit or an abort has a prepared rekey; what asks for a new
\* one has none.
CallOK(s) ==
    LET at(pc) == s.pc = pc \/ (s.pc = "save" /\ s.then = pc)
    IN  /\ at("post") \/ at("abort") => s.pending # NoPending
        /\ at("prepare") => s.pending = NoPending

TypeOK ==
    /\ standing \in [Devices -> {"new", "active", "revoked"}]
    /\ chain \in Seq(Link) /\ chain # <<>>
    /\ ops \in Seq(Operation)
    /\ welcomes \subseteq Welcome
    /\ late \subseteq Request
    /\ minted \in Nat
    /\ dev \in [Devices -> Memory]
    /\ disk \in [Devices -> Stored]
    /\ \A d \in Devices : CallOK(dev[d])

Follows(group) ==
    /\ Len(group) <= Epoch
    /\ \A i \in 1 .. Len(group) : group[i] = chain[i].commit

\* No device is ever on a branch of its own: in memory and on disk, its group
\* went through the Commits the server has accepted, in their order.
NoFork == \A d \in Devices : Follows(dev[d].group) /\ Follows(disk[d].group)

\* Each epoch but the first came of a device's Commit, for an operation from the
\* epoch before.
LinkOK ==
    \A i \in 2 .. Epoch :
        /\ chain[i].from \in Devices
        /\ chain[i].op \in DOMAIN ops
        /\ ops[chain[i].op].base = i - 1
        /\ ops[chain[i].op].status = "COMMITTED"

PendingOK(p) == p # NoPending => p.op \in DOMAIN ops /\ ops[p.op].base = p.base

\* The Commits of d that the server accepted are in a group g or prepared as p.
Keeps(d, g, p) ==
    \A i \in 2 .. Epoch : chain[i].from = d =>
        Len(g) >= i \/ (p.op = chain[i].op /\ p.commit = chain[i].commit)

\* A request that could still be committed is what its device has prepared.
LateOK(r) ==
    /\ r.pending # NoPending
    /\ PendingOK(r.pending)
    /\ ops[r.pending.op].status = "PREPARED" =>
        /\ disk[r.from].pending = r.pending
        /\ dev[r.from].pc # "off" => dev[r.from].pending = r.pending

DeviceOK(d) ==
    /\ Follows(dev[d].group) /\ Follows(disk[d].group)
    /\ PendingOK(dev[d].pending) /\ PendingOK(disk[d].pending)
    /\ Keeps(d, disk[d].group, disk[d].pending)
    /\ dev[d].pc # "off" => Keeps(d, dev[d].group, dev[d].pending)
    /\ dev[d].pc \notin {"off", "save"} =>
        dev[d].group = disk[d].group /\ dev[d].pending = disk[d].pending

\* Memory and disk agree but for a save under way, both follow the chain and
\* keep the device's own Commits, and no request under way is news to them.
RekeyInv ==
    /\ LinkOK
    /\ \A d \in Devices : DeviceOK(d)
    /\ \A w \in welcomes : Follows(w.group)
    /\ \A r \in late : LateOK(r)

\* A Commit of the device that the server accepted, before or after the device
\* gave up on it, is in its stored group or among its stored prepared rekeys:
\* nobody can apply a Commit of its own making from the envelopes alone.
OwnCommitKept ==
    \A i \in 2 .. Epoch :
        LET own == disk[chain[i].from]
        IN  \/ Len(own.group) >= i
            \/ own.pending.op = chain[i].op /\ own.pending.commit = chain[i].commit

\* A prepared rekey that the server committed fits the stored group: it is not
\* left to fail with rekey_base_epoch_changed at every restore.
CommittedFits ==
    \A d \in Devices :
        Known([from |-> d, pending |-> disk[d].pending]) =>
            Len(disk[d].group) = disk[d].pending.base

\* A member has its group, or a Welcome to it, through crashes and lost
\* acknowledgements: a Welcome is not given up before its group is stored.
NobodyStranded ==
    \A d \in Members : disk[d].group # <<>> \/ \E w \in welcomes : w.to = d

\* The bounds of the model leave nobody a Commit to make.
Exhausted ==
    /\ Required
    /\ minted = MaxCommits \/ (Len(ops) = MaxOps /\ \A o \in DOMAIN ops : ops[o].status # "PREPARED")

\* Every active member is at the server's epoch, and the members are the
\* active devices.
Agreed ==
    /\ ~Required
    /\ \A d \in Active : Len(disk[d].group) = Epoch

\* The devices agree again and again, whatever was lost and whoever crashed,
\* unless no active device is left that was let in.
Converges == []<>(Agreed \/ Exhausted \/ Active \intersect Members = {})

\* A device that was added joins, unless it is revoked.
AddedJoins ==
    \A d \in Devices \ Founders :
        (d \in Active /\ d \in Members) ~> (d \notin Active \/ disk[d].group # <<>> \/ Exhausted)
=============================================================================
