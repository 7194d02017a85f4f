-------------------------- MODULE ThreadActivation --------------------------
(***************************************************************************)
(* How a conversation gets its first group: activateThread,                *)
(* finishActivation, resolveActivationConflict, recoverExpiredActivation,  *)
(* retryPendingActivations and the Welcomes of initial groups in           *)
(* joinPendingWelcomes (secure-messaging-client.mjs).                      *)
(*                                                                         *)
(* Each device may make a candidate and ask the server to take it; the     *)
(* server takes one, and has another device replace it when it is not      *)
(* joined by its deadline.  A device runs one call at a time and is cut at *)
(* every request and every save; all groups here are at epoch 1.           *)
(***************************************************************************)
EXTENDS Naturals, FiniteSets

CONSTANTS
    Devices,        \* the devices of the two partners
    None,           \* no activation, no Welcome
    MaxGroups,      \* bound: candidates made
    MaxExpiries     \* bound: deadlines that pass

VARIABLES
    local,      \* a device's memory, and where its call is
    saved,      \* what it has stored
    thread,     \* the server's conversation
    requests,   \* activation requests that may still arrive
    made        \* how many candidates there are: their names are 1 .. made

vars == <<local, saved, thread, requests, made>>

(* group: the runtime's group, 0 for none.  pending: pendingActivations.   *)
(* next: where the call goes after its save; after: after its Welcomes.    *)
Off == [at |-> "off", next |-> "idle", after |-> "end", restoring |-> FALSE,
        group |-> 0, pending |-> None, welcome |-> None]

Init ==
    /\ local = [d \in Devices |-> Off]
    /\ saved = [d \in Devices |-> [group |-> 0, pending |-> None]]
    /\ thread = [group |-> 0, joined |-> {}, waiting |-> {},
                 expired |-> FALSE, expiries |-> 0, stale |-> {}, taken |-> {}]
    /\ requests = {} /\ made = 0

-----------------------------------------------------------------------------
(* The server, as the client relies on it. *)

Ready == thread.joined = Devices
RecoveryAllowed == thread.group # 0 /\ ~Ready /\ thread.expired

\* A body is taken once: over no group, or over the expired one it replaces,
\* and only while the key packages it claimed are reserved.
Accepts(b) ==
    /\ b.group \notin thread.stale
    /\ thread.group = b.previous
    /\ b.previous # 0 => RecoveryAllowed

\* Every other device gets a Welcome; those of the replaced group are gone.
Taken(d, b) ==
    [thread EXCEPT !.group = b.group, !.joined = {d}, !.expired = FALSE, !.taken = @ \cup {b.group},
                   !.waiting = [to : Devices \ {d}, group : {b.group}, replaces : {b.previous}]]

Expire ==
    /\ thread.group # 0 /\ ~Ready /\ ~thread.expired /\ thread.expiries < MaxExpiries
    /\ thread' = [thread EXCEPT !.expired = TRUE, !.expiries = @ + 1]
    /\ UNCHANGED <<local, saved, requests, made>>

ClaimsExpire(g) ==
    /\ g # thread.group /\ g \notin thread.stale
    /\ thread' = [thread EXCEPT !.stale = @ \cup {g}]
    /\ UNCHANGED <<local, saved, requests, made>>

LateArrives(r) ==
    /\ thread' = IF Accepts(r.body) THEN Taken(r.from, r.body) ELSE thread
    /\ requests' = requests \ {r}
    /\ UNCHANGED <<local, saved, made>>

-----------------------------------------------------------------------------
(* persist, and how a call ends. *)

Goes(d, s) == local' = [local EXCEPT ![d] = s]

Saving(s, next) == [s EXCEPT !.at = "saving", !.next = next]

Ended(s) == [s EXCEPT !.at = "idle", !.restoring = FALSE, !.welcome = None]

\* A restore that fails gives the client up.
Failed(s) == IF s.restoring THEN Off ELSE Ended(s)

Save(d) ==
    /\ local[d].at = "saving"
    /\ saved' = [saved EXCEPT ![d] = [group |-> local[d].group, pending |-> local[d].pending]]
    /\ Goes(d, IF local[d].next = "idle" THEN Ended(local[d])
               ELSE [local[d] EXCEPT !.at = local[d].next])
    /\ UNCHANGED <<thread, requests, made>>

\* Also a save that fails: it empties the client.
Crash(d) ==
    /\ local[d].at # "off"
    /\ Goes(d, Off)
    /\ UNCHANGED <<saved, thread, requests, made>>

Restore(d) ==
    /\ local[d].at = "off"
    /\ Goes(d, [Off EXCEPT !.at = "welcomes", !.after = "retry", !.restoring = TRUE,
                           !.group = saved[d].group, !.pending = saved[d].pending])
    /\ UNCHANGED <<saved, thread, requests, made>>

-----------------------------------------------------------------------------
(* activateThread and recoverExpiredActivation *)

\* mutated: sent before it is saved
MutCandidate(d, previous) ==
    /\ made < MaxGroups
    /\ made' = made + 1
    /\ Goes(d, [local[d] EXCEPT !.group = made + 1, !.at = "finish",
                                !.pending = [group |-> made + 1, previous |-> previous]])

\* createGroup or replaceInitialGroup on fresh claims; saved before it is sent.
Candidate(d, previous) ==
    /\ made < MaxGroups
    /\ made' = made + 1
    /\ Goes(d, Saving([local[d] EXCEPT !.group = made + 1,
                                       !.pending = [group |-> made + 1, previous |-> previous]], "finish"))

ActivateThread(d) ==
    /\ local[d].at \in {"idle", "activate"}
    /\ \/ /\ local[d].pending # None
          /\ Goes(d, [local[d] EXCEPT !.at = "finish"])
          /\ UNCHANGED made
       \/ /\ local[d].pending = None /\ thread.group = 0
          /\ IF local[d].group = 0 THEN Candidate(d, 0)
             ELSE Goes(d, Failed(local[d])) /\ UNCHANGED made
       \/ /\ local[d].pending = None /\ thread.group # 0
          /\ Goes(d, IF RecoveryAllowed
                     THEN [local[d] EXCEPT !.at = "welcomes", !.after = "recover"]
                     ELSE IF local[d].group # thread.group THEN Failed(local[d])
                     ELSE Ended(local[d]))
          /\ UNCHANGED made
    /\ UNCHANGED <<saved, thread, requests>>

RecoverExpiredActivation(d) ==
    /\ local[d].at = "recover"
    /\ LET s == local[d]
       IN  IF s.pending # None /\ s.pending.previous # 0
           THEN Goes(d, [s EXCEPT !.at = "finish"]) /\ UNCHANGED made
           ELSE IF RecoveryAllowed /\ s.group \in {0, thread.group}
           THEN Candidate(d, thread.group)
           ELSE Goes(d, Failed(s)) /\ UNCHANGED made
    /\ UNCHANGED <<saved, thread, requests>>

-----------------------------------------------------------------------------
(* finishActivation and resolveActivationConflict *)

\* The server has the group: the activation is done, unless it is an initial
\* one that has expired by now.
Activated(s) ==
    Saving([s EXCEPT !.pending = None],
           IF s.pending.previous = 0 /\ RecoveryAllowed THEN "recover" ELSE "idle")

Finish(d) ==
    /\ local[d].at = "finish"
    /\ LET b == local[d].pending
       IN  \/ /\ Accepts(b)
              /\ thread' = Taken(d, b)
              /\ Goes(d, Saving([local[d] EXCEPT !.pending = None], "idle"))
           \/ /\ thread.group = b.group
              /\ Goes(d, Activated(local[d]))
              /\ UNCHANGED thread
           \/ /\ ~Accepts(b)
              /\ Goes(d, [local[d] EXCEPT !.at = "resolve"])
              /\ UNCHANGED thread
    /\ UNCHANGED <<saved, requests, made>>

\* The answer is lost, or the request is late, or lost (a bound: one request at
\* a time may still arrive, an earlier one is lost when another one is late).
FinishFails(d) ==
    /\ local[d].at = "finish"
    /\ LET r == [from |-> d, body |-> local[d].pending]
       IN  \/ /\ Accepts(r.body)
              /\ thread' = Taken(d, r.body)
              /\ UNCHANGED requests
           \/ /\ requests' \in {requests, {r}}
              /\ UNCHANGED thread
    /\ Goes(d, Failed(local[d]))
    /\ UNCHANGED <<saved, made>>

\* mutated: the runtime keeps the group
MutDiscarded(s) == [s EXCEPT !.pending = None]

\* discardInitialGroupCandidate
Discarded(s) == [s EXCEPT !.group = 0, !.pending = None]

\* The branch that would try a recovery again comes after the one of a group
\* that is not the body's, which takes its case.
ResolveActivationConflict(d) ==
    /\ local[d].at = "resolve"
    /\ LET s == local[d]
       IN  Goes(d, IF thread.group = s.pending.group THEN Activated(s)
                   ELSE IF thread.group = 0 THEN Saving(Discarded(s), "activate")
                   ELSE [Saving(Discarded(s), "welcomes") EXCEPT !.after = "check"])
    /\ UNCHANGED <<saved, thread, requests, made>>

-----------------------------------------------------------------------------
(* joinPendingWelcomes *)

\* The surface opens the conversation.
OpenThread(d) ==
    /\ local[d].at = "idle"
    /\ Goes(d, [local[d] EXCEPT !.at = "welcomes", !.after = "end"])
    /\ UNCHANGED <<saved, thread, requests, made>>

\* A Welcome over another candidate than the one it is for discards that
\* candidate first, and saves.
ListWelcome(d) ==
    /\ local[d].at = "welcomes"
    /\ \E w \in thread.waiting :
          /\ w.to = d
          /\ LET s == [local[d] EXCEPT !.welcome = w]
             IN  Goes(d, IF s.group \notin {0, w.group} /\ s.pending # None
                            /\ s.pending.group = s.group /\ s.pending.previous = w.replaces
                         THEN Saving(Discarded(s), "join")
                         ELSE [s EXCEPT !.at = "join"])
    /\ UNCHANGED <<saved, thread, requests, made>>

NoWelcome(d) ==
    /\ local[d].at = "welcomes"
    /\ \A w \in thread.waiting : w.to # d
    /\ LET s == local[d]
       IN  Goes(d, CASE s.after = "retry" /\ s.pending # None -> [s EXCEPT !.at = "finish"]
                     [] s.after = "recover" /\ RecoveryAllowed -> [s EXCEPT !.at = "recover"]
                     [] (s.after = "check" \/ (s.after = "recover" /\ ~RecoveryAllowed)) /\ s.group # thread.group -> Failed(s)
                     [] OTHER -> Ended(s))
    /\ UNCHANGED <<saved, thread, requests, made>>

JoinWelcome(d) ==
    /\ local[d].at = "join"
    /\ LET s == local[d]
           w == s.welcome
       IN  Goes(d, IF s.group \in {0, w.group} THEN Saving([s EXCEPT !.group = w.group], "ack")
                   ELSE IF s.group = w.replaces
                   THEN Saving([s EXCEPT !.group = w.group, !.pending = None], "ack")
                   ELSE IF RecoveryAllowed THEN [s EXCEPT !.at = "recover"]
                   ELSE Failed(s))
    /\ UNCHANGED <<saved, thread, requests, made>>

\* acknowledgeWelcome, of a Welcome that may be gone; then the next one.
Acknowledge(d) ==
    /\ local[d].at = "ack"
    /\ LET w == local[d].welcome
       IN  IF w \in thread.waiting
           THEN /\ thread' = [thread EXCEPT !.waiting = @ \ {w}, !.joined = @ \cup {d}]
                /\ Goes(d, [local[d] EXCEPT !.at = "welcomes", !.welcome = None])
           ELSE /\ Goes(d, Failed(local[d]))
                /\ UNCHANGED thread
    /\ UNCHANGED <<saved, requests, made>>

RequestFails(d) ==
    /\ local[d].at \in {"activate", "recover", "resolve", "welcomes", "ack"}
    /\ Goes(d, Failed(local[d]))
    /\ UNCHANGED <<saved, thread, requests, made>>

-----------------------------------------------------------------------------
Step(d) ==
    \/ Save(d) \/ Restore(d) \/ ActivateThread(d) \/ RecoverExpiredActivation(d)
    \/ Finish(d) \/ ResolveActivationConflict(d) \/ OpenThread(d)
    \/ ListWelcome(d) \/ NoWelcome(d) \/ JoinWelcome(d) \/ Acknowledge(d)

Next ==
    \/ \E d \in Devices : Step(d) \/ Crash(d) \/ FinishFails(d) \/ RequestFails(d)
    \/ Expire \/ \E g \in 1 .. made : ClaimsExpire(g)
    \/ \E r \in requests : LateArrives(r)

Spec == Init /\ [][Next]_vars

-----------------------------------------------------------------------------
(* Properties *)

\* A device the server counts as joined has the server's group stored, or the
\* candidate it is replacing that group with, or none when that candidate was
\* refused: never a group that only it has.
JoinedKeep ==
    \A d \in thread.joined :
        \/ saved[d].group \in {0, thread.group}
        \/ saved[d].pending = [group |-> saved[d].group, previous |-> thread.group]

\* A stored group that is not a candidate any more is one the server took, also
\* when the answer was lost, the request came late or another was taken first:
\* nothing is sent in a group that no one else can be in.
GroupsTaken ==
    \A d \in Devices :
        saved[d].group # 0 /\ saved[d].pending = None => saved[d].group \in thread.taken

\* While a conversation is not ready, each device that is started now has stored
\* the server's group, or has a Welcome that fits what it has stored, or may
\* replace the group when its deadline has passed.
Recoverable ==
    thread.group # 0 /\ ~Ready =>
        \A d \in {e \in Devices : local[e].at = "off"} :
            LET s == saved[d]
                candidate == s.pending # None /\ s.pending.group = s.group
            IN  \/ s.group \in {0, thread.group}
                \/ candidate /\ s.pending.previous = thread.group
                \/ \E w \in thread.waiting :
                      /\ w.to = d
                      /\ \/ s.group = w.replaces
                         \/ candidate /\ s.pending.previous = w.replaces
=============================================================================
