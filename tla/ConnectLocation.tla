-------------------------- MODULE ConnectLocation --------------------------
(***************************************************************************)
(* The location shared with Connect (location/connectLocationSync.ts, with *)
(* its dependencies of connectLocation.ts and its use in                   *)
(* useConnectLocationSync.ts): one operation at a time finds the position, *)
(* publishes it and stores when it last succeeded, while the account, its  *)
(* consent and the app's visibility change.                                *)
(*                                                                         *)
(* A time is "recent", as long as it holds back the next operation, or     *)
(* "old".                                                                  *)
(***************************************************************************)
EXTENDS Naturals, Sequences

CONSTANTS
    Accounts,
    None,           \* no session, no operation, no time
    MaxGeneration   \* bound: cancellations

VARIABLES
    sync,       \* the module's state, and whether the app is in the foreground
    ops,        \* operations under way, the pending one and the aborted ones
    writes,     \* storageWrites: what is left of the chain
    stored,     \* AsyncStorage: the last success, by account
    consent     \* ghost: what each account was last configured with

vars == <<sync, ops, writes, stored, consent>>

Times == {None, "recent", "old"}

Init ==
    /\ sync = [session |-> None, generation |-> 0, lastAttempt |-> None, success |-> None,
               pending |-> None, foreground |-> TRUE]
    /\ ops = {} /\ writes = <<>>
    /\ stored \in [Accounts -> Times]
    /\ consent = [a \in Accounts |-> None]

\* cancel: the pending operation goes on, aborted.
Cancelled(s) ==
    [s EXCEPT !.generation = @ + 1, !.pending = None, !.lastAttempt = None]

\* current(): the generation tells an aborted operation too.
Current(op) == op.generation = sync.generation /\ sync.foreground
Ended(op) ==
    /\ ops' = ops \ {op}
    /\ sync' = [sync EXCEPT !.pending = IF @ = op.generation THEN None ELSE @]
Goes(op, at) == ops' = (ops \ {op}) \cup {[op EXCEPT !.at = at]}
-----------------------------------------------------------------------------
Persisted(a, time) == Append(writes, [account |-> a, time |-> time])

\* configure, for a session (an account and its consent) or for none
Configure(a, enabled) ==
    /\ sync.generation < MaxGeneration
    /\ sync' = [Cancelled(sync) EXCEPT !.success = None,
                    !.session = IF a = None THEN None ELSE [account |-> a, enabled |-> enabled]]
    /\ IF a = None THEN UNCHANGED <<writes, consent>>
       ELSE /\ consent' = [consent EXCEPT ![a] = enabled]
            /\ writes' = IF enabled THEN writes ELSE Persisted(a, None)
    /\ UNCHANGED <<ops, stored>>

\* The app is hidden: useConnectLocationSync cancels, while it is configured so.
Hide ==
    /\ sync.foreground /\ sync.generation < MaxGeneration
    /\ sync' = [IF sync.session # None /\ sync.session.enabled THEN Cancelled(sync) ELSE sync
                    EXCEPT !.foreground = FALSE]
    /\ UNCHANGED <<ops, writes, stored, consent>>

Show ==
    /\ ~sync.foreground
    /\ sync' = [sync EXCEPT !.foreground = TRUE]
    /\ UNCHANGED <<ops, writes, stored, consent>>

\* refresh: it waits for the writes there are.  There is one operation of a
\* generation, which names it in pending.
Refresh ==
    /\ sync.session # None /\ sync.session.enabled /\ sync.foreground /\ sync.pending = None
    /\ \A op \in ops : op.generation # sync.generation
    /\ sync' = [sync EXCEPT !.pending = sync.generation]
    /\ ops' = ops \cup {[generation |-> sync.generation, account |-> sync.session.account,
                         at |-> "waiting", behind |-> Len(writes)]}
    /\ UNCHANGED <<writes, stored, consent>>

\* What is stored is read, and the operation ends where it need not go on.
Read(op) ==
    /\ op.at = "waiting" /\ op.behind = 0
    /\ IF /\ Current(op)
          /\ "recent" \notin {sync.success, stored[op.account], sync.lastAttempt}
       THEN /\ Goes(op, "permission")
            /\ sync' = [sync EXCEPT !.lastAttempt = "recent"]
       ELSE Ended(op)
    /\ UNCHANGED <<writes, stored, consent>>

\* hasPermission, then locate, come back: what follows is only for the operation
\* that is current still.
Permitted(op) ==
    /\ op.at = "permission"
    /\ IF Current(op) THEN Goes(op, "locating") /\ UNCHANGED sync ELSE Ended(op)
    /\ UNCHANGED <<writes, stored, consent>>

Located(op) ==
    /\ op.at = "locating"
    /\ IF Current(op) THEN Goes(op, "publishing") /\ UNCHANGED sync ELSE Ended(op)
    /\ UNCHANGED <<writes, stored, consent>>

\* The server has taken the position.
Published(op) ==
    /\ op.at = "publishing"
    /\ IF Current(op)
       THEN /\ sync' = [sync EXCEPT !.success = "recent"]
            /\ writes' = Persisted(op.account, "recent")
            /\ ops' = (ops \ {op}) \cup {[op EXCEPT !.at = "persisting", !.behind = Len(writes')]}
       ELSE Ended(op) /\ UNCHANGED writes
    /\ UNCHANGED <<stored, consent>>

\* No permission, no position in time, a refusal or no answer; or it is stored.
Ends(op) ==
    /\ op.at \in {"permission", "locating", "publishing"} \/ (op.at = "persisting" /\ op.behind = 0)
    /\ Ended(op)
    /\ UNCHANGED <<writes, stored, consent>>

\* The first write of the chain ends.  After one that failed the ghost knows
\* nothing of the account.
Written(ok) ==
    /\ writes # <<>>
    /\ writes' = Tail(writes)
    /\ ops' = {[op EXCEPT !.behind = IF @ = 0 THEN 0 ELSE @ - 1] : op \in ops}
    /\ LET w == Head(writes) IN
        IF ok THEN stored' = [stored EXCEPT ![w.account] = w.time] /\ UNCHANGED consent
        ELSE consent' = [consent EXCEPT ![w.account] = None] /\ UNCHANGED stored
    /\ UNCHANGED sync

\* retryDelayMs, and connectLocationRefreshMs, have passed.
AttemptAges ==
    /\ sync.lastAttempt = "recent"
    /\ sync' = [sync EXCEPT !.lastAttempt = "old"]
    /\ UNCHANGED <<ops, writes, stored, consent>>

Aged(time) == IF time = None THEN None ELSE "old"
SuccessAges ==
    /\ sync' = [sync EXCEPT !.success = Aged(@)]
    /\ stored' = [a \in Accounts |-> Aged(stored[a])]
    /\ writes' = [i \in DOMAIN writes |-> [writes[i] EXCEPT !.time = Aged(@)]]
    /\ UNCHANGED <<ops, consent>>

Next ==
    \/ \E a \in Accounts, enabled \in BOOLEAN : Configure(a, enabled)
    \/ Configure(None, FALSE)
    \/ Hide \/ Show \/ Refresh
    \/ \E op \in ops : Read(op) \/ Permitted(op) \/ Located(op) \/ Published(op) \/ Ends(op)
    \/ \E ok \in BOOLEAN : Written(ok)
    \/ AttemptAges \/ SuccessAges

Spec == Init /\ [][Next]_vars
-----------------------------------------------------------------------------
\* An operation that still takes itself for the current one, which lets it send
\* the position, is of the account the app is configured with, and has its consent.
OwnerIsCurrent ==
    \A op \in ops : Current(op) =>
        sync.session = [account |-> op.account, enabled |-> TRUE]

\* Once the writes are done, nothing is stored for an account that has withdrawn
\* its consent, whatever was being published or stored at the time.
DisabledForgets ==
    writes = <<>> => \A a \in Accounts : consent[a] = FALSE => stored[a] = None
=============================================================================
