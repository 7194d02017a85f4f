------------------------ MODULE MCOutboxDirectory ------------------------
(***************************************************************************)
(* The outbox with one message, the key directory with two witnesses and   *)
(* two clients, and a monitor with two observers; they share no state.  A  *)
(* behaviour is a behaviour of one of them, beside the others at rest.     *)
(***************************************************************************)
EXTENDS MatrixOutbox, DirectoryGossip

CONSTANTS
    i1,             \* the message
    w1, w2,         \* witnesses
    c1, c2,         \* clients, and the observers of a monitor
    k1, k2,         \* identity keys
    e1, e2, e3      \* entries

VARIABLE focus      \* the component that moves

\* A list, two that continue it, and another identity's.
ShownDirectories ==
    [identity : {k1}, entries : {<<e1>>, <<e1, e2>>, <<e1, e3>>}]
        \union [identity : {k2}, entries : {<<>>}]

FocusInit ==
    /\ focus \in {"outbox", "directory", "gossip"}
    /\ Init /\ DirectoryInit /\ GossipInit

FocusNext ==
    /\ UNCHANGED focus
    /\ \/ focus = "outbox" /\ Next /\ UNCHANGED <<directoryVars, gossipVars>>
       \/ focus = "directory" /\ DirectoryNext /\ UNCHANGED <<vars, gossipVars>>
       \/ focus = "gossip" /\ GossipNext /\ UNCHANGED <<vars, directoryVars>>

\* The fairness is the outbox's; of the others only safety is asked.
FocusSpec ==
    /\ FocusInit
    /\ [][FocusNext]_<<focus, vars, directoryVars, gossipVars>>
    /\ focus = "outbox" => Fairness
=============================================================================
