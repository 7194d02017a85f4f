--------------------------- MODULE MCMembership ---------------------------
(***************************************************************************)
(* How devices come into a conversation and into an account: ThreadRekey,  *)
(* ThreadActivation and DeviceTransfer, which share no state here.  A      *)
(* behaviour is a behaviour of one of them, beside the others at rest.     *)
(***************************************************************************)
EXTENDS ThreadRekey, TLC

CONSTANTS
    d1, d2, d3,     \* the devices; the first two are alike
    r1, r2, r3      \* records of a history

VARIABLES
    focus,                                      \* the component that moves
    local, saved, thread, requests, made,       \* ThreadActivation
    sessions, source, target                    \* DeviceTransfer

Activation == INSTANCE ThreadActivation WITH
    Devices <- {d1, d2}, MaxGroups <- 3, MaxExpiries <- 1

\* While a record comes, and of two sessions the first of which is given up.
Transfer == INSTANCE DeviceTransfer WITH
    History <- <<r1, r2>>, Coming <- {r3}, MaxSessions <- 1, MaxLives <- 3
Transfers == INSTANCE DeviceTransfer WITH
    History <- <<r1, r2>>, Coming <- {}, MaxSessions <- 2, MaxLives <- 3

activationVars == <<local, saved, thread, requests, made>>
transferVars == <<sessions, source, target>>

\* The variables of the components that do not move have no value.
ActivationOff ==
    local = None /\ saved = None /\ thread = None /\ requests = None /\ made = None
TransferOff == sessions = None /\ source = None /\ target = None

MembershipInit ==
    /\ Init
    /\ \/ focus = "rekey" /\ ActivationOff /\ TransferOff
       \/ focus = "activation" /\ Activation!Init /\ TransferOff
       \/ focus = "transfer" /\ Transfer!Init /\ ActivationOff
       \/ focus = "transfers" /\ Transfers!Init /\ ActivationOff

MembershipNext ==
    /\ UNCHANGED focus
    /\ \/ focus = "rekey" /\ Next /\ UNCHANGED <<activationVars, transferVars>>
       \/ focus = "activation" /\ Activation!Next /\ UNCHANGED <<vars, transferVars>>
       \/ focus = "transfer" /\ Transfer!Next /\ UNCHANGED <<vars, activationVars>>
       \/ focus = "transfers" /\ Transfers!Next /\ UNCHANGED <<vars, activationVars>>

MembershipSpec ==
    MembershipInit /\ [][MembershipNext]_<<focus, vars, activationVars, transferVars>>

Symmetry == Permutations({d1, d2})
-----------------------------------------------------------------------------
(* The properties of the components; each is stated in its module. *)

\* A device that counts as joined keeps the group of the conversation ...
JoinedKeep == focus = "activation" => Activation!JoinedKeep
\* ... and a group that stays was taken by the server.
GroupsTaken == focus = "activation" => Activation!GroupsTaken

\* A device that is registered by a transfer has the history it was owed ...
HistoryArrives ==
    /\ focus = "transfer" => Transfer!HistoryArrives
    /\ focus = "transfers" => Transfers!HistoryArrives
\* ... and what is sent again after a failure is what was sent.
ResumesAsSent ==
    /\ focus = "transfer" => Transfer!ResumesAsSent
    /\ focus = "transfers" => Transfers!ResumesAsSent
=============================================================================
