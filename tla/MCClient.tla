----------------------------- MODULE MCClient -----------------------------
(***************************************************************************)
(* Components that share no state, checked in one run: a behaviour is a    *)
(* behaviour of one of them, chosen at its start, beside the others at     *)
(* rest.                                                                   *)
(***************************************************************************)
EXTENDS MatrixSession, TLC

CONSTANTS
    p1, p2,     \* the two pages, tabs, calls, messages or devices of the component that moves
    r1, r2,     \* records
    Absent, Nothing, Torn

VARIABLES
    focus,                                  \* the component that moves
    store, op, torn,                        \* MessageStore
    rows, epoch, saves, clears, tab,        \* DeviceDownloads
    backend, token, generation, cache, bytes, requests, call, known, lent,    \* ApiCache
    counts, account, asked, badge,          \* NotificationBadge
    position, ops, writes, success, consent,    \* ConnectLocation
    stored, handle, room, told,             \* MatrixOutbox
    deleted, events, aware, revisions, listing, visit   \* MessagingSurface

Store == INSTANCE MessageStore WITH
    Stores <- Pages, Threads <- {1}, Records <- {r1, r2},
    Contents <- {<<>>, <<r1, r1>>, <<r2, r1, r2>>},
    ChunkSize <- 2, Exclusive <- TRUE, HonestCallers <- FALSE, MaxRevision <- 2,
    disk <- store

Outbox == INSTANCE MatrixOutbox WITH
    Ids <- Pages, MaxItems <- 1

\* Two messages of a conversation, and two conversations of one message.
Surface == INSTANCE MessagingSurface WITH
    Messages <- {<<r1, 1>>, <<r1, 2>>}, Calls <- Pages,
    MaxSessions <- 1, MaxPages <- 2, MaxRevision <- 2,
    session <- listing, call <- visit, known <- aware
Surfaces == INSTANCE MessagingSurface WITH
    Messages <- {<<r1, 1>>, <<r2, 1>>}, Calls <- Pages,
    MaxSessions <- 2, MaxPages <- 1, MaxRevision <- 1,
    session <- listing, call <- visit, known <- aware

\* Two tabs that download, one of which clears, with room for one track; and one
\* tab that does it all.
TwoTabs == INSTANCE DeviceDownloads WITH
    Tabs <- {r1, r2}, Keys <- Pages, MaxRows <- 1, MaxSaves <- 2, MaxClears <- 1,
    Done <- [t \in {r1, r2} |-> IF t = r1 THEN {"download"} ELSE {"download", "clear"}]
OneTab == INSTANCE DeviceDownloads WITH
    Tabs <- {r1}, Keys <- Pages, MaxRows <- 2, MaxSaves <- 1, MaxClears <- 1,
    Done <- [t \in {r1} |-> {"load", "download", "repair", "remove", "clear"}]

Api == INSTANCE ApiCache WITH
    Calls <- Pages, Urls <- {r1}, MaxEntries <- 1, MaxBytes <- 1,
    MaxVersion <- 1, MaxSession <- 1, server <- backend, session <- token

Badge == INSTANCE NotificationBadge WITH
    MaxChange <- 1, MaxSession <- 2,
    server <- counts, session <- account, requests <- asked

Location == INSTANCE ConnectLocation WITH
    Accounts <- Pages, MaxGeneration <- 3, sync <- position, stored <- success

-----------------------------------------------------------------------------
storeVars == <<store, op, torn>>
outboxVars == <<stored, handle, room, told>>
surfaceVars == <<deleted, events, aware, revisions, listing, visit>>
tabVars == <<rows, epoch, saves, clears, tab>>
apiVars == <<backend, token, generation, cache, bytes, requests, call, known, lent>>
badgeVars == <<counts, account, asked, badge>>
locationVars == <<position, ops, writes, success, consent>>
clientVars == <<vars, storeVars, outboxVars, surfaceVars, tabVars, apiVars, badgeVars, locationVars>>

\* The variables of the components that do not move have no value.
StoreOff == store = None /\ op = None /\ torn = None
OutboxOff == stored = None /\ handle = None /\ room = None /\ told = None
SurfaceOff ==
    /\ deleted = None /\ events = None /\ aware = None
    /\ revisions = None /\ listing = None /\ visit = None
TabOff == rows = None /\ epoch = None /\ saves = None /\ clears = None /\ tab = None
ApiOff ==
    /\ backend = None /\ token = None /\ generation = None /\ cache = None
    /\ bytes = None /\ requests = None /\ call = None /\ known = None /\ lent = None
BadgeOff == counts = None /\ account = None /\ asked = None /\ badge = None
LocationOff ==
    /\ position = None /\ ops = None /\ writes = None /\ success = None /\ consent = None

ClientInit ==
    /\ Init
    /\ focus \in {"session", "store", "outbox", "surface", "surfaces",
                  "tabs", "tab", "api", "badge", "location"}
    /\ IF focus = "store" THEN Store!Init ELSE StoreOff
    /\ IF focus = "outbox" THEN Outbox!Init ELSE OutboxOff
    /\ CASE focus = "surface" -> Surface!Init
         [] focus = "surfaces" -> Surfaces!Init
         [] OTHER -> SurfaceOff
    /\ CASE focus = "tabs" -> TwoTabs!Init
         [] focus = "tab" -> OneTab!Init
         [] OTHER -> TabOff
    /\ IF focus = "api" THEN Api!Init ELSE ApiOff
    /\ IF focus = "badge" THEN Badge!Init ELSE BadgeOff
    /\ IF focus = "location" THEN Location!Init ELSE LocationOff

\* What moves, and that nothing else does.
ClientNext ==
    /\ UNCHANGED focus
    /\ focus # "session" => UNCHANGED vars
    /\ focus # "store" => UNCHANGED storeVars
    /\ focus # "outbox" => UNCHANGED outboxVars
    /\ focus \notin {"surface", "surfaces"} => UNCHANGED surfaceVars
    /\ focus \notin {"tabs", "tab"} => UNCHANGED tabVars
    /\ focus # "api" => UNCHANGED apiVars
    /\ focus # "badge" => UNCHANGED badgeVars
    /\ focus # "location" => UNCHANGED locationVars
    /\ \/ focus = "session" /\ Next
       \/ focus = "store" /\ Store!Next
       \/ focus = "outbox" /\ Outbox!Next
       \/ focus = "surface" /\ Surface!Next
       \/ focus = "surfaces" /\ Surfaces!Next
       \/ focus = "tabs" /\ TwoTabs!Next
       \/ focus = "tab" /\ OneTab!Next
       \/ focus = "api" /\ Api!Next
       \/ focus = "badge" /\ Badge!Next
       \/ focus = "location" /\ Location!Next

ClientSpec == ClientInit /\ [][ClientNext]_<<focus, clientVars>>

Symmetry == Permutations(Pages)
-----------------------------------------------------------------------------
(* The properties of the components; each is stated in its module. *)

\* In two tabs that exclude each other, whatever the callers' hints say, a load
\* leaves no orphan.
StoreSweepsOrphans == focus = "store" => Store!LoadSweepsOrphans

\* With two messages and a queue of one, what a call has admitted stays queued
\* until the server was told of its event.
OutboxOwed == [][focus = "outbox" => Outbox!KeptUntilTold]_<<focus, outboxVars>>

\* What is opened, or comes back from a deletion, shows nothing this device
\* knows to be deleted, nor does the snapshot of the list, and an older page of
\* the list does not replace the snapshot of a newer one.
SurfaceReturns ==
    [][/\ focus = "surface" =>
            Surface!ReturnsUndeleted /\ Surface!SnapshotsAdvance /\ Surface!SnapshotUndeleted'
       /\ focus = "surfaces" => Surfaces!ReturnsUndeleted /\ Surfaces!SnapshotUndeleted'
      ]_<<focus, surfaceVars>>

\* Tabs that clear and download at once store no track a clearing has been after,
\* nor more than there is room for, and one tab shows what is stored.
DownloadsKept ==
    /\ focus = "tabs" => TwoTabs!NoneResurrected
    /\ focus = "tab" => OneTab!NoneResurrected /\ OneTab!ShownStored

\* However late the answers come, what is served from the cache was asked for in
\* the session at hand and is of it, unless a caller sent another session's token
\* itself under the same address and generation; what is counted on the badge,
\* sent or stored of the position is of the account and session at hand; and none
\* of it is older than what the app has asked for or done.
SessionsApart ==
    /\ focus = "api" => Api!ServedFresh /\ Api!SizeFits
    /\ focus = "badge" => Badge!ShownOfSession /\ Badge!AskedIsShown
    /\ focus = "location" => Location!OwnerIsCurrent /\ Location!DisabledForgets
=============================================================================
