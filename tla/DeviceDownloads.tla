-------------------------- MODULE DeviceDownloads --------------------------
(***************************************************************************)
(* Music kept on the device (music/deviceDownloads.ts over the IndexedDB   *)
(* of downloadStorage.web.ts), in the tabs of one browser.                 *)
(*                                                                         *)
(* A tab shows a copy of the stored rows.  A transaction of the database   *)
(* is one step and its completion, which changes the copy, another; what a *)
(* tab does without waiting is part of the step that leads there.  A row   *)
(* stands for a track of unit size; audio and covers are abstracted.       *)
(***************************************************************************)
EXTENDS Naturals, FiniteSets

CONSTANTS
    Tabs,
    Keys,           \* tracks: downloadIdentity
    None,           \* no row, nothing under way
    MaxRows,        \* MAX_DEVICE_DOWNLOADS, which stands for the bytes too
    Done,           \* bound: what the user does in each tab
    MaxSaves,       \* bound: downloads begun
    MaxClears       \* bound: clearings begun

VARIABLES
    rows,   \* the store tracks: by key, a row or None
    epoch,  \* the record epoch of the store control
    saves,  \* Date.now() as far as savedAt tells rows apart
    clears, \* clearings begun
    tab     \* the module's state in each tab

vars == <<rows, epoch, saves, clears, tab>>

\* The epoch of a row is a ghost: the one its download has read.
Row(saved, e) == [saved |-> saved, repaired |-> FALSE, epoch |-> e]
NoRows == [k \in Keys |-> None]
Of(r) == {k \in Keys : r[k] # None}

Init ==
    /\ rows \in [Keys -> {None, Row(0, 0)}] /\ Cardinality(Of(rows)) <= MaxRows
    /\ epoch = 0 /\ saves = 0 /\ clears = 0
    /\ tab = [t \in Tabs |->
        [ready |-> FALSE, error |-> FALSE, items |-> NoRows,    \* snapshot
         load |-> None, transfer |-> None, repair |-> None,
         removing |-> [k \in Keys |-> "no"], clearing |-> None]]

Become(t, s) == tab' = [tab EXCEPT ![t] = s]

\* A tab's transactions complete in the order they run in.
Settled(t) ==
    LET s == tab[t] IN
    /\ s.load # None => s.load.at # "read"
    /\ s.transfer # None => s.transfer.at # "committed"
    /\ s.repair # None => s.repair.at # "written"
    /\ s.clearing # None => s.clearing.at # "cleared"
    /\ \A k \in Keys : s.removing[k] # "done"

\* revision += 1: a load under way will not be shown.
Bumped(s) == IF s.load = None THEN s ELSE [s EXCEPT !.load.shown = FALSE]
-----------------------------------------------------------------------------
(* loadDeviceDownloads *)

Loading(s) ==
    IF s.load # None THEN s
    ELSE [s EXCEPT !.load = [at |-> "asked", shown |-> TRUE, rows |-> NoRows]]

Load(t) ==
    /\ "load" \in Done[t] /\ tab[t].load = None
    /\ Become(t, Loading(tab[t]))
    /\ UNCHANGED <<rows, epoch, saves, clears>>

ListRuns(t) ==
    /\ Settled(t) /\ tab[t].load # None /\ tab[t].load.at = "asked"
    /\ tab' = [tab EXCEPT ![t].load = [@ EXCEPT !.at = "read", !.rows = rows]]
    /\ UNCHANGED <<rows, epoch, saves, clears>>

\* Who waits for a load goes on: a transfer looks whether the track is there and
\* whether there is room; a clearing that has failed ends.
Waited(s) ==
    LET k == s.transfer.key
        after == IF s.transfer = None \/ s.transfer.at # "loading" THEN s
             ELSE IF s.error \/ s.items[k] # None \/ Cardinality(Of(s.items)) >= MaxRows
             THEN [s EXCEPT !.transfer = None]
             ELSE [s EXCEPT !.transfer.at = "resolving"]
    IN IF after.clearing = None THEN after
       ELSE IF after.clearing.at = "failed" THEN [after EXCEPT !.clearing = None]
       ELSE [after EXCEPT !.clearing.waits = FALSE]

LoadEnds(t, ok) ==
    LET s == tab[t]
        after == IF ~s.load.shown THEN s
             ELSE IF ok THEN [s EXCEPT !.ready = TRUE, !.error = FALSE, !.items = s.load.rows]
             ELSE [s EXCEPT !.ready = TRUE, !.error = TRUE]
    IN /\ s.load # None /\ (ok => s.load.at = "read")
       /\ Become(t, Waited([after EXCEPT !.load = None]))
       /\ UNCHANGED <<rows, epoch, saves, clears>>
-----------------------------------------------------------------------------
(* startDeviceDownload, performDeviceDownload, downloadStorage.save *)

Start(t, k) ==
    /\ "download" \in Done[t]
    /\ tab[t].clearing = None /\ tab[t].transfer = None /\ tab[t].items[k] = None
    /\ Become(t, Loading([tab[t] EXCEPT !.transfer =
            [key |-> k, at |-> "loading", aborted |-> FALSE, row |-> None]]))
    /\ UNCHANGED <<rows, epoch, saves, clears>>

Transferring(t, at) == tab[t].transfer # None /\ tab[t].transfer.at = at

\* The description is there or is done without, and the epoch is read.
ReadEpoch(t) ==
    /\ Transferring(t, "resolving") /\ saves < MaxSaves
    /\ saves' = saves + 1
    /\ tab' = [tab EXCEPT ![t].transfer = [@ EXCEPT !.at = "fetching", !.row = Row(saves', epoch)]]
    /\ UNCHANGED <<rows, epoch, clears>>

\* assertDownloadActive: from here an abort comes too late.
Fetched(t) ==
    /\ Transferring(t, "fetching") /\ ~tab[t].transfer.aborted
    /\ tab' = [tab EXCEPT ![t].transfer.at = "committing"]
    /\ UNCHANGED <<rows, epoch, saves, clears>>

\* The epoch is not compared.
MutCommit(t) ==
    /\ Settled(t) /\ Transferring(t, "committing")
    /\ LET s == tab[t].transfer IN
        IF Cardinality(Of(rows) \ {s.key}) >= MaxRows
        THEN tab' = [tab EXCEPT ![t].transfer = None] /\ UNCHANGED rows
        ELSE tab' = [tab EXCEPT ![t].transfer.at = "committed"] /\ rows' = [rows EXCEPT ![s.key] = s.row]
    /\ UNCHANGED <<epoch, saves, clears>>

Commit(t) ==
    /\ Settled(t) /\ Transferring(t, "committing")
    /\ LET s == tab[t].transfer IN
        IF s.row.epoch # epoch \/ Cardinality(Of(rows) \ {s.key}) >= MaxRows
        THEN tab' = [tab EXCEPT ![t].transfer = None] /\ UNCHANGED rows
        ELSE tab' = [tab EXCEPT ![t].transfer.at = "committed"] /\ rows' = [rows EXCEPT ![s.key] = s.row]
    /\ UNCHANGED <<epoch, saves, clears>>

Committed(t) ==
    /\ Transferring(t, "committed")
    /\ LET s == tab[t] IN
        Become(t, Bumped([s EXCEPT !.items[s.transfer.key] = s.transfer.row, !.transfer = None]))
    /\ UNCHANGED <<rows, epoch, saves, clears>>

TransferFails(t) ==
    /\ \E at \in {"resolving", "fetching", "committing"} : Transferring(t, at)
    /\ tab' = [tab EXCEPT ![t].transfer = None]
    /\ UNCHANGED <<rows, epoch, saves, clears>>
-----------------------------------------------------------------------------
(* repairDeviceDownloads, downloadStorage.repair *)

Repair(t) ==
    LET s == tab[t]
        left == {k \in Of(s.items) : ~s.items[k].repaired}
    IN /\ "repair" \in Done[t] /\ s.clearing = None /\ s.repair = None /\ left # {}
       /\ Become(t, [s EXCEPT !.repair =
            [left |-> [k \in left |-> s.items[k]], key |-> None, at |-> "next", aborted |-> FALSE]])
       /\ UNCHANGED <<rows, epoch, saves, clears>>

Repairing(t, at) == tab[t].repair # None /\ tab[t].repair.at = at

\* The row must still be the one that was listed.
RepairReads(t, k) ==
    /\ Repairing(t, "next") /\ k \in DOMAIN tab[t].repair.left /\ ~tab[t].repair.aborted
    /\ rows[k] # None /\ rows[k].saved = tab[t].repair.left[k].saved
    /\ tab' = [tab EXCEPT ![t].repair = [@ EXCEPT !.at = "fetching", !.key = k]]
    /\ UNCHANGED <<rows, epoch, saves, clears>>

Without(f, k) == [x \in DOMAIN f \ {k} |-> f[x]]

RepairSkips(t, k) ==
    /\ Repairing(t, "next") /\ k \in DOMAIN tab[t].repair.left
    /\ tab' = [tab EXCEPT ![t].repair.left = Without(@, k)]
    /\ UNCHANGED <<rows, epoch, saves, clears>>

RepairWrites(t) ==
    /\ Settled(t) /\ Repairing(t, "fetching") /\ ~tab[t].repair.aborted
    /\ LET s == tab[t].repair IN
        IF rows[s.key] # None /\ rows[s.key].saved = s.left[s.key].saved
        THEN /\ rows' = [rows EXCEPT ![s.key].repaired = TRUE]
             /\ tab' = [tab EXCEPT ![t].repair.at = "written"]
        ELSE /\ tab' = [tab EXCEPT ![t].repair =
                                    [s EXCEPT !.at = "next", !.left = Without(s.left, s.key)]]
             /\ UNCHANGED rows
    /\ UNCHANGED <<epoch, saves, clears>>

Repaired(t) ==
    /\ Repairing(t, "written")
    /\ LET s == tab[t]
           k == s.repair.key
           after == [s EXCEPT !.repair =
                        [s.repair EXCEPT !.at = "next", !.left = Without(s.repair.left, k)]]
       IN IF ~s.repair.aborted /\ s.items[k] # None /\ s.items[k].saved = s.repair.left[k].saved
          THEN Become(t, Bumped([after EXCEPT !.items[k].repaired = TRUE]))
          ELSE Become(t, after)
    /\ UNCHANGED <<rows, epoch, saves, clears>>

\* Nothing is left, the signal is aborted, or something has failed.
RepairEnds(t) ==
    /\ tab[t].repair # None /\ tab[t].repair.at \in {"next", "fetching"}
    /\ tab' = [tab EXCEPT ![t].repair = None]
    /\ UNCHANGED <<rows, epoch, saves, clears>>

\* cancelDeviceDownload; the screen that repairs is left.
AbortedIn(s) ==
    [s EXCEPT !.transfer = IF @ = None THEN @ ELSE [@ EXCEPT !.aborted = TRUE],
              !.repair = IF @ = None THEN @ ELSE [@ EXCEPT !.aborted = TRUE]]
Cancel(t) ==
    /\ \/ /\ tab[t].transfer # None
          /\ tab' = [tab EXCEPT ![t].transfer.aborted = TRUE]
       \/ /\ tab[t].repair # None
          /\ tab' = [tab EXCEPT ![t].repair.aborted = TRUE]
    /\ UNCHANGED <<rows, epoch, saves, clears>>
-----------------------------------------------------------------------------
(* removeDeviceDownload, clearDeviceDownloads *)

Remove(t, k) ==
    /\ "remove" \in Done[t]
    /\ tab[t].clearing = None /\ tab[t].items[k] # None /\ tab[t].removing[k] = "no"
    /\ tab' = [tab EXCEPT ![t].removing[k] = "asked"]
    /\ UNCHANGED <<rows, epoch, saves, clears>>

RemoveRuns(t, k) ==
    /\ Settled(t) /\ tab[t].removing[k] = "asked"
    /\ \/ rows' = [rows EXCEPT ![k] = None] /\ tab' = [tab EXCEPT ![t].removing[k] = "done"]
       \/ UNCHANGED rows /\ tab' = [tab EXCEPT ![t].removing[k] = "no"]     \* fails
    /\ UNCHANGED <<epoch, saves, clears>>

Removed(t, k) ==
    /\ tab[t].removing[k] = "done"
    /\ Become(t, Bumped([tab[t] EXCEPT !.removing[k] = "no", !.items[k] = None]))
    /\ UNCHANGED <<rows, epoch, saves, clears>>

\* The screen offers it when it shows what was loaded.
Clear(t) ==
    /\ "clear" \in Done[t] /\ tab[t].ready /\ tab[t].clearing = None /\ clears < MaxClears
    /\ clears' = clears + 1
    /\ Become(t, AbortedIn(Bumped([tab[t] EXCEPT
            !.clearing = [at |-> "draining", waits |-> tab[t].load # None]])))
    /\ UNCHANGED <<rows, epoch, saves>>

Clearing(t, at) == tab[t].clearing # None /\ tab[t].clearing.at = at

\* What was under way has ended, whatever its outcome.
Drained(t) ==
    /\ Clearing(t, "draining") /\ ~tab[t].clearing.waits
    /\ tab[t].transfer = None /\ tab[t].repair = None

ClearRuns(t) ==
    /\ Settled(t) /\ Drained(t)
    /\ epoch' = epoch + 1 /\ rows' = NoRows
    /\ tab' = [tab EXCEPT ![t].clearing.at = "cleared"]
    /\ UNCHANGED <<saves, clears>>

Cleared(t) ==
    /\ Clearing(t, "cleared")
    /\ Become(t, Bumped([tab[t] EXCEPT
            !.ready = TRUE, !.error = FALSE, !.items = NoRows, !.clearing = None]))
    /\ UNCHANGED <<rows, epoch, saves, clears>>

ClearFails(t) ==
    /\ Drained(t)
    /\ Become(t, Loading(Bumped([tab[t] EXCEPT !.clearing.at = "failed"])))
    /\ UNCHANGED <<rows, epoch, saves, clears>>

Next ==
    \E t \in Tabs :
        \/ Load(t) \/ ListRuns(t) \/ \E ok \in BOOLEAN : LoadEnds(t, ok)
        \/ \E k \in Keys : Start(t, k)
        \/ ReadEpoch(t) \/ Fetched(t) \/ Commit(t) \/ Committed(t) \/ TransferFails(t) \/ Cancel(t)
        \/ Repair(t) \/ RepairWrites(t) \/ Repaired(t) \/ RepairEnds(t)
        \/ \E k \in Keys : RepairReads(t, k) \/ RepairSkips(t, k)
        \/ \E k \in Keys : Remove(t, k) \/ RemoveRuns(t, k) \/ Removed(t, k)
        \/ Clear(t) \/ ClearRuns(t) \/ Cleared(t) \/ ClearFails(t)

Spec == Init /\ [][Next]_vars
-----------------------------------------------------------------------------
\* In whatever tabs, no stored row is older than the last clearing, the epoch of
\* which its download has not seen, and the tabs together keep to the capacity.
NoneResurrected ==
    /\ \A k \in Of(rows) : rows[k].epoch = epoch
    /\ Cardinality(Of(rows)) <= MaxRows

\* A tab alone, once it has loaded and nothing is under way, shows what is stored.
Quiet(s) ==
    /\ s.ready /\ ~s.error
    /\ s.load = None /\ s.transfer = None /\ s.repair = None /\ s.clearing = None
    /\ \A k \in Keys : s.removing[k] = "no"
ShownStored ==
    Cardinality(Tabs) = 1 => \A t \in Tabs : Quiet(tab[t]) =>
        \A k \in Keys : IF rows[k] = None THEN tab[t].items[k] = None
                        ELSE tab[t].items[k] # None /\ tab[t].items[k].saved = rows[k].saved
=============================================================================
