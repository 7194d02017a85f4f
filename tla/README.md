# Verification of the VOLNA client

TLA+ models of the VOLNA client (`src/`), their model-checking runs and TLAPS
proofs. The subject is the stateful logic of the client: end-to-end encrypted
messaging in `packages/volna-messaging-client` (the MLS protocol `MLS_V1`, which is
behind rollout capabilities, secure-messaging-client.mjs:308-330, and Matrix,
`MATRIX_V1`, which production conversations use), the key directory with its
witness service (`packages/volna-key-directory-witness`), and what the app itself
keeps (`apps/mobile/src`). The VOLNA server, Synapse and the directory service are
not in the repository; they appear only as external actions that do what the
client relies on.

Abbreviations of source files. In `packages/volna-messaging-client/src/`: **C**
secure-messaging-client.mjs, **R** mls-runtime.mjs, **T** opaque-transport.mjs, **S**
encrypted-message-store.mjs, **X** expo-storage-adapter.ts, **H**
expo-secure-messaging.ts, **P** message-projection.mjs, **U**
messaging-surface-controller.mjs, **E** matrix-engine-web.ts, **O**
matrix-store-ownership.mjs, **K** matrix-key-lifecycle.mjs, **F**
matrix-token-refresh.mjs, **G** key-directory-gossip.mjs, **W**
key-directory-witness.mjs, **D** device-transfer.mjs, **UI**
react-native-message-security.tsx. The others are named in full.

## 1. Inventory

### Components that are modelled

**Encrypted message store** (S, over the key-value database of X).
State: an encrypted manifest (one per account), per conversation an index at
some revision, and the chunks it names. Operations: `saveAllThreads` with the
caller's hints of what changed and what only grew, `loadAllThreads` with its
sweep of orphans, `clear`. Each is a sequence of asynchronous storage calls; it
may fail or the process may die between any two. In one store they are
serialized by `runExclusive`; between tabs by Web Locks where the browser has
them. Correct means: a save replaces the committed history in one step or not at
all, and what is committed can always be read.

**Conversation messages** (C `sendEvent`, `deliverPending`, `syncThread`,
`persist`, `restore`, `destroyMemory`; H; P).
State: in memory the projected records, the set of processed envelopes, the
cursor, the outbox, the marks of what changed, the MLS ratchet; on disk the
message store and, apart from it, the encrypted runtime state. Each persist
writes the two one after the other. Calls on the one client object interleave at
every await. The host (H) keeps one client per account, restores it on demand and
releases it on logout. Correct means: a received message is never lost to the
ratchet that decrypted it, a sent one is posted once and kept, a ratchet
generation is used once, and history only grows.

**Conversation membership** (C `reconcileThreadDevices`, `finishPreparedRekey`,
`commitPreparedRekeyLocally`, `retryPendingRekeys`, `joinPendingWelcomes`, and
the COMMIT envelopes of `syncThread`; R `prepareRekey`, `commitPreparedRekey`,
`process`).
State: per device the group (its epoch and secrets) and at most one prepared
rekey of the conversation, in memory and on disk; at the server the epochs
accepted, the rekey operations (PREPARED, COMMITTED, ABORTED, EXPIRED), the
Welcomes not acknowledged; in the directory who is active. Several devices act
at once, requests and answers get lost, a request may arrive after its sender
gave it up, operations expire. Correct means: all devices stay on one chain of
epochs, a device never loses its own accepted Commit, and the members come to be
the active devices.

**Conversation activation** (C:1292-1512, `joinPendingWelcomes` for initial groups).
State: per device the pending activation with its candidate group, at the server the
activation and its expiry. Both partners activate at once, and an activation nobody
joined is recovered. Correct means: one group stays, and a device that joined keeps it.

**Device enrolment and transfer** (C:371-1029, D, UI). State: on both sides a
session with its phase, sequence and hash chain of chunks. Crashes between an upload and the
save of its sequence, expiry, cancellation by either side. Correct means: a device that is
registered has the exported history, and what is sent again after a failure is what was sent.

**Matrix session** (E, O, K, F). State, shared by all tabs: a generation, a lock, the
key fence, the stored credentials and refresh token. Correct means: nothing is
written by an owner of an older generation, a logout is final, a refresh token that was
replaced is never sent again, and every shutdown ends.

**Matrix outbox** (E `sendContentEvent`, `sendPending`, `flushOutbox`,
`deliverNotification`). State: two persisted queues (sends and notification requests). Correct
means: what a call has admitted stays queued until the server was told, and the server is told of events only.

**Messaging surface** (U, chat-visibility). State: the snapshot of the thread list, its
session, the visibility revision, what this device knows to be deleted. Correct means: an answer that
is older than a deletion does not bring the message back.

**Key directory** (C and R `pin…`, T `getDirectory`, W, G, and
`packages/volna-key-directory-witness`). State: the pinned chain per account, each witness's last
head, the monitor's checkpoint. The service may show anybody anything. Correct means: two clients whose quorums share a
witness never accept lists that fork, what is accepted is not older than what was accepted, and the
compare-and-swap of two monitors loses no evidence.

**The app's own state** (`apps/mobile/src`): the cache of API answers (`api/client.ts`), music downloads
(`music/deviceDownloads.ts`), the
notification badge (`notifications/badgeStore.ts`), the position shared by Connect (`location/connectLocationSync.ts`). In each an
answer may come after the session, the account or the generation it was asked for. Correct means: a late result
never counts for a later one, and a clearing is not undone.

### Components that are not modelled

Key packages (their private halves), the transparency log (a wrapper of the Tessera
library), Matrix rooms and signing (calls of the SDK), content validation and media
policy, presentation and the React screens, the native bridge to the Rust SDK, the
Synapse module (its state is Synapse's), telemetry, the OpenMLS experiment. `PROJECT.json`
lists each with the reason. Cryptography (ts-mls, @noble) is outside the repository and
taken as ideal: what is decrypted is what was encrypted, and only at the state it was encrypted for.

### How they interact

`sendEvent`, `syncThread` and the membership operations change memory and call
`persist`, which calls the message store and then exports the runtime's state.
`restore` reads both back, joins waiting Welcomes (C:324), retries prepared rekeys
(C:325) and then the outbox (C:329). The surface controller calls
`joinPendingWelcomes` and `syncThread` when a conversation is opened (U:525-534).
A rekey is begun by a send while one is required (C:1740), by revoking a device
(C:1036), by either side of a device transfer (C:604, C:754) and by activating a
conversation whose members differ from the directory (C:1314-1317). The directory
is read before members are chosen; its pins are part of the runtime's state. A logout of the app ends the
Matrix session, clears the API cache and the position. `PROJECT.json`'s hazards name
the lines where these interactions bite, each with the property that guards it or the reason there is none.

## 2. Modules

| module | models | source |
|---|---|---|
| `AtomicMessageStore` | what the store promises: one content, replaced at one instant | README of the package, "Encrypted local history" |
| `MessageStore`, `MessageStoreProofs` | the store, one storage call per step; implements `AtomicMessageStore` | S, X |
| `ThreadSync`, `ThreadSyncProofs` | one client, one conversation within an epoch | C, H, P, R, S |
| `ThreadRekey`, `MembershipProofs` | all devices of a conversation and the server's epochs | C, R, T, U, H |
| `ThreadActivation`, `ThreadActivationProofs`, `MembershipProofs` | two devices, the first group of a conversation | C, R |
| `DeviceTransfer`, `DeviceTransferProofs`, `MembershipProofs` | source, target and server of device transfers | C, D, UI |
| `MatrixSession`, `ClientProofs` | the pages that share a Matrix session | E, O, K, F |
| `MatrixOutbox`, `OutboxDirectoryProofs` | the two queues of the Matrix engine | E |
| `MessagingSurface`, `AppProofs` | the calls of one surface controller | U |
| `KeyDirectory`, `DirectoryGossip`, `OutboxDirectoryProofs` | clients, witnesses and a directory that may lie; a monitor | T, R, W, G, witness service |
| `ApiCache`, `DeviceDownloads`, `NotificationBadge`, `ConnectLocation`, `AppProofs` | the app's own state | `apps/mobile/src` |
| `MCMessageStore`, `MCThreadSync`, `MCThreadRekey`, `MCThreadActivation`, `MCMatrixSession` | model values, small sets and symmetry for the runs | |
| `MCMembership`, `MCClient`, `MCOutboxDirectory` | several components in one run | |

The modules are cut where the code has an interface. `ThreadSync` uses the store
in its atomic form (`Saved`, `AppendAccepted`), which `MessageStore` is proved
to implement; `ThreadRekey` uses `persist` as one step, `Save`; the group that
wins in `ThreadActivation` is the first link of `ThreadRekey`'s chain.

The three MC modules of several components have a variable `focus`: a behaviour is a
behaviour of one component, chosen at its start, while the others rest. These components share no state, so nothing is
lost against runs of their own.

### MessageStore

`disk` is the database, a function on the keys present; a key is its kind, thread,
revision and position, which is what the code derives it from. `op[s]` is what
store `s` has under way. `BeginSave` is `saveAllThreads` up to its first write:
what it will write, what the next manifest is and which keys it will remove are
functions of what it reads (`NextIndex`, `NextManifest`, `Puts`, `Stale`, one for
each piece of the code). `WriteOne`, `CommitManifest` and `RemoveOne` are single
storage calls; chunks go before their index, threads in order, the manifest
last. `BeginLoad` is `loadAllThreads` and the listing of orphans, `BeginClear`
the listing of `clear`. `Abort` ends an operation anywhere: a rejected storage
call, an append check that throws, a process that dies. All that a store object
remembers is `op`, so a crash is `Abort`.

Reads of one operation are taken together with its beginning: under the lock
nobody writes between them. Without the lock (`Exclusive = FALSE`, X:251, where
`navigator.locks` is missing) this leaves out some interleavings; even so committed records are lost
within a few steps, which is why every property of the store is stated under the lock.

`torn` says that a `clear` has begun and none completed since. The code does not
promise a readable store then, and the invariants hold while `~torn`; `BeginSave`
asks for a readable store then because a client saves only after it loaded.

### ThreadSync

Every action is the code from one await of the network or of storage to the
next; `call[t].pc` says which await a call is at. `BeginSync` takes the call's
copies of the thread (C:1628-1636), `PageArrives` decrypts a page and writes the
copies back (C:1639-1703), `Persisting`, `SaveDone`, `StateWritten` are the three turns of
`persist`, with the clone of the records made in the first and the export of the
ratchet in the second; `queue` is the order in which the saves run. `PersistFails`
empties the client as the code does. A call that outlives `destroyMemory`, or the
failure of another call's persist, goes on as `detached`: its references lead to
an emptied runtime. An envelope is named by its position in the log, a message
by its envelope; a page is bounded by `PageSize`.

`Overlap`, `Release` and `Faults` choose how the host uses the client: calls that
overlap, a release that does not wait, storage that fails. Nothing in the client
prevents any of them.

### ThreadRekey

A group state is the sequence of Commits that led to it; devices share a secret
exactly if the sequences are equal. `dev[d]` is a device's memory and the request
or save its one call is at, `disk[d]` what it stored. `Prepare` to `Abort` follow
`reconcileThreadDevices` and `finishPreparedRekey` request by request, `Join` and `Ack`
`joinPendingWelcomes`, `Sync` the application of one COMMIT envelope. `Crash` is also
a failed persist, which empties the client. What a call read before its request
and would compare after it is not kept: a change in between makes the code throw,
and throwing is always possible here too (`PrepareFails`, `CommitLost`).

External (the server's contract, from how C and T use it): at most one prepared
operation per conversation, handed to whoever asks; it is committed only by an
active device, from the current epoch, to the present roster; a repeated commit
is answered from the record; a 409 is possible at any time; each device added
gets a Welcome, listed until acknowledged. Three facts the repository does not
settle are constants: `OneAtATime` (the server prepares nothing while Welcomes
wait), `OwnApplies` (the MLS library would apply a Commit of its own making, C:1650),
`Calm` (devices are added or revoked only while no Welcome waits). The safety run
takes for each the choice with more behaviours, and the proofs hold for all, except that of `CommittedFits`,
which needs `OwnApplies` FALSE.

### ThreadActivation and DeviceTransfer

`ThreadActivation` follows `activateThread`, `finishActivation`,
`resolveActivationConflict`, `recoverExpiredActivation` and `joinPendingWelcomes` request by request
for two partners; the server gives one initial group per conversation and lets it
expire. The last branch of `resolveActivationConflict` cannot be reached. Key packages are always at hand.

`DeviceTransfer` has the two devices of a transfer, driven as the security screen drives them: the
source approves and uploads chunk after chunk, the target polls, imports, registers, uploads key
packages and finalizes. A cancelled transfer's poll ends at its next step, unless it
is saving; a request reaches the server before its sender gives up. What one meets in following the code, and the
model has: a connect whose answer is lost takes the session's key, so that a second scan is refused and the target must
cancel; once the source approved, an expired or cancelled session makes `continueOutgoing` fail at every
attempt, and the state 'source-progress' has no button to cancel; after a restart of the target in phase
`registered` nothing polls any more (UI:149-183), so `finalizeDeviceTransfer` is not called; a
cancellation that races the registration can leave a registered device without its
keys. A history with more processed envelopes than `MAX_PROCESSED_ENVELOPES_PER_THREAD` fails
`normalizeHistoryTransferPlan` (not modelled).

### MatrixSession and MatrixOutbox

`MatrixSession` has one action for each stretch between awaits of an opening, a refresh, a release and a
logout, in several pages; the storage they share is `lock`, the pending generations and
the records, and a `storage` event reaches a page some time after. A logout of the owner's page never reaches
`client.logout`: the synchronous event that `requestLogout` causes queues the release first
(SECURITY.md:14-15 promises the request; App.tsx:917-921 makes it). The answer to a refresh has a token that replaces the one
sent, or none, and the credentials keep theirs (F:18-22; `Retains` says whether the server may do that).

`MatrixOutbox` follows one message from `sendContentEvent` to the notification of its
event. Both queues are read and written through one change chain; `flushOutbox` reads outside it. A page may close at any
await; an answer may be lost after the server acted. The SDK and the server are external.

### MessagingSurface

Lists, opened conversations and deletions of one controller, with the session they began in and the
visibility revision they compare. A list's own result may still show a message whose deletion
arrived while another conversation of the page was filtered; only the snapshot is protected, and the
properties say so.

### KeyDirectory and DirectoryGossip

A list is its sequence of entries, for its head is the end of a hash chain. The service (external) may
present any list of any identity to anybody. A witness signs what extends its row, through a
compare-and-swap several instances race for; a client pins what a quorum signed. A statement's age is a
nondeterministic refusal. The policy asks only for a threshold of 2, so agreement is stated for quorums that
share a witness. `DirectoryGossip` is a monitor's `observe` with two observers. An honest
witness reads the time before it races for its row (`observedAt`), so it can sign an older time after a newer one, and a
monitor that is shown its statements out of order reports a rollback.

### The app's modules

`ApiCache`: the GET cache with its generation, requests that callers share, and changes. The key of
an entry has no session in it; that it is cleared at each change of session is the point. A caller's own Authorization wins
over the app's token (client.ts:222), and App.tsx sends tokens it took before an await (465-467, 661): a GET of the model is
for any session so far, and `lent` remembers the keys under which it was not the app's. `DeviceDownloads`:
several tabs over IndexedDB; a clearing raises the epoch that downloads under way
compare. In one tab the database completes transactions in order, so the revision check never decides there. `NotificationBadge`: the count with
its revisions, through logins and expired sessions; a 401 that answers an earlier session's request ends the session
of whoever has logged in since (App.tsx:340, 651, 690). `ConnectLocation`: one operation at a time with its
generation, and the chain of storage writes; a removal whose write fails leaves the stored success behind.

## 3. Runs

| run | question | bounds | result |
|---|---|---|---|
| `store_atomic` | does the chunked store implement the atomic one? | two threads with chunks of 1, or one thread with chunks of 2 and five contents (empty, partial, full, full and extended, other prefix); revision <= 2, one store, honest callers | `ImplementsAtomic`, `LongImplementsAtomic`, `StoreInv`, `CommittedReadable`, `TypeOK` hold |
| `sync_serial` | is anything received or sent lost, one call at a time? | 2 sends, 3 messages of others, pages of 2, crashes, storage faults, lost posts | `FreshGenerations`, `PeerKept`, `OwnKept`, `AppendsExtend`, `HistoryGrows`, `PeerDelivered`, `TypeOK` hold |
| `membership` | do devices stay on one chain, does a joined device keep its group, does a history arrive? | rekeys: 3 devices (2 founders), 2 operations, 2 Commits, 1 revocation; activation: 2 devices, 3 groups, 1 expiry; transfer: a history of 2 and one record that comes, or 2 sessions | `NoFork`, `RekeyInv`, `OwnCommitKept`, `NobodyStranded`, `JoinedKeep`, `GroupsTaken`, `HistoryArrives`, `ResumesAsSent`, `TypeOK` hold |
| `rekey_live` | do the devices agree in the end? | the same rekeys, one at a time, calm directory, `OwnApplies` FALSE | `CommittedFits`, `Converges` hold |
| `client` | does anything outlive a logout, a clearing, a change of session; is what was admitted delivered? | Matrix session: 2 pages, 1 logout, 2 logins, 2 tokens, 1 queued shutdown; store: 2 tabs, any hints; outbox: 2 messages, a queue of 1; surface: 2 messages of one conversation, or one of each of two; downloads: 2 tabs, or one that does everything; cache: 2 calls, 1 address, 1 entry, 1 change, tokens of every session so far; badge: 1 change, 2 sessions; location: 2 accounts, 3 generations | `NothingOutlivesLogout`, `NoStaleSession`, `SavedSession`, `NoTokenRespent`, `StoreSweepsOrphans`, `DownloadsKept`, `SessionsApart`, `OutboxOwed`, `SurfaceReturns`, `TypeOK` hold |
| `matrix_live` | does every shutdown end and free the lock? | 2 pages, 1 logout, 1 login, 1 token that is never kept, so that each refresh fails; or 1 page, 2 tokens, which may be kept, 2 queued shutdowns | `OwnersLetGo` holds |
| `outbox_live` | is what is queued delivered; can a lying directory split clients; is evidence kept? | 1 message; 2 witnesses, 2 clients, threshold 2, 4 directories, 2 attempts and 2 fetches; 2 observers, 2 times, 3 observations | `ToldOfEvents`, `ClientsAgree`, `AcceptedIsFresh`, `EvidenceKept`, `Settles`, `TypeOK` hold |
| `sync_overlap` | may a sync and another call overlap? | two calls | `AppendsExtend` violated (finding 1) |
| `sync_release` | may logout come while a call saves? | two calls, release | `IdentitySurvives` violated (finding 2) |
| `rekey_welcome` | does a device that was added join? | the rekeys of `membership` | `AddedJoins` violated (finding 3) |
| `matrix_leftover` | does a logout leave nothing behind? | 2 pages | `LogoutRemoves` violated (finding 4) |
| `activation_stuck` | can every device be started again? | the activation of `membership` | `Recoverable` violated (finding 5) |

Why the bounds are enough. Store: the decisions of `writeThread` are between an
empty, a partial, a full and a following chunk, same or different; the five
contents realise each pair, and revision 2 is the first at which a key may be both
kept and stale. Sync: three
envelopes of others are two pages, so a crash can fall between pages; a second send is what could
repeat a generation. Rekey: with two operations one can be lost, late or expired
while another is committed, and the third device gives a Welcome and a removal.
The bound on Commits is what can stop a device for good; `Converges` and
`AddedJoins` say so (`Exhausted`) instead of hiding it in a guard. A device has one prepared rekey
at a time and late requests are a set, so their number needs no bound. Activation: three groups are one of each partner and one that
replaces the first to expire. Transfer: a history of two is two chunks, so a crash can fall between them, and a second
session is what a stale chunk could reach. Matrix session: the second page is the tab that does not know of the
logout, and a generation after it is enough to be mistaken for the one before. Outbox: with a queue of one the second
message meets a full queue. Surface: two calls are an old answer and what was done since. Directory: two
clients and two witnesses are the least with a quorum that may differ, and the four directories are a
list, two continuations that fork, and another identity's. App: two calls, tabs, sessions or accounts are the one that
is late and the one that came since. The proofs of section 4 cover all other sizes for what they state.

Symmetry is used in safety runs only: of the two pages (tabs, calls, messages) of `client`, and of the two founders.
Deadlock is checked but where the system may stop: the components of `membership`, `client` and
`outbox_live` stop when their bounds are used up or everything is done, and the stuck activation is the finding.

### Fairness

`sync_serial`: the host synchronizes a conversation when it is opened, comes to the
foreground, reconnects or is notified of an envelope (react-native-messages.tsx:705-738,
U:565-570), so again and again for a user who keeps using it, and the app is restarted some
time after a failed save emptied its client; so `Restore` is weakly fair and the calls' steps strongly fair: a call may be killed
by a crash or a fault any number of times, but not for ever. Sends and posts of others
are not fair: users are not.

`rekey_live`: weak fairness of `Progress(d)` for each device, which is what the code
and its host do when nothing fails (saves, answers, opening the conversation, sending
into it while a rekey is required, an app with a prepared rekey being restarted some time, as
only `restore` and a further reconciliation retry one); weak fairness of expiry, which the
operation's deadline gives; and `<>[][~Fault]_vars`: crashes and lost requests end
some time. Without the last nothing can be promised, since every attempt could be the
one that is lost.

`matrix_live`: weak fairness of each page's steps (`Going`, `Refreshing`, `Writing`, `StorageEvent`): promises are
settled, in a page that is not closed, and a browser delivers storage events. Openings, logouts and refreshes are the user's and not fair.

`outbox_live`: weak fairness of the engine's steps, which the outbox runs at each start and
each sync, strong fairness of the SDK's two reads, since the server does not refuse them for ever, and faults and new
sends that end some time. It is stated when the outbox is the component that moves.

## 4. Proofs

| theorem | says | assumes |
|---|---|---|
| `MessageStoreProofs!TypeCorrect` | `[]TypeOK` | |
| `MessageStoreProofs!StoreInvariant`, `CrashConsistency` | `[]StoreInv`, `[]CommittedReadable` | `Exclusive` |
| `MessageStoreProofs!LoadsLeaveNoOrphan` | `[]LoadSweepsOrphans` | `Exclusive` |
| `MessageStoreProofs!AtomicSaves` | `ImplementsAtomic`: the chunked store implements `AtomicMessageStore` | `Exclusive`, `HonestCallers` |
| `ThreadSyncProofs!GenerationsStayAhead`, `GenerationsAreFresh` | `[]IInv`, `[]FreshGenerations` | |
| `ThreadSyncProofs!TypeCorrect` | `[]TypeOK` of `ThreadSync` | |
| `ThreadSyncProofs!HistoryInvariant` | `[]HInv` with types and generations | `~Overlap`, `~Release` |
| `ThreadSyncProofs!OthersAreKept`, `OwnAreKept` | `[]PeerKept`, `[]OwnKept` | `~Overlap`, `~Release` |
| `ThreadSyncProofs!AppendsAreAccepted`, `HistoryOnlyGrows` | `[]AppendsExtend`, `HistoryGrows` | `~Overlap`, `~Release` |
| `MembershipProofs!TypeCorrect`, `RekeyInvariant` | `[]TypeOK`, `[]RekeyInv` | |
| `MembershipProofs!NeverForks`, `OwnCommitsKept` | `[]NoFork`, `[]OwnCommitKept` | |
| `MembershipProofs!StrandsNobody` | `[]NobodyStranded` | |
| `MembershipProofs!CommittedIsApplicable` | `[]CommittedFits` | `~OwnApplies` |
| `ThreadActivationProofs!ActivationTypes` | `[]TypeOK` of the proofs module | `Distinct` |
| `ThreadActivationProofs!JoinedHaveTheGroup`, `StoredGroupsWereTaken` | `[]JoinedKeep`, `[]GroupsTaken` | `Distinct` |
| `DeviceTransferProofs!TransferredHistoryArrives` | `[]HistoryArrives` of `DeviceTransfer` | `Values` |
| `DeviceTransferProofs!TransferResumesAsSent` | `[]ResumesAsSent` of `DeviceTransfer` | `Values` |
| `ClientProofs!TypeCorrect`, `LogoutIsFinal` | `[]TypeOK`, `[]NothingOutlivesLogout` | |
| `ClientProofs!WritesAreOwned`, `NoSessionIsStale` | `[]WritesOwned`, `[]NoStaleSession` | |
| `ClientProofs!SessionIsSaved`, `TokensAreSpentOnce` | `[]SavedSession`, `[]NoTokenRespent` | |
| `OutboxDirectoryProofs!TypeCorrect`, `ToldOnlyOfEvents`, `KeptAll` | `[]TypeOK`, `[]ToldOfEvents`, `OwedUntilTold` | |
| `OutboxDirectoryProofs!DirectoryTypeCorrect`, `OneListWins` | `[]DirectoryTypeOK`, `[]ForksCannotBothWin` | |
| `OutboxDirectoryProofs!ClientsAgreeAlways`, `FreshWhenAccepted` | `[]ClientsAgree`, `[]AcceptedIsFresh` | |
| `OutboxDirectoryProofs!NoEvidenceIsLost` | `[]EvidenceKept` of `DirectoryGossip` | |
| `AppProofs!SurfaceReturnsUndeleted` | `[][ReturnsUndeleted /\ SnapshotsAdvance]_vars` | `NoneApart` |
| `AppProofs!SnapshotsShowNoDeleted` | `[]SnapshotUndeleted` | `NoneApart` |
| `AppProofs!ServedIsFresh`, `CacheFitsItsBounds` | `[]ServedFresh`, `[]SizeFits` of `ApiCache` | `ApiValues` |
| `AppProofs!ClearedStaysClear`, `ShownIsStored` | `[]NoneResurrected`, `[]ShownStored` of `DeviceDownloads` | `DownloadValues` |
| `AppProofs!BadgeOfSession`, `NoRefreshIsLost` | `[]ShownOfSession`, `[]AskedIsShown` of `NotificationBadge` | `BadgeValues` |
| `AppProofs!PositionIsOfOwner`, `WithdrawnIsForgotten` | `[]OwnerIsCurrent`, `[]DisabledForgets` of `ConnectLocation` | `LocationValues` |
| `MembershipProofs!JoinedKeepTheGroup`, `KeptGroupsWereTaken` | `[]JoinedKeep`, `[]GroupsTaken` of `MCMembership` | `MembershipValues` |
| `MembershipProofs!HistoryArrivesWhole`, `SentAgainAsSent` | `[]HistoryArrives`, `[]ResumesAsSent` of `MCMembership` | `MembershipValues` |
| `ClientProofs!LoadsSweepOrphans`, `AdmittedStaysQueued` | `[]StoreSweepsOrphans`, `OutboxOwed` of `MCClient` | `StoreValues`, `OutboxValues` |
| `ClientProofs!SurfacesReturnUndeleted` | `SurfaceReturns` of `MCClient` | `SurfaceValues` |
| `ClientProofs!TabsKeepDownloads`, `SessionsStayApart` | `[]DownloadsKept`, `[]SessionsApart` of `MCClient` | `TabValues`, `SessionValues` |

Each is of its module's `Spec` and holds under the named assumptions on its constants, for any number of
stores, threads, records, calls, messages, devices, pages, witnesses and directories, any chunk
and page size, and with or without faults; an empty last column means for every choice of the modes
too (truthful hints or not, overlapping calls, releases, `OneAtATime`, `OwnApplies`, `Calm`). The contract of
the servers in section 2 is part of the models and so of every theorem about them.

The hypotheses are the code's own. `Exclusive` is Web Locks or a single process (X:251);
`HonestCallers` is that the hints say what changed, which the client's marks do. `~Overlap` and
`~Release` are one call at a time and no release under it; the code does not enforce them, and findings 1 and
2 are what happens without them, so the four theorems about histories cannot do without. `~OwnApplies` is that the MLS library refuses a Commit of its
own making, as C:1650 expects; a library that applied it would leave a prepared rekey behind its group. `Distinct` only
says that `None` is neither a candidate nor a Welcome, and `Values` that it is no number, packet or list of records
(and that the history is a list); `NoneApart` says so of the surface's `None`: no number, message, filter or snapshot. The
hypotheses named `...Values` say it of the other models, with tabs and tracks (the pages, as messages of `OutboxValues`) finitely many
and the bounds natural numbers. The runs' values meet them all: TLC keeps a model value apart from everything else.

*Store.* `CommittedReadable` alone is not inductive: a save in progress could commit
a manifest whose parts are missing, or a sweep could remove what is committed.
`StoreInv` adds that one operation runs at a time (from the lock), that a save writes
only beside what is committed and its manifest will be readable once its writes are made
(`WritingSafe`), that a chunk kept was written no later than its index (so a new key never
hits a live one), and that what is being removed is not live (`SweepingSafe`). The
substance is `SaveSafe`: the index `NextIndex` computes makes the next manifest sound,
and `Stale` spares it. It needs no truth of the hints: wrong hints commit a wrong history,
never an unreadable one. `LoadsLeaveNoOrphan` rests on `CleaningCovers`: while a load
removes orphans, what it has listed and what the manifest names cover the database.

*Store, refined.* The content of the abstract store is what the committed manifest names, chunk by chunk; what a
call asked for is `Asked`. `CommitManifest` is the abstract commit, every other write a
stutter, an interrupted save the abstract `GiveUp`. `AtomicInv` says that each committed chunk holds the piece of the
history that its place says, and that while a save writes, the index it is to commit names pieces
of exactly what was asked (`WritesWhatIsAsked`). The step that makes it true is the comparison of
`writeThread`: a chunk kept is one that, by a truthful hint, has not changed. The pieces of a history are
arithmetic on positions, so nothing here is an induction.

*Generations.* `FreshGenerations` is about posted envelopes; what can still be posted is in the memory's outbox,
in clones and exports of calls, and in the stored state, so all of these are `Held` and have one item per
generation (`GenOnce`). The next generation is fresh because the ratchet is past them: the memory's while a client is ready
(`ReadyAhead`), the stored one, or any that is about to be stored, past what was posted by then
(`StatesCover`). Overlapping persists could store an older state after a newer one; that they do not is
`InOrder`: the export takes the ratchet when a call leaves the store's queue, and the writes follow in that order.

*History.* `Keeps` says of records, an application state and used generations that nothing in the log is lost with
them: an envelope of others is shown, or is past the cursor, unprocessed and at an unused generation; one of the device is shown or
in the outbox. `HInv` has it of what is stored and of the memory, at every await. Between, the memory runs ahead: its
records extend the stored ones, its mark says so (`MemoryKept`), and a call's clone, export and view are the
memory's (`CallAgrees`). The persist stores the records before the state, so a crash in between leaves more records with the
old state, which keeps no less (`KeepsMore`). A page's end keeps because generations are numbered through
(`Numbered`): what is marked used belongs to an envelope that is shown. `Ordered` is the one lemma about data: the
page's positions in order are a sequence of exactly these positions (an injection of a finite set into an interval of its size is onto).

*Rekey.* Two facts carry `RekeyInv`. An operation's base is the epoch before the one its
Commit makes (`LinkOK`, `PendingOK`), so a Commit applied at its base extends the
chain at the right place. And the request a device gave up is, while it could still be committed,
what the device has prepared on disk (`LateOK`): the client never forgets a
prepared rekey before its operation has ended. With `Keeps` (an accepted Commit of one's own is
in the group or prepared) memory and disk can be followed through every crash.
`NeverForks` and `OwnCommitsKept` are then consequences. There is one lemma per action for types and one
for the invariant; `OthersKept`, `RestKept`, `SaveKept`, `DropKept` and `KnownKept` hold what the
actions have in common. For `NobodyStranded`, `StrandInv` follows a Welcome to its acknowledgement: what is about to
acknowledge one has a group already (`AckOK`), and a client whose device has one stored has one too
(`Carries`), so no save gives it up for none. For `CommittedFits`, `FitInv` says whose a Commit is (`LinkFrom`, `Owns`: an epoch's
Commit and a prepared rekey are of the device of their operation), and that the group beside a prepared rekey has come to its base
and not to an epoch of its operation (`Fits`). A device that
cannot apply its own Commit cannot sync past the epoch it made, so at the base it waits.

*Activation.* `ActivationInv` rests on what the server will never take (`Dead`): a candidate whose key packages
are gone, over which another group came, or whose group everyone has joined by now. That is final, for the
server's group only grows. So a device gives a candidate up only when it is dead, and a late request that is not dead is
for what its device has prepared, in memory and stored (`LateOK`); when the server takes it after all, the device that it counts as
joined has its group. A group is a candidate or was taken (`StateOK`), and a Welcome is joined only by a device that has not joined.

*Transfer.* `TransferInv` has a part for each side, given a table of sessions, so that a step of one side is
framed at the other: `SourceStays` takes that only a status changed, `TargetStays` that no session is open again and none is newly
approved for a target that no longer waits. The source's part (`Begun`): the server has the chunks of the plan up to the saved
sequence, or one more, and then that one is the chunk in flight, which was saved before it was sent; so both the entry in
memory and the stored one can go on from there. Hence the approved chain is the whole plan (`ChainIsWhole`). The target's
part: of what is kept, stored or about to be (`Copies`), a complete identity whose session was decided has all that is owed (`Full`), and only
a device whose stored identity is complete asks to be registered (`Registers`), so at the moment the server takes it
the records are stored. A cancellation beside the poll is followed through its four states (`CancelOK`). A packet names the
one before it, so packets have no flat type: a field no step looks into has the type of its value.

*Matrix session.* Pages share the lock, the marker and the records, so the invariant is one operator on a page's
record and these (`PageInv`), and a step of one page leaves the others' true because only the owner of the lock writes. A page
that holds the key has the lock (`Places`), its writes are of its generation, and a write of an older generation than the
marker's means the removal is still pending (`Generations`); so when a logout is acknowledged no late write is
left. `Stored` and `Tokens` follow a refreshed token from its answer to storage: a token that an answer has replaced is older
than the server's and than that of unsaved credentials, and the credentials at hand have none of them unless newer ones are unsaved;
while they are, no other refresh is sent.

*Matrix outbox.* `Fit` is stated of a handle and the queues, so that it can be followed through the helpers
a step is made of. Its substance: a change reads the queue that it replaces (`ReadsCurrent`, from the one change chain), a task
drops a message only behind its stored notification (`OutboxRight`), and a call has one change queued at a
time (`OneOfCall`).

*Key directory.* A witness's row extends all it has signed (`Rows`), and a swap that can still succeed extends
the row it read (`Observations`); so what a witness signs is one growing list, and two parts of one list agree (`PartsAgree`).
Clients that share a witness agree on its parts. `Fresh` follows one fetch from its question to its acceptance. For the monitor, a
swap that can succeed was prepared from the evidence that is stored (`SwapsOK`).

*Surface.* The hard case is a check that the server answered before a deletion this device is told of while the
answer is on its way. `FilterOK` says what each stage of a check knows: an answer whose revision is still the current one names every deletion
known of its conversation, and a conversation that is done shows none of them, unless it is a list's whose session has ended. It is
stated of a call, what is known, the revisions and the session, so that two lemmas carry every other call through a step:
`TellingMoves` (what is told ends the session and makes the revision of each check under way an old one) and `SessionMoves` (a session's number is
never used again). A snapshot is of a page that was asked for in its session (`SessionOK`), and only the last one asked for replaces it.

*Location.* An operation carries the generation it began in, and every configuration begins a new one, and so does hiding the app while it has consent; an
operation of the current generation is of the account configured, with its consent (`Owners`). What is stored is followed through the
queue of writes: when they are done nothing is left of an account that withdrew (`Forgets`), for its last write is a removal,
or there is none and nothing is stored. A success is queued only by a current operation, so never behind such a removal.

*Badge.* A request of the badge's epoch is the pending one, of the session, and what it answers is as new as the last count asked
for unless another is queued (`RequestFits`). `AskedIsShown` itself is part of `BadgeInv`. New requests have new numbers because the set of those
made is finite (`FreshIsNew`), which is what an object's identity gives the code.

*Downloads.* That no row is older than the last clearing is inductive, because the transaction that writes a row compares the
epoch; the substance is the tab alone. `Match` says of each track that the tab shows what is stored, or has a transaction behind it
that it has not yet completed; `Alone` adds what each of these knows. `AsShownAlone` carries it through all steps that change neither.

*API cache.* `EntryFits` and `RequestRight` speak of the current generation only: what is cached or asked for under it is of the
session and as new as the last change, and answered for it unless the key is in `lent` (`OfSession`); a request whose generation has passed may serve who waits for it but never the
cache. `WaitsApart` keeps a second answer from a caller already served. For the sizes (`SizeInv`) the cache has a key once
(`KeysApart`), so a replacement takes off what it must. `SizeOf` counts a set of units, one for each byte of an
entry, so that the library's facts about cardinalities replace an induction over the cache.

*Runs of several components.* `MembershipProofs` and `ClientProofs` extend the MC modules and prove what their runs check. `focus` is
a constant of a behaviour, and while it is a component's, its `Init` holds and each step is a step of its `Next` (the lemmas
`...Steps`); the theorem of the component, for any values, is then used at the run's. The component's copy in
the MC module and the one whose theorem is cited are equal by their definitions (`...IsProved`).

### Only model-checked

Liveness under fairness and ENABLED are out of the prover's reach (`PeerDelivered`, `Converges`, `OwnersLetGo`, `Settles`), and
so are facts by induction over data; none of the properties needs one now. `LongImplementsAtomic` (`store_atomic`) is
the refinement of a longer save, an instance of the `ImplementsAtomic` that `AtomicSaves` proves. Every other
property of a passing run is stated by a theorem.

## 5. Findings

1. **A sync drops what was stored during it** (`sync_overlap`, C:1702). `syncThread` writes
   back a copy made before its awaits. A message delivered by `sendEvent` or another sync in between is
   dropped from memory while the thread stays marked append-only; the store's assertion
   (S:632-647) refuses the next save and `persist` empties the client. With one call at a time
   (`sync_serial`) the assertion holds.
2. **Release under a save** (`sync_release`, C:1891). `releaseSecureMessagingClient` calls
   `destroyMemory` without waiting for the calls under way; a `persist` that waits for the
   message store then exports the emptied runtime and replaces the stored state by one without
   an identity. The package's README (118-121) says a restart resumes the same keys.
3. **A Welcome that nobody can join any more** (`rekey_welcome`, C:1522). A device is added and, before it
   joins, the directory changes. Its Welcome is to a past epoch, or to a roster that is no longer
   the directory's, and is refused at every attempt; since `restore` (C:324) does not survive the
   refusal, the client of that device never starts. THREAT_MODEL.md:107-108 says it receives a
   Welcome for each conversation. The run depends on the server accepting such a change
   while a Welcome waits (`OneAtATime`, `Calm` FALSE).
4. **A logout leaves a session's records** (`matrix_leftover`, E:1563). A logout that comes while an
   opening awaits the capabilities reaches no lease yet. The opening then takes the lock, acknowledges the logout, logs in
   again and saves; the logout, which waited for it, revokes that session and finds nothing to clean. The
   credentials of the revoked session stay, and later openings fail on them
   (test/matrix-runtime-regressions.test.js:911, 'logout removes it').
5. **An activation that cannot be recovered** (`activation_stuck`, C:1555). Both partners activate; one is
   stopped with its candidate stored, the other replaces its own group when it expires. The Welcome names the
   replaced group, the stopped device's candidate none, so `joinPendingWelcomes` neither discards the
   candidate nor accepts the Welcome, and its error leaves `restore` before anything else could resolve it. The
   package's README (38-39) calls the activation crash- and stall-recoverable.

## 6. Not modelled

Encryption, hashing, encodings and validation of server answers; size limits of
records, chunks and manifests; the legacy store format (S, manifest format 1); edits,
reactions, deletions and media inside the projection; a messaging server that forges
or reorders envelopes; several conversations in one runtime (`revokeLinkedDevice`'s
loop over them, the shared failure of `restore`); retried outbox entries whose epoch has
passed; expiry of key packages; overlapping persists of a device in transfer; `revokeAndClear` (C:1905), which nothing
calls; the native Matrix engine's token storage; the files of native downloads.

Most of the repository's lines are React screens, their styles, the audio player, the Kotlin and Swift
bridge and third-party code. They keep presentation state, one component at a time, or none, and a model of them
would say nothing a reader of them does not see. Of the client-side code that coordinates (the files of the
abbreviations and of the last rows of section 2), the state-changing part is modelled but for
what this section and the notes in `PROJECT.json` name.

A limit of what the model shows of the cache. `ServedFresh` says that an answer is of the session of its call unless a
request under the same key, since the cache was cleared, sent another session's token. This can happen: a 401
of an earlier session's request clears the token (App.tsx:344) while requests that captured it are yet to be sent (465-467, 557, 570,
596, 613, 661, 977-980). The answer of one that is sent after the clearing is stored under the new generation, where the calls of the
session of then find it for as long as it is fresh or stale. The model has these requests, and the theorem states the exception rather than excluding it; no document or test
of the repository says otherwise, so it is no finding.

Hazards without a property: two tabs without Web Locks (X:251; the model has the case, and it
loses records), an outbox entry the server refuses for good (C:1845; one epoch only), the loop over
conversations after a revocation (C:1157), private halves of key packages (C:1147), the creation of the
wrapping key (X:118).

## 7. Plan

1. **Modules.** `ThreadSync` with epochs (the outbox over a conversation whose epoch moves), which would reach
   C:1845; the message projection as a fold over events, against a definition by their set; the native
   storage of downloads.
2. **Theorems.** The invariants of these modules; all that the runs check now is proved, but for
   what section 4 leaves to TLC.

## 8. Running

`tlc -config MCMessageStore.cfg MCMessageStore` and so on for each pair in
`PROJECT.json`; `tlapm MessageStoreProofs.tla` and so on for each `...Proofs` module. A run takes
between a second and four minutes with two workers. `Mut...` operators in the modules
are plausible mistakes in the definition after them: replacing that definition by one makes the run's property fail,
which shows that the property depends on the code.
