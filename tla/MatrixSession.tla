--------------------------- MODULE MatrixSession ---------------------------
(***************************************************************************)
(* The Matrix session of one account in the pages (tabs) of a browser:     *)
(* matrix-store-ownership.mjs, matrix-key-lifecycle.mjs,                   *)
(* matrix-token-refresh.mjs, and getHandle, release, logout and the        *)
(* encrypted records of matrix-engine-web.ts.                              *)
(*                                                                         *)
(* A page opens the session under a Web Lock, with the logout generation   *)
(* it read from localStorage.  A logout writes a newer generation with a   *)
(* pending bit; who owns the store, or owns it next, removes the records   *)
(* and acknowledges.  Each operation is cut at its awaits: another page,   *)
(* an event or another operation of the same page may come between.        *)
(***************************************************************************)
EXTENDS Naturals, Sequences, FiniteSets

CONSTANTS
    Pages,          \* the pages of the browser that have the account open
    None,           \* no page, no record
    MaxGeneration,  \* bound: logouts requested
    MaxLogin,       \* bound: Matrix sessions the server creates
    MaxToken,       \* bound: refresh tokens the server issues
    MaxChain,       \* bound: shutdowns queued in a page
    Retains,        \* whether the server may answer a refresh without a new token
    Faults          \* whether requests and storage calls fail, pages close

ASSUME NonePages == None \notin Pages /\ None \notin Nat
ASSUME NoneRecords == None \notin [gen : Nat, session : Nat, token : Nat]
ASSUME Bounds == /\ MaxGeneration \in Nat /\ MaxLogin \in Nat
                 /\ MaxToken \in Nat /\ MaxChain \in Nat \ {0}
ASSUME FaultsBoolean == Faults \in BOOLEAN
ASSUME RetainsBoolean == Retains \in BOOLEAN

VARIABLES
    marker,     \* localStorage: the logout generation and its pending bit
    lock,       \* the page that holds the exclusive Web Lock
    disk,       \* the encrypted records, each with its writer's generation
    page,       \* what the pages hold in memory, and where their code is
    server      \* the homeserver's session, and the refresh token it takes

vars == <<marker, lock, disk, page, server>>

Kinds == {"credentials", "secret"}

(* opening: how far getHandle is ("ready": resolved, "failed": rejected).  *)
(* spent: the refresh tokens that answers have replaced.                   *)
(* shared: whether handles still has it.  clean: the generation a          *)
(* cleanPendingLogout read, 0 before its multiRemove, None outside of one. *)
(* stage: where the first operation of the shutdown chain is.              *)
NoPage == [opening |-> "none", shared |-> FALSE,
           held |-> FALSE, retired |-> FALSE, calls |-> FALSE, gen |-> 0,
           key |-> FALSE, closed |-> FALSE, writes |-> {},
           creds |-> None, unsaved |-> None, spent |-> {},
           refresh |-> "idle", stale |-> FALSE,
           chain |-> <<>>, stage |-> "begin", clean |-> None]

Init ==
    /\ marker = [gen |-> 0, pending |-> FALSE]
    /\ lock = None
    /\ disk = [k \in Kinds |-> None]
    /\ page = [p \in Pages |-> NoPage]
    /\ server = [session |-> 0, logins |-> 0, token |-> 0]

-----------------------------------------------------------------------------
(* The fences. *)

\* assertActive of the lease, and of a key: its guard is the lease's.
Active(p) == page[p].held /\ ~page[p].retired /\ page[p].gen = marker.gen
KeyActive(p) == page[p].key /\ ~page[p].closed /\ Active(p)

\* mutated: an invalidated lease does not ask for its release
MutInvalidate(s) == IF s.held THEN [s EXCEPT !.retired = TRUE] ELSE s

\* The lease's invalidate, once: getHandle's callback closes the key if there
\* is one yet, and queues release.
Invalidate(s) ==
    IF ~s.held \/ s.retired THEN s
    ELSE [s EXCEPT !.retired = TRUE,
                   !.closed = @ \/ (s.calls /\ s.key),
                   !.chain = IF s.calls THEN Append(@, "release") ELSE @]

\* A failing assertActive invalidates the lease before it throws.
Noticed(p) == IF page[p].gen # marker.gen THEN Invalidate(page[p]) ELSE page[p]

Lease(p, calls) ==
    [page[p] EXCEPT !.held = TRUE, !.retired = FALSE, !.calls = calls, !.gen = marker.gen]

\* What a page is once its lease is released: the operations still queued go on.
Released(s) == [NoPage EXCEPT !.chain = s.chain, !.stage = s.stage]
Popped(s) == [s EXCEPT !.chain = Tail(@), !.stage = "begin"]

Become(p, s) == page' = [page EXCEPT ![p] = s]

-----------------------------------------------------------------------------
(* cleanPendingLogout, called by an opening and by a shutdown (at).         *)

ReadPending(p, at) ==
    /\ page[p][at] = "clean"
    /\ page' = [page EXCEPT ![p][at] = IF marker.pending THEN "removing" ELSE "cleaned",
                            ![p].clean = IF marker.pending THEN marker.gen ELSE None]
    /\ UNCHANGED <<marker, lock, disk, server>>

\* mutated: a removal that fails is acknowledged like one that did not
MutRemoveRecords(p, at) ==
    /\ page[p][at] = "removing"
    /\ \E gone \in (IF Faults THEN SUBSET Kinds ELSE {Kinds}) :
          disk' = [k \in Kinds |-> IF k \in gone THEN None ELSE disk[k]]
    /\ page' = [page EXCEPT ![p][at] = "acknowledging"]
    /\ UNCHANGED <<marker, lock, server>>

\* mutated: a removal that fails ends a shutdown the way it ends an opening, its
\* error leaves the function before the lease is released
MutRemovalThrows(p, at) ==
    /\ page[p][at] = "removing"
    /\ \/ /\ disk' = [k \in Kinds |-> None]
          /\ page' = [page EXCEPT ![p][at] = "acknowledging"]
       \/ /\ Faults
          /\ \E gone \in SUBSET Kinds : disk' = [k \in Kinds |-> IF k \in gone THEN None ELSE disk[k]]
          /\ page' = [page EXCEPT ![p][at] = "failing", ![p].clean = None]
    /\ UNCHANGED <<marker, lock, server>>

\* multiRemove; one that fails may have removed some of the records.
RemoveRecords(p, at) ==
    /\ page[p][at] = "removing"
    /\ \/ /\ disk' = [k \in Kinds |-> None]
          /\ page' = [page EXCEPT ![p][at] = "acknowledging"]
       \/ /\ Faults
          /\ \E gone \in SUBSET Kinds : disk' = [k \in Kinds |-> IF k \in gone THEN None ELSE disk[k]]
          /\ page' = [page EXCEPT ![p][at] = IF at = "opening" THEN "failing" ELSE "cleaned",
                                  ![p].clean = None]
    /\ UNCHANGED <<marker, lock, server>>

\* A request newer than the one that was cleaned stays pending.
AcknowledgeLogout(p, at) ==
    /\ page[p][at] = "acknowledging"
    /\ marker' = [marker EXCEPT !.pending = @ /\ marker.gen # page[p].clean]
    /\ page' = [page EXCEPT ![p][at] = "cleaned", ![p].clean = None]
    /\ UNCHANGED <<lock, disk, server>>

CleanPendingLogout(p) ==
    \E at \in {"opening", "stage"} :
        ReadPending(p, at) \/ RemoveRecords(p, at) \/ AcknowledgeLogout(p, at)

-----------------------------------------------------------------------------
(* withMatrixKeyWrite: checked when it is called and again in the           *)
(* microtask that runs it; closeMatrixKey waits for what is registered.     *)

Record(p, c) == [gen |-> page[p].gen, session |-> c.session, token |-> c.token]
Secret(p) == Record(p, [session |-> 0, token |-> 0])

Write(p, kind, rec) ==
    [page[p] EXCEPT !.writes = @ \cup {[kind |-> kind, rec |-> rec, running |-> FALSE]}]

\* What awaits the credentials' write goes on or fails: the opening after its
\* login, or a refresh.
Settled(s, w, ok) ==
    LET done == [s EXCEPT !.writes = @ \ {w}]
    IN  IF w.kind = "secret" THEN done
        ELSE IF s.refresh = "persisting"
        THEN [done EXCEPT !.refresh = IF ok THEN "persisted" ELSE "failing"]
        ELSE [done EXCEPT !.opening = IF ok THEN "start" ELSE "failing"]

RunWrite(p) ==
    \E w \in {v \in page[p].writes : ~v.running} :
        /\ IF KeyActive(p)
           THEN Become(p, [page[p] EXCEPT !.writes = (@ \ {w}) \cup {[w EXCEPT !.running = TRUE]}])
           ELSE Become(p, Settled(Noticed(p), w, FALSE))
        /\ UNCHANGED <<marker, lock, disk, server>>

FinishWrite(p) ==
    \E w \in {v \in page[p].writes : v.running} :
        /\ \/ /\ disk' = [disk EXCEPT ![w.kind] = w.rec]
              /\ Become(p, Settled(page[p], w, TRUE))
           \/ /\ Faults
              /\ Become(p, Settled(page[p], w, FALSE))
              /\ UNCHANGED disk
        /\ UNCHANGED <<marker, lock, server>>

\* cacheSecretStorageKey, from the SDK: nobody waits for this write.
SaveSecret(p) ==
    /\ page[p].opening \in {"start", "ready"} /\ KeyActive(p)
    /\ \A w \in page[p].writes : w.kind # "secret"
    /\ disk.secret # Secret(p)
    /\ Become(p, Write(p, "secret", Secret(p)))
    /\ UNCHANGED <<marker, lock, disk, server>>

-----------------------------------------------------------------------------
(* getHandle *)

StartOpening(p) ==
    /\ page[p].opening = "none" /\ page[p].chain = <<>>
    /\ Become(p, [page[p] EXCEPT !.opening = "asked", !.shared = TRUE])
    /\ UNCHANGED <<marker, lock, disk, server>>

\* mutated: an opening does not clean up after a pending logout
MutAcquireToOpen(p) ==
    /\ page[p].opening = "asked" /\ lock = None
    /\ lock' = p
    /\ Become(p, [Lease(p, TRUE) EXCEPT !.opening = "cleaned"])
    /\ UNCHANGED <<marker, disk, server>>

\* acquire: the generation is read in the lock's callback.
AcquireToOpen(p) ==
    /\ page[p].opening = "asked"
    /\ \/ /\ lock = None
          /\ lock' = p
          /\ Become(p, [Lease(p, TRUE) EXCEPT !.opening = "clean"])
       \/ /\ lock # None \/ Faults
          /\ Become(p, [page[p] EXCEPT !.opening = "failing"])
          /\ UNCHANGED lock
    /\ UNCHANGED <<marker, disk, server>>

\* The steps between two checks of the lease; next is where a live lease goes.
Opens(p, from, next) ==
    /\ page[p].opening = from
    /\ \/ Active(p) /\ Become(p, next)
       \/ (~Active(p) \/ Faults) /\ Become(p, [Noticed(p) EXCEPT !.opening = "failing"])
    /\ UNCHANGED <<marker, lock, disk, server>>

OpenKey(p) ==
    Opens(p, "cleaned", [page[p] EXCEPT !.key = TRUE, !.closed = FALSE, !.opening = "load"])

LoadCredentials(p) ==
    Opens(p, "load", [page[p] EXCEPT !.creds = disk.credentials,
                      !.opening = IF disk.credentials = None THEN "login" ELSE "whoami"])

\* The access token may have expired, and has once the session is revoked.
WhoAmI(p) ==
    /\ page[p].opening = "whoami"
    /\ \/ /\ page[p].creds.session = server.session
          /\ Become(p, [page[p] EXCEPT !.opening = "start"])
       \/ Become(p, [page[p] EXCEPT !.opening = "refreshing", !.refresh = "check"])
       \/ Faults /\ Become(p, [page[p] EXCEPT !.opening = "failing"])
    /\ UNCHANGED <<marker, lock, disk, server>>

\* A login with the device's id replaces its session; its answer may be lost.
Login(p) ==
    /\ page[p].opening = "login"
    /\ \/ /\ Active(p)
          /\ server.logins < MaxLogin /\ server.token < MaxToken
          /\ LET c == [session |-> server.logins + 1, token |-> server.token + 1]
             IN  /\ server' = [session |-> c.session, logins |-> c.session, token |-> c.token]
                 /\ \/ Become(p, [page[p] EXCEPT !.creds = Record(p, c), !.opening = "save"])
                    \/ Faults /\ Become(p, [page[p] EXCEPT !.opening = "failing"])
       \/ /\ ~Active(p) \/ Faults \/ server.logins = MaxLogin \/ server.token = MaxToken
          /\ Become(p, [Noticed(p) EXCEPT !.opening = "failing"])
          /\ UNCHANGED server
    /\ UNCHANGED <<marker, lock, disk>>

SaveLogin(p) ==
    /\ page[p].opening = "save"
    /\ Become(p, IF KeyActive(p)
                 THEN [Write(p, "credentials", page[p].creds) EXCEPT !.opening = "saving"]
                 ELSE [Noticed(p) EXCEPT !.opening = "failing"])
    /\ UNCHANGED <<marker, lock, disk, server>>

\* The device's registration, the SDK's start, its first sync and the outbox.
Start(p) == Opens(p, "start", [page[p] EXCEPT !.opening = "ready"])

\* An opening that fails closes its key, waits for the writes and lets the
\* lock go; handles forgets it, unless a shutdown has taken it from there.
CloseFailed(p) ==
    /\ page[p].opening = "failing"
    /\ Become(p, [page[p] EXCEPT !.closed = @ \/ page[p].key, !.opening = "draining"])
    /\ UNCHANGED <<marker, lock, disk, server>>

ReleaseFailed(p) ==
    /\ page[p].opening = "draining" /\ page[p].writes = {}
    /\ lock' = IF page[p].held THEN None ELSE lock
    /\ Become(p, [Released(page[p]) EXCEPT
                     !.opening = IF page[p].shared THEN "none" ELSE "failed"])
    /\ UNCHANGED <<marker, disk, server>>

-----------------------------------------------------------------------------
(* createMatrixCredentialRefresher *)

\* The SDK's call; stale when it asks with a token it was given earlier.
Refresh(p) ==
    /\ page[p].opening \in {"start", "ready"} /\ page[p].refresh = "idle" /\ KeyActive(p)
    /\ \E stale \in BOOLEAN :
          /\ stale => page[p].spent # {}
          /\ Become(p, [page[p] EXCEPT !.refresh = "check", !.stale = stale])
    /\ UNCHANGED <<marker, lock, disk, server>>

\* mutated: the credentials that were not saved are forgotten
MutCheckSession(p) ==
    /\ page[p].refresh = "check"
    /\ Become(p, IF KeyActive(p)
                 THEN [page[p] EXCEPT !.refresh = IF page[p].stale THEN "done" ELSE "rotate"]
                 ELSE [Noticed(p) EXCEPT !.refresh = "failing"])
    /\ UNCHANGED <<marker, lock, disk, server>>

CheckSession(p) ==
    /\ page[p].refresh = "check"
    /\ \/ /\ KeyActive(p)
          /\ Become(p, [page[p] EXCEPT !.refresh = IF page[p].unsaved # None THEN "persist"
                                                  ELSE IF page[p].stale THEN "done" ELSE "rotate",
                                   !.stale = FALSE])
       \/ /\ ~KeyActive(p) \/ Faults
          /\ Become(p, [Noticed(p) EXCEPT !.refresh = "failing"])
    /\ UNCHANGED <<marker, lock, disk, server>>

\* One POST of the token. The answer has a token that replaces it, or has none:
\* the credentials keep theirs. A fence that fell meanwhile drops the answer.
Rotate(p) ==
    LET c == page[p].creds
        answers == {t \in {server.token, server.token + 1} :
                       t <= MaxToken /\ (t = server.token => Retains)}
        taken(token) ==
            [page[p] EXCEPT !.unsaved = [c EXCEPT !.token = token], !.refresh = "persist",
                            !.spent = @ \cup ({c.token} \ {token})]
        lost == [Noticed(p) EXCEPT !.refresh = "failing"]
    IN  /\ page[p].refresh = "rotate"
        /\ \/ /\ c.session = server.session /\ c.token = server.token
              /\ \E token \in answers :
                    /\ server' = [server EXCEPT !.token = token]
                    /\ \/ Become(p, IF KeyActive(p) THEN taken(token) ELSE lost)
                       \/ Faults /\ Become(p, lost)
           \/ /\ Faults \/ c.session # server.session \/ c.token # server.token \/ answers = {}
              /\ Become(p, lost)
              /\ UNCHANGED server
        /\ UNCHANGED <<marker, lock, disk>>

\* mutated: the refreshed credentials are used before they are saved
MutPersist(p) ==
    /\ page[p].refresh = "persist"
    /\ Become(p, IF KeyActive(p)
                 THEN [Write(p, "credentials", Record(p, page[p].unsaved)) EXCEPT
                          !.refresh = "persisting", !.creds = page[p].unsaved, !.unsaved = None]
                 ELSE [Noticed(p) EXCEPT !.refresh = "failing"])
    /\ UNCHANGED <<marker, lock, disk, server>>

Persist(p) ==
    /\ page[p].refresh = "persist"
    /\ Become(p, IF KeyActive(p)
                 THEN [Write(p, "credentials", Record(p, page[p].unsaved)) EXCEPT !.refresh = "persisting"]
                 ELSE [Noticed(p) EXCEPT !.refresh = "failing"])
    /\ UNCHANGED <<marker, lock, disk, server>>

Persisted(p) ==
    /\ page[p].refresh = "persisted"
    /\ Become(p, IF KeyActive(p)
                 THEN [page[p] EXCEPT !.creds = page[p].unsaved, !.unsaved = None, !.refresh = "done"]
                 ELSE [Noticed(p) EXCEPT !.refresh = "failing"])
    /\ UNCHANGED <<marker, lock, disk, server>>

\* pending is cleared; an opening that awaits the refresh goes on or fails.
RefreshEnds(p) ==
    /\ page[p].refresh \in {"done", "failing"}
    /\ Become(p, [page[p] EXCEPT !.refresh = "idle", !.stale = FALSE,
                     !.opening = IF @ # "refreshing" THEN @
                                 ELSE IF page[p].refresh = "done" THEN "start" ELSE "failing"])
    /\ UNCHANGED <<marker, lock, disk, server>>

-----------------------------------------------------------------------------
(* release and logout, one after another in the account's shutdown chain *)

RequestRelease(p) ==
    /\ Len(page[p].chain) < MaxChain
    /\ Become(p, [page[p] EXCEPT !.chain = Append(@, "release")])
    /\ UNCHANGED <<marker, lock, disk, server>>

\* requestLogout dispatches its event in this page before logout is queued.
Logout(p) ==
    /\ marker.gen < MaxGeneration /\ Len(page[p].chain) < MaxChain
    /\ marker' = [gen |-> marker.gen + 1, pending |-> TRUE]
    /\ LET s == Invalidate(page[p])
       IN  Become(p, [s EXCEPT !.chain = Append(@, "logout")])
    /\ UNCHANGED <<lock, disk, server>>

\* The storage event of another page's logout, or the next check of the lease.
StorageEvent(p) ==
    /\ page[p].held /\ ~page[p].retired /\ page[p].gen # marker.gen
    /\ Become(p, Invalidate(page[p]))
    /\ UNCHANGED <<marker, lock, disk, server>>

PageHide(p) ==
    /\ Faults
    /\ page[p].held /\ ~page[p].retired
    /\ Become(p, Invalidate(page[p]))
    /\ UNCHANGED <<marker, lock, disk, server>>

\* The page takes the handle from handles: nothing else finds it from now on.
BeginShutdown(p) ==
    /\ page[p].stage = "begin" /\ page[p].chain # <<>>
    /\ Become(p, IF page[p].shared THEN [page[p] EXCEPT !.shared = FALSE, !.stage = "wait"]
                 ELSE IF Head(page[p].chain) = "release" THEN Popped(page[p])
                 ELSE [page[p] EXCEPT !.stage = "acquire"])
    /\ UNCHANGED <<marker, lock, disk, server>>

AwaitOpening(p) ==
    /\ page[p].stage = "wait"
    /\ \/ /\ page[p].opening = "ready"
          /\ Become(p, [page[p] EXCEPT !.closed = TRUE, !.stage = "drain"])
       \/ /\ page[p].opening = "failed"
          /\ LET s == [page[p] EXCEPT !.opening = "none"]
             IN  Become(p, IF Head(s.chain) = "release" THEN Popped(s)
                           ELSE [s EXCEPT !.stage = "acquire"])
    /\ UNCHANGED <<marker, lock, disk, server>>

Drain(p) ==
    /\ page[p].stage = "drain" /\ page[p].writes = {}
    /\ Become(p, [page[p] EXCEPT !.stage = IF Head(page[p].chain) = "release" THEN "clean" ELSE "revoke"])
    /\ UNCHANGED <<marker, lock, disk, server>>

\* A logout without a handle takes the store, or leaves it to its owner.
AcquireToClean(p) ==
    /\ page[p].stage = "acquire"
    /\ \/ /\ lock = None
          /\ lock' = p
          /\ Become(p, [Lease(p, FALSE) EXCEPT !.stage = "check"])
       \/ /\ lock # None \/ Faults
          /\ Become(p, Popped(page[p]))
          /\ UNCHANGED lock
    /\ UNCHANGED <<marker, disk, server>>

CheckPending(p) ==
    /\ page[p].stage = "check"
    /\ Become(p, IF marker.pending /\ disk.credentials # None
                 THEN [page[p] EXCEPT !.creds = disk.credentials, !.stage = "revoke"]
                 ELSE [page[p] EXCEPT !.stage = "clean"])
    /\ UNCHANGED <<marker, lock, disk, server>>

\* client.logout, whose failure is ignored.
Revoke(p) ==
    /\ page[p].stage = "revoke"
    /\ \/ server' = [server EXCEPT !.session = IF page[p].creds.session = @ THEN 0 ELSE @]
       \/ Faults /\ UNCHANGED server
    /\ Become(p, [page[p] EXCEPT !.stage = "clean"])
    /\ UNCHANGED <<marker, lock, disk>>

EndShutdown(p) ==
    /\ page[p].stage = "cleaned"
    /\ lock' = None
    /\ Become(p, Popped(Released(page[p])))
    /\ UNCHANGED <<marker, disk, server>>

\* The page is closed or reloaded: the browser lets its lock go.
Close(p) ==
    /\ Faults /\ page[p] # NoPage
    /\ Become(p, NoPage)
    /\ lock' = IF lock = p THEN None ELSE lock
    /\ UNCHANGED <<marker, disk, server>>

-----------------------------------------------------------------------------
Opening(p) ==
    \/ AcquireToOpen(p) \/ OpenKey(p) \/ LoadCredentials(p) \/ WhoAmI(p) \/ Login(p)
    \/ SaveLogin(p) \/ Start(p) \/ CloseFailed(p) \/ ReleaseFailed(p)

Refreshing(p) ==
    CheckSession(p) \/ Rotate(p) \/ Persist(p) \/ Persisted(p) \/ RefreshEnds(p)

ShuttingDown(p) ==
    \/ BeginShutdown(p) \/ AwaitOpening(p) \/ Drain(p) \/ AcquireToClean(p)
    \/ CheckPending(p) \/ Revoke(p) \/ EndShutdown(p)

Writing(p) == RunWrite(p) \/ FinishWrite(p)

Asked(p) ==
    \/ StartOpening(p) \/ SaveSecret(p) \/ Refresh(p) \/ RequestRelease(p) \/ Logout(p)
    \/ PageHide(p) \/ Close(p)

Step(p) ==
    \/ Opening(p) \/ Refreshing(p) \/ ShuttingDown(p) \/ Writing(p)
    \/ CleanPendingLogout(p) \/ StorageEvent(p) \/ Asked(p)

Next == \E p \in Pages : Step(p)

Spec == Init /\ [][Next]_vars

\* Code that has started goes on, a request ends in an answer or an error, and
\* the browser delivers its storage events.
Going(p) == Opening(p) \/ ShuttingDown(p) \/ CleanPendingLogout(p)
Fairness ==
    \A p \in Pages :
        /\ WF_vars(Going(p))
        /\ WF_vars(Refreshing(p)) /\ WF_vars(Writing(p)) /\ WF_vars(StorageEvent(p))

FairSpec == Spec /\ Fairness

-----------------------------------------------------------------------------
(* Properties *)

Phases == {"none", "asked", "clean", "removing", "acknowledging", "cleaned", "load", "whoami",
           "refreshing", "login", "save", "saving", "start", "ready", "failing", "draining", "failed"}
Stages == {"begin", "wait", "drain", "acquire", "check", "revoke",
           "clean", "removing", "acknowledging", "cleaned"}
RefreshStages == {"idle", "check", "rotate", "persist", "persisting", "persisted", "done", "failing"}

Records == [gen : Nat, session : Nat, token : Nat]
Writes == [kind : Kinds, rec : Records, running : BOOLEAN]

PageRecords ==
    [opening : Phases, stage : Stages, refresh : RefreshStages,
     shared : BOOLEAN, held : BOOLEAN, retired : BOOLEAN, calls : BOOLEAN,
     key : BOOLEAN, closed : BOOLEAN, stale : BOOLEAN,
     gen : Nat, clean : Nat \cup {None},
     writes : SUBSET Writes, spent : SUBSET Nat,
     creds : Records \cup {None}, unsaved : Records \cup {None},
     chain : Seq({"release", "logout"})]

TypeOK ==
    /\ marker \in [gen : Nat, pending : BOOLEAN]
    /\ lock \in Pages \cup {None}
    /\ disk \in [Kinds -> Records \cup {None}]
    /\ page \in [Pages -> PageRecords]
    /\ server \in [session : Nat, logins : Nat, token : Nat]

\* Once a logout is acknowledged, every record in storage was written by an
\* owner that took the store after the request: no write of an earlier owner,
\* in this page or another, lands after the records were removed.
NothingOutlivesLogout ==
    ~marker.pending => \A k \in Kinds : disk[k] # None => disk[k].gen = marker.gen

\* A write that is under way, in any page, is the write of the page that holds
\* the lock: the lock is not let go before closeMatrixKey has drained them.
WritesOwned == \A p \in Pages : page[p].writes # {} => lock = p /\ page[p].held

\* A session that was opened from storage was saved after every logout that
\* had been requested when the page took the store.
NoStaleSession ==
    \A p \in Pages :
        page[p].key /\ page[p].creds # None => page[p].creds.gen = page[p].gen

\* What the next start finds is the session the page uses: while a handle is
\* open, its credentials are in storage, or the refreshed ones it is saving.
SavedSession ==
    \A p \in Pages :
        page[p].opening = "ready" /\ page[p].stage \in {"begin", "wait", "drain", "revoke"}
            => /\ disk.credentials # None
               /\ disk.credentials.token \in
                     {page[p].creds.token}
                        \cup (IF page[p].unsaved = None THEN {} ELSE {page[p].unsaved.token})

\* A refresh whose answer arrived is not asked for again before that answer is
\* saved, also when the answer kept the token and when saving it failed; and a
\* token that an answer replaced is never posted again, also when the SDK asks
\* with it.
NoTokenRespent ==
    \A p \in Pages : page[p].refresh = "rotate" =>
        page[p].unsaved = None /\ page[p].creds.token \notin page[p].spent

\* A page that was told to give the store up, or is to shut its session down,
\* lets the lock go in the end: release, logout, the opening they wait for, its
\* refresh and the writes they drain do not wait for one another.
OwnersLetGo ==
    \A p \in Pages :
        page[p].retired \/ page[p].chain # <<>> ~> page[p].stage = "begin" /\ ~page[p].held

\* A logout that ends in the page that has the store has left no record of the
\* account in storage.
LogoutRemoves ==
    [][\A p \in Pages :
          page[p].stage = "cleaned" /\ EndShutdown(p) /\ Head(page[p].chain) = "logout"
              => \A k \in Kinds : disk[k] = None]_vars
=============================================================================
