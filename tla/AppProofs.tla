----------------------------- MODULE AppProofs -----------------------------
(***************************************************************************)
(* Proofs about the parts of the app around the messages: MessagingSurface *)
(* and, as named instances, ConnectLocation, NotificationBadge,            *)
(* DeviceDownloads and ApiCache, which share no state.  Each theorem is    *)
(* for any accounts, sessions, tabs, tracks, calls and addresses, and any  *)
(* bounds.                                                                 *)
(***************************************************************************)
EXTENDS MessagingSurface, Sequences, FiniteSetTheorems, Functions, TLAPS

CONSTANTS
    Accounts, MaxGeneration,                    \* ConnectLocation
    MaxChange, MaxSession,                      \* NotificationBadge, ApiCache
    Tabs, Keys, MaxRows, Done, MaxSaves, MaxClears,     \* DeviceDownloads
    Urls, MaxEntries, MaxBytes, MaxVersion      \* ApiCache

VARIABLES
    position, ops, writes, success, consent,    \* ConnectLocation
    counts, account, asked, badge,              \* NotificationBadge
    rows, epoch, saves, clears, tab,            \* DeviceDownloads
    backend, token, generation, cache, bytes, requests, calls, seen, lent   \* ApiCache

Location == INSTANCE ConnectLocation WITH sync <- position, stored <- success
Badge == INSTANCE NotificationBadge WITH
    server <- counts, session <- account, requests <- asked
Downloads == INSTANCE DeviceDownloads
Api == INSTANCE ApiCache WITH
    server <- backend, session <- token, call <- calls, known <- seen

-----------------------------------------------------------------------------
(* Types *)

FilterType == [at : {"new", "checking", "answered", "done"}, revision : Nat,
               force : BOOLEAN, gone : SUBSET Messages]
CallType == [kind : {"none", "list", "open", "delete"},
             at : {"idle", "asking", "decorating", "opened", "filtering", "returned"},
             session : Nat \cup {None}, revision : Nat, threads : SUBSET Threads,
             flagged : SUBSET Messages, message : Messages \cup {None},
             filter : [Threads -> FilterType \cup {None}], shown : SUBSET Messages]
SnapshotType == [shown : SUBSET Messages, asked : Nat]
SessionType == [id : Nat \cup {None}, revision : Nat, snapshot : SnapshotType \cup {None}]

SurfaceTypes ==
    /\ deleted \in SUBSET Messages /\ events \in SUBSET deleted /\ known \in SUBSET deleted
    /\ revisions \in [Threads -> Nat]
    /\ session \in [current : SessionType, made : Nat]
    /\ call \in [Calls -> CallType]

(* The invariant; of the calls it is stated of a call s, what is known k,  *)
(* the revisions r and the session e.                                      *)

\* A check that was answered knows what the device did when it was posted; a
\* conversation that is filtered shows nothing that is known, or its list is of a
\* session that has ended.
FilterOK(s, t, k, r, e) ==
    LET f == s.filter[t]
    IN  f # None =>
            /\ s.at = "filtering" /\ t \in s.threads
            /\ f.revision <= r[t]
            /\ f.at = "answered" /\ f.revision = r[t] => k \cap Of(t) \subseteq f.gone
            /\ f.at = "done" =>
                s.kind = "list" /\ (k \cap Of(t) \subseteq f.gone \/ s.session # e.current.id)

\* A list is of a session that was made; the other calls are of one conversation.
CallOK(s, k, r, e) ==
    /\ s.kind = "none" => s.at = "idle"
    /\ s.kind = "list" /\ s.at # "returned" => s.session \in 1 .. e.made
    /\ s.kind \in {"open", "delete"} /\ s.at # "returned" => \E t \in Threads : s.threads = {t}
    /\ s.kind = "delete" /\ s.at = "asking" => s.message \in Messages /\ s.threads = {s.message[1]}
    /\ s.at = "filtering" => \A t \in s.threads : s.filter[t] # None
    /\ \A t \in Threads : FilterOK(s, t, k, r, e)

\* The snapshot shows nothing that is known, and is of a page that was asked for.
SessionOK(e, k) ==
    /\ e.current.id # None => e.current.id \in 1 .. e.made
    /\ e.current.snapshot # None =>
        /\ e.current.snapshot.shown \cap k = {}
        /\ e.current.snapshot.asked <= e.current.revision

SurfaceInv ==
    /\ SurfaceTypes
    /\ \A t \in Threads : revisions[t] = 0 => known \cap Of(t) = {}
    /\ SessionOK(session, known)
    /\ \A c \in Calls : CallOK(call[c], known, revisions, session)

\* None is no number, no message, no filter and no snapshot.
NoneApart == None \notin Nat \cup Messages \cup FilterType \cup SnapshotType

\* What every step is to keep.
Step == SurfaceInv' /\ ReturnsUndeleted /\ SnapshotsAdvance
-----------------------------------------------------------------------------
(* Calls *)

LEMMA IdleTypes ==
    ASSUME NoneApart
    PROVE  /\ Idle \in CallType
           /\ Unfiltered \in FilterType
           /\ NoSession \in SessionType
           /\ \A m \in Messages : m[1] \in Threads
           /\ \A t \in Threads : Of(t) \subseteq Messages
BY DEF Idle, CallType, Unfiltered, FilterType, NoSession, SessionType, Threads, Of

\* A call that filters nothing is as its kind asks.
LEMMA Unfiltering ==
    ASSUME NEW s, NEW k, NEW r, NEW e,
           \A t \in Threads : s.filter[t] = None, s.at # "filtering",
           s.kind = "none" => s.at = "idle",
           s.kind = "list" /\ s.at # "returned" => s.session \in 1 .. e.made,
           s.kind \in {"open", "delete"} /\ s.at # "returned" => \E t \in Threads : s.threads = {t},
           s.kind = "delete" /\ s.at = "asking" => s.message \in Messages /\ s.threads = {s.message[1]}
    PROVE  CallOK(s, k, r, e)
BY DEF CallOK, FilterOK

LEMMA IdleOK ==
    ASSUME NEW k, NEW r, NEW e PROVE CallOK(Idle, k, r, e)
<1>1. Idle.kind = "none" /\ Idle.at = "idle" /\ \A t \in Threads : Idle.filter[t] = None
  BY DEF Idle
<1> QED BY <1>1, Unfiltering

\* A session that goes on, ends or is made after a list was asked for changes
\* nothing of the calls.
LEMMA SessionMoves ==
    ASSUME NoneApart, NEW s \in CallType, NEW k, NEW r,
           NEW e \in [current : SessionType, made : Nat],
           NEW f \in [current : SessionType, made : Nat],
           e.made <= f.made,
           f.current.id = e.current.id \/ f.current.id = None \/ f.current.id \notin 0 .. e.made,
           CallOK(s, k, r, e)
    PROVE  CallOK(s, k, r, f)
<1>0. e.made \in Nat /\ f.made \in Nat OBVIOUS
<1>1. \A i \in 1 .. e.made : i \in 1 .. f.made /\ i # None
  BY <1>0 DEF NoneApart
<1>2. s.kind = "list" /\ s.at # "returned" => s.session \in 1 .. e.made
  BY DEF CallOK
<1>3. ASSUME NEW t \in Threads PROVE FilterOK(s, t, k, r, f)
  <2>1. FilterOK(s, t, k, r, e) BY DEF CallOK
  <2>2. ASSUME s.filter[t] # None, s.filter[t].at = "done", s.session # e.current.id
        PROVE  s.session # f.current.id
    <3>1. s.kind = "list" /\ s.at = "filtering" BY <2>1, <2>2 DEF FilterOK
    <3>2. s.session \in 1 .. e.made BY <1>2, <3>1
    <3>3. s.session # None /\ s.session \in 0 .. e.made BY <1>1, <3>2
    <3> QED BY <2>2, <3>3
  <2> QED BY <2>1, <2>2 DEF FilterOK
<1> QED BY <1>1, <1>2, <1>3 DEF CallOK

\* What this device is told of ends the session, and sends every check of the
\* conversation round again.
LEMMA TellingMoves ==
    ASSUME NoneApart, NEW s \in CallType, NEW m \in Messages, NEW k \in SUBSET Messages,
           NEW r \in [Threads -> Nat],
           NEW e \in [current : SessionType, made : Nat],
           CallOK(s, k, r, e)
    PROVE  CallOK(s, k \cup {m}, [r EXCEPT ![m[1]] = @ + 1], [e EXCEPT !.current = NoSession])
<1> DEFINE q == [r EXCEPT ![m[1]] = @ + 1]
           f == [e EXCEPT !.current = NoSession]
<1>0. m[1] \in Threads BY DEF Threads
<1>1. /\ f.current.id = None /\ f.made = e.made /\ e.made \in Nat
  BY DEF NoSession
<1>2. s.kind = "list" /\ s.at # "returned" => s.session \in 1 .. e.made
  BY DEF CallOK
<1>3. ASSUME NEW t \in Threads PROVE FilterOK(s, t, k \cup {m}, q, f)
  <2>1. FilterOK(s, t, k, r, e) BY DEF CallOK
  <2>2. r[t] \in Nat /\ q[t] = (IF t = m[1] THEN r[t] + 1 ELSE r[t]) OBVIOUS
  <2>3. CASE s.filter[t] = None BY <2>3 DEF FilterOK
  <2>4. CASE s.filter[t] # None
    <3>1. s.filter[t] \in FilterType BY <2>4 DEF CallType
    <3>2. s.filter[t].revision \in Nat BY <3>1 DEF FilterType
    <3>3. s.at = "filtering" /\ t \in s.threads /\ s.filter[t].revision <= r[t]
      BY <2>1, <2>4 DEF FilterOK
    <3>4. s.filter[t].revision <= q[t] BY <2>2, <3>2, <3>3
    <3>5. ASSUME s.filter[t].at = "answered", s.filter[t].revision = q[t]
          PROVE  (k \cup {m}) \cap Of(t) \subseteq s.filter[t].gone
      <4>1. t # m[1] /\ q[t] = r[t] BY <2>2, <3>2, <3>3, <3>5
      <4>2. m \notin Of(t) BY <4>1 DEF Of
      <4>3. k \cap Of(t) \subseteq s.filter[t].gone BY <2>1, <2>4, <3>5, <4>1 DEF FilterOK
      <4> QED BY <4>2, <4>3
    <3>6. ASSUME s.filter[t].at = "done" PROVE s.kind = "list" /\ s.session # f.current.id
      <4>1. s.kind = "list" BY <2>1, <2>4, <3>6 DEF FilterOK
      <4>2. s.session \in Nat BY <1>1, <1>2, <3>3, <4>1
      <4> QED BY <1>1, <4>1, <4>2 DEF NoneApart
    <3> QED BY <3>3, <3>4, <3>5, <3>6 DEF FilterOK
  <2> QED BY <2>3, <2>4
<1> QED BY <1>1, <1>2, <1>3 DEF CallOK

-----------------------------------------------------------------------------
(* Sessions *)

LEMMA ClearedOK ==
    ASSUME NoneApart, NEW k, NEW e \in [current : SessionType, made : Nat]
    PROVE  /\ [e EXCEPT !.current = NoSession] \in [current : SessionType, made : Nat]
           /\ SessionOK([e EXCEPT !.current = NoSession], k)
<1>1. NoSession \in SessionType BY IdleTypes
<1> QED BY <1>1 DEF SessionOK, NoSession

-----------------------------------------------------------------------------
(* Steps *)

\* The step of a call that does not return, and of a session that goes on, ends
\* or is made new, of what is known and told no more.
LEMMA CallStep ==
    ASSUME NoneApart, SurfaceInv, NEW c \in Calls, NEW s \in CallType,
           call' = [call EXCEPT ![c] = s],
           s.at = "returned" => s.shown \cap known = {} \/ s.kind = "list",
           UNCHANGED <<deleted, events, known, revisions>>,
           session' \in [current : SessionType, made : Nat],
           session.made <= session'.made,
           \/ session'.current.id = session.current.id
           \/ session'.current.id = None
           \/ session'.current.id \notin 0 .. session.made,
           SessionOK(session', known), CallOK(s, known, revisions, session'),
           SnapshotsAdvance
    PROVE  Step
<1>1. SurfaceTypes' BY DEF SurfaceInv, SurfaceTypes
<1>2. ASSUME NEW b \in Calls PROVE CallOK(call[b], known, revisions, session)'
  <2>1. CASE b = c
    <3>1. call'[b] = s BY <2>1 DEF SurfaceInv, SurfaceTypes
    <3> QED BY <3>1 DEF CallOK, FilterOK
  <2>2. CASE b # c
    <3>1. call'[b] = call[b] /\ call[b] \in CallType BY <2>2 DEF SurfaceInv, SurfaceTypes
    <3>2. CallOK(call[b], known, revisions, session) BY DEF SurfaceInv
    <3>3. session \in [current : SessionType, made : Nat] BY DEF SurfaceInv, SurfaceTypes
    <3>4. CallOK(call[b], known, revisions, session') BY <3>1, <3>2, <3>3, SessionMoves
    <3> QED BY <3>1, <3>4 DEF CallOK, FilterOK
  <2> QED BY <2>1, <2>2
<1>3. SurfaceInv'
  <2>1. SessionOK(session, known)' BY DEF SessionOK
  <2> QED BY <1>1, <1>2, <2>1 DEF SurfaceInv, Of
<1>4. ReturnsUndeleted
  BY DEF ReturnsUndeleted, SurfaceInv, SurfaceTypes
<1> QED BY <1>3, <1>4 DEF Step

\* The step of a call that leaves the session alone.
LEMMA QuietStep ==
    ASSUME NoneApart, SurfaceInv, NEW c \in Calls, NEW s \in CallType,
           call' = [call EXCEPT ![c] = s], s.at # "returned",
           UNCHANGED <<deleted, events, known, revisions, session>>,
           CallOK(s, known, revisions, session)
    PROVE  Step
<1>1. session \in [current : SessionType, made : Nat] BY DEF SurfaceInv, SurfaceTypes
<1>2. SnapshotsAdvance BY <1>1 DEF SnapshotsAdvance, SessionType, SnapshotType
<1>3. SessionOK(session', known) BY DEF SurfaceInv
<1>4. session.made <= session'.made BY <1>1
<1> QED BY <1>1, <1>2, <1>3, <1>4, CallStep

\* The step of the session alone, which loses its snapshot.
LEMMA SessionStep ==
    ASSUME NoneApart, SurfaceInv,
           UNCHANGED <<deleted, events, known, revisions, call>>,
           session' = Cleared \/ session' = [session EXCEPT !.current.snapshot = None]
    PROVE  Step
<1>1. session \in [current : SessionType, made : Nat] BY DEF SurfaceInv, SurfaceTypes
<1>2. /\ session' \in [current : SessionType, made : Nat] /\ session'.made = session.made
      /\ session'.current.snapshot = None
      /\ session'.current.id = session.current.id \/ session'.current.id = None
  BY <1>1, ClearedOK DEF Cleared, NoSession, SessionType
<1>3. SessionOK(session, known)'
  BY <1>1, <1>2 DEF SessionOK, SurfaceInv, NoneApart
<1>4. ASSUME NEW b \in Calls PROVE CallOK(call[b], known, revisions, session)'
  <2>1. call'[b] = call[b] /\ call[b] \in CallType BY DEF SurfaceInv, SurfaceTypes
  <2>2. CallOK(call[b], known, revisions, session) BY DEF SurfaceInv
  <2>3. session.made <= session'.made BY <1>1, <1>2
  <2>4. CallOK(call[b], known, revisions, session') BY <1>1, <1>2, <2>1, <2>2, <2>3, SessionMoves
  <2> QED BY <2>1, <2>4 DEF CallOK, FilterOK
<1>5. SurfaceInv' BY <1>2, <1>3, <1>4 DEF SurfaceInv, SurfaceTypes, Of
<1>6. ReturnsUndeleted /\ SnapshotsAdvance BY <1>2 DEF ReturnsUndeleted, SnapshotsAdvance
<1> QED BY <1>5, <1>6 DEF Step

\* What this device is told of; one call at most goes on at once.
LEMMA ToldStep ==
    ASSUME NoneApart, SurfaceInv, NEW m \in deleted, Told(m),
           deleted' = deleted, events' \in SUBSET deleted,
           call' \in [Calls -> CallType],
           \A b \in Calls : \/ call'[b] = call[b]
                            \/ /\ call'[b].at # "returned"
                               /\ CallOK(call'[b], known', revisions', session')
    PROVE  Step
<1>0. /\ session \in [current : SessionType, made : Nat] /\ revisions \in [Threads -> Nat]
      /\ known \in SUBSET Messages /\ m \in Messages /\ m[1] \in Threads
  BY DEF SurfaceInv, SurfaceTypes, Threads
<1>1. /\ known' = known \cup {m} /\ revisions' = [revisions EXCEPT ![m[1]] = @ + 1]
      /\ session' = [session EXCEPT !.current = NoSession]
  BY DEF Told, Cleared
<1>2. SurfaceTypes' BY <1>0, <1>1, ClearedOK DEF SurfaceInv, SurfaceTypes
<1>3. SessionOK(session, known)'
  <2>1. SessionOK(session', known') BY <1>0, <1>1, ClearedOK
  <2> QED BY <2>1 DEF SessionOK
<1>4. ASSUME NEW t \in Threads, revisions'[t] = 0 PROVE known' \cap Of(t) = {}
  <2>1. t # m[1] /\ revisions[t] = 0 BY <1>0, <1>1, <1>4
  <2> QED BY <1>1, <2>1 DEF SurfaceInv, Of
<1>5. ASSUME NEW b \in Calls PROVE CallOK(call[b], known, revisions, session)'
  <2>1. CASE call'[b] = call[b]
    <3>1. call[b] \in CallType /\ CallOK(call[b], known, revisions, session)
      BY DEF SurfaceInv, SurfaceTypes
    <3>2. CallOK(call[b], known', revisions', session') BY <1>0, <1>1, <3>1, TellingMoves
    <3> QED BY <2>1, <3>2 DEF CallOK, FilterOK
  <2>2. CASE call'[b] # call[b] BY <2>2 DEF CallOK, FilterOK
  <2> QED BY <2>1, <2>2
<1>6. SurfaceInv' BY <1>2, <1>3, <1>4, <1>5 DEF SurfaceInv, Of
<1>7. ReturnsUndeleted BY DEF ReturnsUndeleted
<1>8. SnapshotsAdvance BY <1>0, <1>1 DEF SnapshotsAdvance, NoSession
<1> QED BY <1>6, <1>7, <1>8 DEF Step

\* A call that filters: what is done shows nothing that is known, unless it is a
\* list's whose session has ended.
Filtering(s) ==
    /\ s.at = "filtering" /\ s.kind # "none"
    /\ s.kind = "list" => s.session \in 1 .. session.made
    /\ s.kind \in {"open", "delete"} => \E t \in Threads : s.threads = {t}
    /\ \A t \in s.threads : s.filter[t] # None
    /\ \A t \in Threads :
        LET f == s.filter[t]
        IN  f # None =>
                /\ t \in s.threads /\ f.revision <= revisions[t]
                /\ f.at = "answered" /\ f.revision = revisions[t] => known \cap Of(t) \subseteq f.gone
                /\ f.at = "done" => \/ known \cap Of(t) \subseteq f.gone
                                    \/ s.kind = "list" /\ s.session # session.current.id

\* The step after which a call waits for a check, or returns.
LEMMA GoesStep ==
    ASSUME NoneApart, SurfaceInv, NEW c \in Calls, NEW s \in CallType,
           Filtering(s), Goes(c, s),
           call[c].session = s.session, call[c].revision = s.revision,
           UNCHANGED <<deleted, events, known, revisions>>
    PROVE  Step
<1>0. session \in [current : SessionType, made : Nat] BY DEF SurfaceInv, SurfaceTypes
<1>1. CASE \E t \in s.threads : s.filter[t].at # "done"
  <2>1. call' = [call EXCEPT ![c] = s] /\ session' = session BY <1>1 DEF Goes, Become
  <2>2. ASSUME NEW t \in Threads PROVE FilterOK(s, t, known, revisions, session)
    <3>1. ASSUME s.filter[t] # None, s.filter[t].at = "done" PROVE s.kind = "list"
      <4>1. t \in s.threads BY <3>1 DEF Filtering
      <4>2. ~ (s.kind \in {"open", "delete"}) BY <1>1, <3>1, <4>1 DEF Filtering
      <4> QED BY <4>2 DEF Filtering, CallType
    <3> QED BY <3>1 DEF Filtering, FilterOK
  <2>3. CallOK(s, known, revisions, session) BY <2>2 DEF Filtering, CallOK
  <2>4. s.at # "returned" BY DEF Filtering
  <2> QED BY <2>1, <2>3, <2>4, QuietStep
<1>2. CASE \A t \in s.threads : s.filter[t].at = "done"
  <2> DEFINE shown == UNION {Of(t) \ s.filter[t].gone : t \in s.threads}
             u == [Idle EXCEPT !.at = "returned", !.kind = s.kind, !.shown = shown]
  <2>1. /\ call' = [call EXCEPT ![c] = u]
        /\ session' = IF s.kind = "list" /\ Kept(c)
                      THEN [session EXCEPT !.current.snapshot = [shown |-> shown, asked |-> s.revision]]
                      ELSE session
    BY <1>2 DEF Goes, Become
  <2>2. s.threads \subseteq Threads BY DEF CallType
  <2>3. shown \in SUBSET Messages BY DEF Of
  <2>4. u \in CallType /\ u.at = "returned" /\ u.kind = s.kind /\ u.shown = shown
    BY <2>3, IdleTypes DEF CallType, Idle
  <2>5. CallOK(u, known, revisions, session')
    <3>1. u.kind # "none" BY <2>4 DEF Filtering
    <3>2. \A t \in Threads : u.filter[t] = None BY DEF Idle
    <3>3. u.at = "returned" BY <2>4
    <3> HIDE DEF u
    <3> QED BY <3>1, <3>2, <3>3, Unfiltering
  <2>6. ASSUME s.kind # "list" \/ s.session = session.current.id PROVE shown \cap known = {}
    <3>1. ASSUME NEW t \in s.threads PROVE known \cap Of(t) \subseteq s.filter[t].gone
      BY <1>2, <2>2, <2>6 DEF Filtering
    <3> QED BY <3>1
  <2>7. CASE s.kind = "list" /\ Kept(c)
    <3>1. /\ s.session = session.current.id /\ s.revision = session.current.revision
          /\ s.revision \in Nat
      BY <2>7 DEF Kept, Active, CallType
    <3>2. /\ session' \in [current : SessionType, made : Nat] /\ session'.made = session.made
          /\ session'.current.id = session.current.id
          /\ session'.current.revision = session.current.revision
          /\ session'.current.snapshot = [shown |-> shown, asked |-> s.revision]
      <4>1. [shown |-> shown, asked |-> s.revision] \in SnapshotType BY <2>3, <3>1 DEF SnapshotType
      <4> HIDE DEF shown
      <4> QED BY <1>0, <2>1, <2>7, <4>1 DEF SessionType
    <3>3. shown \cap known = {} BY <2>6, <3>1
    <3>4. SessionOK(session', known)
      <4> HIDE DEF shown
      <4> QED BY <1>0, <3>1, <3>2, <3>3 DEF SessionOK, SurfaceInv
    <3>5. SnapshotsAdvance
      <4> HIDE DEF shown
      <4> QED BY <3>1, <3>2 DEF SnapshotsAdvance, SurfaceInv, SessionOK
    <3>6. u.at = "returned" => u.shown \cap known = {} \/ u.kind = "list" BY <2>4, <2>7
    <3>7. session.made <= session'.made BY <1>0, <3>2
    <3> HIDE DEF shown, u
    <3> QED BY <2>1, <2>4, <2>5, <3>2, <3>4, <3>5, <3>6, <3>7, CallStep
  <2>8. CASE ~ (s.kind = "list" /\ Kept(c))
    <3>1. session' = session BY <2>1, <2>8
    <3>2. u.at = "returned" => u.shown \cap known = {} \/ u.kind = "list" BY <2>4, <2>6
    <3>3. SnapshotsAdvance BY <1>0, <3>1 DEF SnapshotsAdvance, SessionType, SnapshotType
    <3>4. SessionOK(session', known) BY <3>1 DEF SurfaceInv
    <3>5. session.made <= session'.made BY <1>0, <3>1
    <3> HIDE DEF shown, u
    <3> QED BY <1>0, <2>1, <2>4, <2>5, <3>1, <3>2, <3>3, <3>4, <3>5, CallStep
  <2> QED BY <2>7, <2>8
<1> QED BY <1>1, <1>2

-----------------------------------------------------------------------------
(* The calls' steps *)

\* Filters that have just started.
LEMMA Started ==
    ASSUME NoneApart, SurfaceInv, NEW c \in Calls, NEW force \in BOOLEAN,
           call[c].kind # "none", call[c].at # "returned",
           call[c].kind = "list" => call[c].session \in 1 .. session.made
    PROVE  LET s == [call[c] EXCEPT !.at = "filtering", !.filter = StartFilters(c, force)]
           IN  s \in CallType /\ Filtering(s)
<1> DEFINE s == [call[c] EXCEPT !.at = "filtering", !.filter = StartFilters(c, force)]
           g(t) == Filter(c, t, [Unfiltered EXCEPT !.force = force])
<1>0. call[c] \in CallType /\ revisions \in [Threads -> Nat] BY DEF SurfaceInv, SurfaceTypes
<1>1. ASSUME NEW t \in Threads
      PROVE  /\ g(t) \in FilterType /\ g(t) # None
             /\ g(t).at \in {"checking", "done"} /\ g(t).revision <= revisions[t]
             /\ g(t).at = "done" => known \cap Of(t) = {}
  <2>1. /\ [Unfiltered EXCEPT !.force = force] \in FilterType
        /\ [Unfiltered EXCEPT !.force = force].revision = 0
    BY DEF Unfiltered, FilterType
  <2>2. g(t) \in FilterType /\ g(t).at \in {"checking", "done"} /\ g(t).revision <= revisions[t]
    <3> DEFINE h == [Unfiltered EXCEPT !.force = force]
    <3>1. revisions[t] \in Nat BY <1>0
    <3>2. g(t) = IF NeedsCheck(h, t, call[c].flagged)
                 THEN [h EXCEPT !.at = "checking", !.revision = revisions[t]]
                 ELSE [h EXCEPT !.at = "done"]
      BY DEF Filter
    <3>3. h \in FilterType /\ h.revision = 0 BY <2>1
    <3> HIDE DEF h, g
    <3>4. CASE NeedsCheck(h, t, call[c].flagged)
      <4>1. g(t) = [h EXCEPT !.at = "checking", !.revision = revisions[t]] BY <3>2, <3>4
      <4>2. g(t) \in FilterType BY <3>1, <3>3, <4>1 DEF FilterType
      <4>3. g(t).at = "checking" /\ g(t).revision = revisions[t] BY <3>3, <4>1 DEF FilterType
      <4> QED BY <3>1, <4>2, <4>3
    <3>5. CASE ~ NeedsCheck(h, t, call[c].flagged)
      <4>1. g(t) = [h EXCEPT !.at = "done"] BY <3>2, <3>5
      <4> QED BY <3>1, <3>3, <4>1 DEF FilterType
    <3> QED BY <3>4, <3>5
  <2>3. ASSUME g(t).at = "done" PROVE known \cap Of(t) = {}
    <3>1. ~ NeedsCheck([Unfiltered EXCEPT !.force = force], t, call[c].flagged)
      BY <2>3 DEF Filter, Unfiltered
    <3>2. revisions[t] = 0 BY <1>0, <3>1 DEF NeedsCheck
    <3> QED BY <3>2 DEF SurfaceInv
  <2>4. g(t) # None BY <2>2 DEF NoneApart
  <2> HIDE DEF g
  <2> QED BY <2>2, <2>3, <2>4
<1>2. StartFilters(c, force) = [t \in Threads |-> IF t \in call[c].threads THEN g(t) ELSE None]
  BY DEF StartFilters
<1>3. StartFilters(c, force) \in [Threads -> FilterType \cup {None}]
  <2> HIDE DEF g
  <2> QED BY <1>1, <1>2
<1>4. /\ s \in CallType /\ s.at = "filtering" /\ s.kind = call[c].kind
      /\ s.session = call[c].session /\ s.threads = call[c].threads
      /\ s.filter = StartFilters(c, force)
  BY <1>0, <1>3 DEF CallType
<1>5. s.threads \subseteq Threads BY <1>0, <1>4 DEF CallType
<1>6. CallOK(call[c], known, revisions, session) BY DEF SurfaceInv
<1>7. \A t \in Threads : s.filter[t] = IF t \in s.threads THEN g(t) ELSE None
  BY <1>2, <1>4
<1> HIDE DEF s, g
<1>8. Filtering(s)
  BY <1>1, <1>4, <1>5, <1>6, <1>7 DEF Filtering, CallOK
<1> QED BY <1>4, <1>8 DEF s

LEMMA ServerChecksStep ==
    ASSUME NoneApart, SurfaceInv, NEW c \in Calls, NEW t \in Threads, ServerChecks(c, t)
    PROVE  Step
<1> DEFINE f == [call[c].filter[t] EXCEPT !.at = "answered", !.gone = deleted \cap Of(t)]
           s == [call[c] EXCEPT !.filter = [@ EXCEPT ![t] = f]]
<1>0. /\ call[c] \in CallType /\ call \in [Calls -> CallType]
      /\ deleted \in SUBSET Messages /\ known \in SUBSET deleted
      /\ CallOK(call[c], known, revisions, session)
  BY DEF SurfaceInv, SurfaceTypes
<1>1. call[c].filter[t] \in FilterType BY <1>0 DEF ServerChecks, CallType
<1>2. /\ f \in FilterType /\ f.at = "answered" /\ f.gone = deleted \cap Of(t)
      /\ f.revision = call[c].filter[t].revision
  BY <1>0, <1>1 DEF FilterType
<1>3. f # None /\ call[c].filter[t] # None BY <1>1, <1>2 DEF NoneApart
<1>4. /\ s \in CallType /\ s.filter = [call[c].filter EXCEPT ![t] = f]
      /\ s.kind = call[c].kind /\ s.at = call[c].at /\ s.session = call[c].session
      /\ s.threads = call[c].threads /\ s.message = call[c].message
  <2> HIDE DEF f
  <2> QED BY <1>0, <1>2 DEF CallType
<1>5. call' = [call EXCEPT ![c] = s]
  <2> DEFINE one == [call EXCEPT ![c].filter[t].at = "answered"]
             h == [call[c].filter[t] EXCEPT !.at = "answered"]
             r == [call[c] EXCEPT !.filter = [@ EXCEPT ![t] = h]]
  <2>1. call' = [one EXCEPT ![c].filter[t].gone = deleted \cap Of(t)]
    BY DEF ServerChecks
  <2>2. one = [call EXCEPT ![c] = r] BY <1>0
  <2>3. h \in FilterType BY <1>1 DEF FilterType
  <2>4. r \in CallType /\ r.filter = [call[c].filter EXCEPT ![t] = h]
    <3> HIDE DEF h
    <3> QED BY <1>0, <2>3 DEF CallType
  <2>5. one[c] = r /\ r.filter[t] = h
    <3> HIDE DEF h, r, one
    <3> QED BY <1>0, <2>2, <2>4 DEF CallType
  <2>6. f = [h EXCEPT !.gone = deleted \cap Of(t)] BY <1>1 DEF FilterType
  <2>7. s = [r EXCEPT !.filter = [@ EXCEPT ![t] = f]]
    <3> HIDE DEF f, h
    <3> QED BY <1>0, <1>2, <2>3 DEF CallType
  <2>8. call' = [one EXCEPT ![c] = [one[c] EXCEPT !.filter =
                    [one[c].filter EXCEPT ![t] = [one[c].filter[t] EXCEPT !.gone = deleted \cap Of(t)]]]]
    <3> HIDE DEF one
    <3> QED BY <2>1
  <2>9. call' = [one EXCEPT ![c] = s]
    <3> HIDE DEF one, h, r, f, s
    <3> QED BY <2>5, <2>6, <2>7, <2>8
  <2> HIDE DEF h, r, f, s
  <2> QED BY <1>0, <2>2, <2>9
<1>6. FilterOK(call[c], t, known, revisions, session) BY <1>0 DEF CallOK
<1>7. call[c].at = "filtering" /\ t \in call[c].threads /\ f.revision <= revisions[t]
  BY <1>2, <1>3, <1>6 DEF FilterOK
<1>8. \A u \in Threads : s.filter[u] = IF u = t THEN f ELSE call[c].filter[u]
  BY <1>0, <1>4 DEF CallType
<1> HIDE DEF f, s
<1>9. ASSUME NEW u \in Threads PROVE FilterOK(s, u, known, revisions, session)
  <2>1. CASE u = t BY <1>0, <1>2, <1>4, <1>7, <1>8, <2>1 DEF FilterOK
  <2>2. CASE u # t
    <3>1. FilterOK(call[c], u, known, revisions, session) BY <1>0 DEF CallOK
    <3> QED BY <1>4, <1>8, <2>2, <3>1 DEF FilterOK
  <2> QED BY <2>1, <2>2
<1>10. CallOK(s, known, revisions, session)
  <2>1. s.threads \subseteq Threads BY <1>4 DEF CallType
  <2> QED BY <1>0, <1>3, <1>4, <1>8, <1>9, <2>1 DEF CallOK
<1> QED BY <1>4, <1>5, <1>7, <1>10, QuietStep DEF ServerChecks

\* A check that arrived is taken, or posted again.
LEMMA ArrivedFilters ==
    ASSUME NoneApart, SurfaceInv, NEW c \in Calls, NEW t \in Threads,
           call[c].filter[t] # None, call[c].filter[t].at = "answered"
    PROVE  LET s == [call[c] EXCEPT !.filter[t] = Checked(@, t)]
           IN  /\ s \in CallType /\ Filtering(s)
               /\ s.session = call[c].session /\ s.revision = call[c].revision
<1> DEFINE f == Checked(call[c].filter[t], t)
           s == [call[c] EXCEPT !.filter[t] = Checked(@, t)]
<1>0. /\ call[c] \in CallType /\ revisions \in [Threads -> Nat]
      /\ CallOK(call[c], known, revisions, session)
  BY DEF SurfaceInv, SurfaceTypes
<1>1. call[c].filter[t] \in FilterType BY <1>0 DEF CallType
<1>2. FilterOK(call[c], t, known, revisions, session) BY <1>0 DEF CallOK
<1>3. /\ call[c].at = "filtering" /\ t \in call[c].threads
      /\ call[c].filter[t].revision = revisions[t] => known \cap Of(t) \subseteq call[c].filter[t].gone
  BY <1>2 DEF FilterOK
<1>4. /\ f \in FilterType /\ f # None /\ f.revision <= revisions[t]
      /\ f.at # "answered"
      /\ f.at = "done" => known \cap Of(t) \subseteq f.gone
  <2>1. CASE revisions[t] = call[c].filter[t].revision
    <3>1. /\ f \in FilterType /\ f.at = "done" /\ f.gone = call[c].filter[t].gone
          /\ f.revision = revisions[t]
      BY <1>1, <2>1 DEF Checked, FilterType
    <3> QED BY <1>0, <1>3, <2>1, <3>1 DEF NoneApart
  <2>2. CASE revisions[t] # call[c].filter[t].revision
    <3>1. f \in FilterType /\ f.at = "checking" /\ f.revision = revisions[t]
      BY <1>0, <2>2 DEF Checked, FilterType, Unfiltered
    <3> QED BY <1>0, <3>1 DEF NoneApart
  <2> QED BY <2>1, <2>2
<1>5. /\ s \in CallType /\ s.filter = [call[c].filter EXCEPT ![t] = f]
      /\ s.kind = call[c].kind /\ s.at = call[c].at /\ s.session = call[c].session
      /\ s.threads = call[c].threads /\ s.revision = call[c].revision
  <2>1. s = [call[c] EXCEPT !.filter = [@ EXCEPT ![t] = f]] BY <1>0 DEF CallType
  <2>2. f \in FilterType BY <1>4
  <2> HIDE DEF f, s
  <2> QED BY <1>0, <2>1, <2>2 DEF CallType
<1>6. \A u \in Threads : s.filter[u] = IF u = t THEN f ELSE call[c].filter[u]
  BY <1>0, <1>5 DEF CallType
<1>7. s.threads \subseteq Threads BY <1>5 DEF CallType
<1> HIDE DEF f, s
<1>8. s.kind # "none" /\ (s.kind = "list" => s.session \in 1 .. session.made)
      /\ (s.kind \in {"open", "delete"} => \E u \in Threads : s.threads = {u})
  BY <1>0, <1>3, <1>5 DEF CallOK
<1>9. \A u \in s.threads : s.filter[u] # None BY <1>0, <1>3, <1>4, <1>5, <1>6, <1>7 DEF CallOK
<1>10. ASSUME NEW u \in Threads, s.filter[u] # None
       PROVE  /\ u \in s.threads /\ s.filter[u].revision <= revisions[u]
              /\ s.filter[u].at = "answered" /\ s.filter[u].revision = revisions[u]
                    => known \cap Of(u) \subseteq s.filter[u].gone
              /\ s.filter[u].at = "done" => \/ known \cap Of(u) \subseteq s.filter[u].gone
                                            \/ s.kind = "list" /\ s.session # session.current.id
  <2>1. CASE u = t BY <1>3, <1>4, <1>5, <1>6, <2>1
  <2>2. CASE u # t
    <3>1. FilterOK(call[c], u, known, revisions, session) BY <1>0 DEF CallOK
    <3> QED BY <1>5, <1>6, <1>10, <2>2, <3>1 DEF FilterOK
  <2> QED BY <2>1, <2>2
<1>11. Filtering(s) BY <1>3, <1>5, <1>8, <1>9, <1>10 DEF Filtering
<1> QED BY <1>5, <1>11 DEF s

\* A call that fails or is given up.
LEMMA GivenUp ==
    ASSUME NoneApart, SurfaceInv, NEW c \in Calls, Become(c, Idle),
           UNCHANGED <<deleted, events, known, revisions, session>>
    PROVE  Step
<1>1. Idle \in CallType /\ Idle.at # "returned" BY IdleTypes DEF Idle
<1> QED BY <1>1, IdleOK, QuietStep DEF Become

LEMMA CheckArrivesStep ==
    ASSUME NoneApart, SurfaceInv, NEW c \in Calls, NEW t \in Threads, CheckArrives(c, t)
    PROVE  Step
<1> DEFINE s == [call[c] EXCEPT !.filter[t] = Checked(@, t)]
<1>1. /\ s \in CallType /\ Filtering(s)
      /\ s.session = call[c].session /\ s.revision = call[c].revision
  BY ArrivedFilters DEF CheckArrives
<1>2. Goes(c, s) \/ (Become(c, Idle) /\ UNCHANGED session) BY DEF CheckArrives
<1> HIDE DEF s
<1> QED BY <1>1, <1>2, GoesStep, GivenUp DEF CheckArrives

LEMMA ListThreadsStep ==
    ASSUME NoneApart, SurfaceInv, NEW c \in Calls, ListThreads(c)
    PROVE  Step
<1> DEFINE fresh == session.current.id = None
           current == IF fresh THEN [NoSession EXCEPT !.id = session.made + 1] ELSE session.current
           e == [current |-> [current EXCEPT !.revision = @ + 1],
                 made |-> IF fresh THEN session.made + 1 ELSE session.made]
           s == [Idle EXCEPT !.kind = "list", !.at = "asking", !.session = current.id,
                     !.revision = current.revision + 1, !.threads = Threads, !.flagged = deleted]
<1>0. /\ session \in [current : SessionType, made : Nat] /\ session.made \in Nat
      /\ session.current \in SessionType
      /\ deleted \in SUBSET Messages /\ SessionOK(session, known)
  BY DEF SurfaceInv, SurfaceTypes
<1>1. session' = e /\ call' = [call EXCEPT ![c] = s] BY DEF ListThreads, Become
<1>2. /\ current \in SessionType
      /\ fresh => current.id = session.made + 1 /\ current.snapshot = None
      /\ ~ fresh => current = session.current
  <2>1. [NoSession EXCEPT !.id = session.made + 1] \in SessionType
    BY <1>0 DEF NoSession, SessionType
  <2> QED BY <1>0, <2>1 DEF NoSession
<1>3. /\ e \in [current : SessionType, made : Nat]
      /\ e.made = IF fresh THEN session.made + 1 ELSE session.made
      /\ e.current.id = current.id /\ e.current.snapshot = current.snapshot
      /\ e.current.revision = current.revision + 1
  <2> HIDE DEF current
  <2> QED BY <1>0, <1>2 DEF SessionType
<1>4. current.id \in 1 .. e.made
  <2> HIDE DEF current, e
  <2> QED BY <1>0, <1>2, <1>3 DEF SessionOK
<1>5. s \in CallType /\ s.at = "asking" /\ s.kind = "list" /\ s.session = current.id
      /\ \A t \in Threads : s.filter[t] = None
  <2>1. current.id \in Nat \cup {None} /\ current.revision + 1 \in Nat
    BY <1>2 DEF SessionType
  <2> HIDE DEF current
  <2> QED BY <1>0, <2>1, IdleTypes DEF CallType, Idle
<1> HIDE DEF s, e, current
<1>6. CallOK(s, known, revisions, session') BY <1>1, <1>4, <1>5, Unfiltering
<1>7. SessionOK(session', known)
  <2>1. current.revision \in Nat BY <1>2 DEF SessionType
  <2>2. current.snapshot # None => current.snapshot \in SnapshotType BY <1>2 DEF SessionType
  <2>3. current.snapshot # None => /\ current.snapshot.shown \cap known = {}
                                   /\ current.snapshot.asked <= current.revision
                                   /\ current.snapshot.asked \in Nat
    BY <1>0, <1>2, <2>2 DEF SessionOK, SnapshotType
  <2> QED BY <1>1, <1>3, <1>4, <2>1, <2>3 DEF SessionOK
<1>8. SnapshotsAdvance
  <2>1. CASE fresh
    <3>1. session'.current.snapshot = None BY <1>1, <1>2, <1>3, <2>1
    <3> QED BY <3>1 DEF SnapshotsAdvance
  <2>2. CASE ~ fresh
    <3>1. session'.current.snapshot = session.current.snapshot BY <1>1, <1>2, <1>3, <2>2
    <3> QED BY <1>0, <3>1 DEF SnapshotsAdvance, SessionType, SnapshotType
  <2> QED BY <2>1, <2>2
<1>9. session.made <= session'.made BY <1>0, <1>1, <1>3
<1>10. session'.current.id = session.current.id \/ session'.current.id \notin 0 .. session.made
  BY <1>0, <1>1, <1>2, <1>3
<1>11. UNCHANGED <<deleted, events, known, revisions>> BY DEF ListThreads
<1> QED BY <1>1, <1>3, <1>5, <1>6, <1>7, <1>8, <1>9, <1>10, <1>11, CallStep

LEMMA PageArrivesStep ==
    ASSUME NoneApart, SurfaceInv, NEW c \in Calls, PageArrives(c)
    PROVE  Step
<1>0. /\ session \in [current : SessionType, made : Nat] /\ session.made \in Nat
      /\ call[c] \in CallType /\ deleted \in SUBSET Messages
      /\ CallOK(call[c], known, revisions, session)
  BY DEF SurfaceInv, SurfaceTypes
<1>1. UNCHANGED <<deleted, events, known, revisions>> /\ call[c].kind = "list" /\ call[c].at = "asking"
  BY DEF PageArrives
<1>2. CASE /\ \E flagged \in Answers(c) :
                 Become(c, [call[c] EXCEPT !.at = "decorating", !.flagged = flagged])
           /\ UNCHANGED session
  <2>1. PICK flagged \in Answers(c) :
            Become(c, [call[c] EXCEPT !.at = "decorating", !.flagged = flagged])
    BY <1>2
  <2> DEFINE s == [call[c] EXCEPT !.at = "decorating", !.flagged = flagged]
  <2>2. flagged \in SUBSET Messages BY <1>0 DEF Answers
  <2>3. /\ s \in CallType /\ s.at = "decorating" /\ s.kind = "list"
        /\ s.filter = call[c].filter /\ s.session = call[c].session
    BY <1>0, <1>1, <2>2 DEF CallType
  <2>4. call' = [call EXCEPT ![c] = s] BY <2>1 DEF Become
  <2> HIDE DEF s
  <2>5. \A t \in Threads : s.filter[t] = None BY <1>0, <1>1, <2>3 DEF CallOK, FilterOK
  <2>6. s.session \in 1 .. session.made BY <1>0, <1>1, <2>3 DEF CallOK
  <2>7. CallOK(s, known, revisions, session) BY <2>3, <2>5, <2>6, Unfiltering
  <2> QED BY <1>1, <1>2, <2>3, <2>4, <2>7, QuietStep
<1>3. CASE Become(c, Idle) /\ session' = session BY <1>1, <1>3, GivenUp
<1>4. CASE Become(c, Idle) /\ session' = Cleared
  <2>1. Idle \in CallType /\ Idle.at # "returned" BY IdleTypes DEF Idle
  <2>2. /\ session' \in [current : SessionType, made : Nat] /\ SessionOK(session', known)
        /\ session'.current.snapshot = None /\ session'.current.id = None
        /\ session.made <= session'.made
    BY <1>0, <1>4, ClearedOK DEF Cleared, NoSession
  <2>3. SnapshotsAdvance BY <2>2 DEF SnapshotsAdvance
  <2> QED BY <1>1, <1>4, <2>1, <2>2, <2>3, IdleOK, CallStep DEF Become
<1> QED BY <1>2, <1>3, <1>4 DEF PageArrives

\* The filters start.
LEMMA StartStep ==
    ASSUME NoneApart, SurfaceInv, NEW c \in Calls,
           call[c].kind # "none", call[c].at # "returned",
           Goes(c, [call[c] EXCEPT !.at = "filtering", !.filter = StartFilters(c, FALSE)]),
           UNCHANGED <<deleted, events, known, revisions>>
    PROVE  Step
<1> DEFINE s == [call[c] EXCEPT !.at = "filtering", !.filter = StartFilters(c, FALSE)]
<1>0. call[c] \in CallType /\ CallOK(call[c], known, revisions, session)
  BY DEF SurfaceInv, SurfaceTypes
<1>1. call[c].kind = "list" => call[c].session \in 1 .. session.made
  BY <1>0 DEF CallOK
<1>2. s \in CallType /\ Filtering(s) BY <1>1, Started
<1>3. s.session = call[c].session /\ s.revision = call[c].revision BY <1>0 DEF CallType
<1> HIDE DEF s
<1> QED BY <1>2, <1>3, GoesStep DEF s

LEMMA DecoratedStep ==
    ASSUME NoneApart, SurfaceInv, NEW c \in Calls, Decorated(c)
    PROVE  Step
<1>1. call[c].kind # "none" /\ call[c].at # "returned"
      /\ UNCHANGED <<deleted, events, known, revisions>>
  BY DEF Decorated
<1>2. CASE Active(c) BY <1>1, <1>2, StartStep DEF Decorated
<1>3. CASE ~ Active(c) BY <1>1, <1>3, GivenUp DEF Decorated
<1> QED BY <1>2, <1>3

LEMMA OpenedStep ==
    ASSUME NoneApart, SurfaceInv, NEW c \in Calls, Opened(c)
    PROVE  Step
<1>1. call[c].at = "opened" /\ UNCHANGED <<deleted, events, known, revisions>>
  BY DEF Opened
<1>2. call[c].kind # "none" BY <1>1 DEF SurfaceInv, CallOK
<1> QED BY <1>1, <1>2, StartStep DEF Opened

LEMMA OpenThreadStep ==
    ASSUME NoneApart, SurfaceInv, NEW c \in Calls, NEW t \in Threads, OpenThread(c, t)
    PROVE  Step
<1> DEFINE s == [Idle EXCEPT !.kind = "open", !.at = "asking", !.threads = {t}, !.flagged = deleted]
<1>0. deleted \in SUBSET Messages BY DEF SurfaceInv, SurfaceTypes
<1>1. /\ s \in CallType /\ s.at = "asking" /\ s.kind = "open" /\ s.threads = {t}
      /\ \A u \in Threads : s.filter[u] = None
  BY <1>0, IdleTypes DEF CallType, Idle
<1>2. call' = [call EXCEPT ![c] = s] BY DEF OpenThread, Become
<1> HIDE DEF s
<1>3. CallOK(s, known, revisions, session) BY <1>1, Unfiltering
<1> QED BY <1>1, <1>2, <1>3, QuietStep DEF OpenThread

LEMMA OpenArrivesStep ==
    ASSUME NoneApart, SurfaceInv, NEW c \in Calls, OpenArrives(c)
    PROVE  Step
<1>0. /\ call[c] \in CallType /\ deleted \in SUBSET Messages
      /\ CallOK(call[c], known, revisions, session)
  BY DEF SurfaceInv, SurfaceTypes
<1>1. call[c].kind = "open" /\ call[c].at = "asking" BY DEF OpenArrives
<1>2. PICK flagged \in Answers(c) :
          Become(c, [call[c] EXCEPT !.at = "opened", !.flagged = flagged])
  BY DEF OpenArrives
<1> DEFINE s == [call[c] EXCEPT !.at = "opened", !.flagged = flagged]
<1>3. flagged \in SUBSET Messages BY <1>0 DEF Answers
<1>4. /\ s \in CallType /\ s.at = "opened" /\ s.kind = "open"
      /\ s.filter = call[c].filter /\ s.threads = call[c].threads
  BY <1>0, <1>1, <1>3 DEF CallType
<1>5. call' = [call EXCEPT ![c] = s] BY <1>2 DEF Become
<1> HIDE DEF s
<1>6. \A t \in Threads : s.filter[t] = None BY <1>0, <1>1, <1>4 DEF CallOK, FilterOK
<1>7. \E t \in Threads : s.threads = {t} BY <1>0, <1>1, <1>4 DEF CallOK
<1>8. CallOK(s, known, revisions, session) BY <1>4, <1>6, <1>7, Unfiltering
<1> QED BY <1>4, <1>5, <1>8, QuietStep DEF OpenArrives

LEMMA DeleteContentStep ==
    ASSUME NoneApart, SurfaceInv, NEW c \in Calls, NEW m \in Messages, DeleteContent(c, m)
    PROVE  Step
<1> DEFINE s == [Idle EXCEPT !.kind = "delete", !.at = "asking", !.threads = {m[1]}, !.message = m]
<1>0. m[1] \in Threads BY DEF Threads
<1>1. /\ s \in CallType /\ s.at = "asking" /\ s.kind = "delete" /\ s.threads = {m[1]}
      /\ s.message = m /\ \A u \in Threads : s.filter[u] = None
  BY <1>0, IdleTypes DEF CallType, Idle
<1>2. call' = [call EXCEPT ![c] = s] BY DEF DeleteContent, Become
<1> HIDE DEF s
<1>3. CallOK(s, known, revisions, session) BY <1>0, <1>1, Unfiltering
<1> QED BY <1>1, <1>2, <1>3, QuietStep DEF DeleteContent

LEMMA DeletedStep ==
    ASSUME NoneApart, SurfaceInv, NEW c \in Calls, Deleted(c)
    PROVE  Step
<1> DEFINE m == call[c].message
           f == [Unfiltered EXCEPT !.at = "checking", !.force = TRUE, !.revision = revisions[m[1]] + 1]
           s == [call[c] EXCEPT !.at = "filtering", !.message = None,
                     !.filter = Forced(m[1], revisions[m[1]] + 1)]
<1>0. /\ call[c] \in CallType /\ call \in [Calls -> CallType] /\ revisions \in [Threads -> Nat]
      /\ CallOK(call[c], known, revisions, session) /\ events \in SUBSET deleted
  BY DEF SurfaceInv, SurfaceTypes
<1>1. call[c].kind = "delete" /\ call[c].at = "asking" /\ UNCHANGED <<deleted, events>>
  BY DEF Deleted
<1>2. m \in Messages /\ m[1] \in Threads /\ call[c].threads = {m[1]}
  BY <1>0, <1>1 DEF CallOK, Threads
<1>3. CASE Become(c, Idle) /\ UNCHANGED <<known, revisions, session>>
  BY <1>1, <1>3, GivenUp
<1>4. CASE m \in deleted /\ Told(m) /\ Become(c, s)
  <2>1. f \in FilterType /\ f.at = "checking" /\ f.revision = revisions[m[1]] + 1
    <3>1. revisions[m[1]] + 1 \in Nat BY <1>0, <1>2
    <3> HIDE DEF m
    <3> QED BY <3>1, IdleTypes DEF FilterType
  <2>2. Forced(m[1], revisions[m[1]] + 1) = [t \in Threads |-> IF t # m[1] THEN None ELSE f]
    BY DEF Forced
  <2>3. f # None BY <2>1 DEF NoneApart
  <2>4. /\ s \in CallType /\ s.at = "filtering" /\ s.kind = "delete" /\ s.threads = {m[1]}
        /\ s.filter = [t \in Threads |-> IF t # m[1] THEN None ELSE f]
    <3>1. Forced(m[1], revisions[m[1]] + 1) \in [Threads -> FilterType \cup {None}]
      <4> HIDE DEF f
      <4> QED BY <2>1, <2>2
    <3> HIDE DEF f
    <3> QED BY <1>0, <1>1, <1>2, <2>2, <3>1 DEF CallType
  <2>5. call' = [call EXCEPT ![c] = s] BY <1>4 DEF Become
  <2>6. revisions'[m[1]] = revisions[m[1]] + 1 BY <1>0, <1>2, <1>4 DEF Told
  <2>7. \A t \in Threads : s.filter[t] = IF t # m[1] THEN None ELSE f
    BY <2>4
  <2> HIDE DEF f, s, m
  <2>8. ASSUME NEW t \in Threads PROVE FilterOK(s, t, known', revisions', session')
    <3>1. revisions[m[1]] + 1 <= revisions[m[1]] + 1 BY <1>0, <1>2
    <3> QED BY <2>1, <2>4, <2>6, <2>7, <3>1 DEF FilterOK
  <2>9. CallOK(s, known', revisions', session')
    BY <1>2, <2>3, <2>4, <2>7, <2>8 DEF CallOK
  <2>10. /\ call' \in [Calls -> CallType]
         /\ \A b \in Calls : call'[b] = call[b] \/ call'[b] = s
    BY <1>0, <2>4, <2>5
  <2>11. deleted' = deleted /\ events' \in SUBSET deleted BY <1>0, <1>1
  <2>12. s.at # "returned" BY <2>4
  <2> QED BY <1>4, <2>9, <2>10, <2>11, <2>12, ToldStep
<1> QED BY <1>3, <1>4 DEF Deleted

-----------------------------------------------------------------------------
(* The steps of the server, its socket and the host *)

LEMMA VisibilityStep ==
    ASSUME NoneApart, SurfaceInv, NEW m \in Messages, VisibilityUpdated(m)
    PROVE  Step
<1>1. /\ m \in deleted /\ Told(m) /\ deleted' = deleted /\ events' \in SUBSET deleted
      /\ call' = call /\ call \in [Calls -> CallType]
  BY DEF VisibilityUpdated, SurfaceInv, SurfaceTypes
<1> QED BY <1>1, ToldStep

LEMMA ServerDeletesStep ==
    ASSUME NoneApart, SurfaceInv, NEW m \in Messages, ServerDeletes(m)
    PROVE  Step
<1>1. UNCHANGED <<known, revisions, session, call>>
      /\ deleted' = deleted \cup {m} /\ events' = events \cup {m}
  BY DEF ServerDeletes
<1>2. SurfaceTypes' BY <1>1 DEF SurfaceInv, SurfaceTypes
<1>3. ASSUME NEW b \in Calls PROVE CallOK(call[b], known, revisions, session)'
  BY <1>1 DEF SurfaceInv, CallOK, FilterOK
<1>4. SurfaceInv' BY <1>1, <1>2, <1>3 DEF SurfaceInv, SessionOK, Of
<1>5. session.current \in SessionType BY DEF SurfaceInv, SurfaceTypes
<1>6. ReturnsUndeleted /\ SnapshotsAdvance
  BY <1>1, <1>5 DEF ReturnsUndeleted, SnapshotsAdvance, SessionType, SnapshotType
<1> QED BY <1>4, <1>6 DEF Step

-----------------------------------------------------------------------------

LEMMA SurfaceInit == ASSUME NoneApart, Init PROVE SurfaceInv
<1>1. SurfaceTypes BY IdleTypes DEF Init, SurfaceTypes
<1>2. SessionOK(session, known) BY DEF Init, SessionOK, NoSession
<1>3. \A c \in Calls : CallOK(call[c], known, revisions, session) BY IdleOK DEF Init
<1> QED BY <1>1, <1>2, <1>3 DEF SurfaceInv, Init

LEMMA SurfaceNext == ASSUME NoneApart, SurfaceInv, [Next]_vars PROVE Step
<1>1. CASE Expire BY <1>1, SessionStep DEF Expire
<1>2. CASE ClearThreadListSnapshot BY <1>2, SessionStep DEF ClearThreadListSnapshot
<1>3. ASSUME NEW m \in Messages, ServerDeletes(m) \/ VisibilityUpdated(m) PROVE Step
  BY <1>3, ServerDeletesStep, VisibilityStep
<1>4. ASSUME NEW c \in Calls,
             \/ ListThreads(c) \/ PageArrives(c) \/ Decorated(c)
             \/ OpenArrives(c) \/ Opened(c) \/ Deleted(c)
      PROVE  Step
  BY <1>4, ListThreadsStep, PageArrivesStep, DecoratedStep, OpenArrivesStep, OpenedStep, DeletedStep
<1>5. ASSUME NEW c \in Calls, NEW m \in Messages, DeleteContent(c, m) PROVE Step
  BY <1>5, DeleteContentStep
<1>6. ASSUME NEW c \in Calls, NEW t \in Threads,
             OpenThread(c, t) \/ ServerChecks(c, t) \/ CheckArrives(c, t)
      PROVE  Step
  BY <1>6, OpenThreadStep, ServerChecksStep, CheckArrivesStep
<1>7. CASE UNCHANGED vars
  <2>1. UNCHANGED <<deleted, events, known, revisions, session, call>> BY <1>7 DEF vars
  <2>2. SurfaceTypes' BY <2>1 DEF SurfaceInv, SurfaceTypes
  <2>3. ASSUME NEW b \in Calls PROVE CallOK(call[b], known, revisions, session)'
    BY <2>1 DEF SurfaceInv, CallOK, FilterOK
  <2>4. SurfaceInv' BY <2>1, <2>2, <2>3 DEF SurfaceInv, SessionOK, Of
  <2>5. session.current \in SessionType BY DEF SurfaceInv, SurfaceTypes
  <2>6. ReturnsUndeleted /\ SnapshotsAdvance
    BY <2>1, <2>5 DEF ReturnsUndeleted, SnapshotsAdvance, SessionType, SnapshotType
  <2> QED BY <2>4, <2>6 DEF Step
<1> QED BY <1>1, <1>2, <1>3, <1>4, <1>5, <1>6, <1>7 DEF Next

\* While messages are deleted, the snapshot a list is painted from shows none
\* that this device was told of: a page that was under way belongs to a session
\* that has ended, and a check that was is posted again.
THEOREM SnapshotsShowNoDeleted == NoneApart => (Spec => []SnapshotUndeleted)
<1> SUFFICES ASSUME NoneApart PROVE Spec => []SnapshotUndeleted OBVIOUS
<1>1. Init => SurfaceInv BY SurfaceInit
<1>2. SurfaceInv /\ [Next]_vars => SurfaceInv' BY SurfaceNext DEF Step
<1>3. SurfaceInv => SnapshotUndeleted BY DEF SurfaceInv, SessionOK, SnapshotUndeleted
<1> QED BY <1>1, <1>2, <1>3, PTL DEF Spec

\* A conversation opened, or returned by a deletion, shows nothing that this
\* device was told is deleted by then; and of two first pages in flight the one
\* asked for first never replaces the other in the snapshot.
THEOREM SurfaceReturnsUndeleted ==
    NoneApart => (Spec => [][ReturnsUndeleted /\ SnapshotsAdvance]_vars)
<1> SUFFICES ASSUME NoneApart PROVE Spec => [][ReturnsUndeleted /\ SnapshotsAdvance]_vars
  OBVIOUS
<1>1. Init => SurfaceInv BY SurfaceInit
<1>2. SurfaceInv /\ [Next]_vars => SurfaceInv' BY SurfaceNext DEF Step
<1>3. SurfaceInv /\ [Next]_vars => [ReturnsUndeleted /\ SnapshotsAdvance]_vars
  BY SurfaceNext DEF Step
<1> QED BY <1>1, <1>2, <1>3, PTL DEF Spec

-----------------------------------------------------------------------------
(* The location shared with Connect *)

Consenting == [account : Accounts, enabled : BOOLEAN]
Operation == [generation : Nat, account : Accounts, behind : Nat,
              at : {"waiting", "permission", "locating", "publishing", "persisting"}]
Write == [account : Accounts, time : Location!Times]
Position == [session : Consenting \cup {None}, generation : Nat, lastAttempt : Location!Times,
             success : Location!Times, pending : Nat \cup {None}, foreground : BOOLEAN]

LocationTypes ==
    /\ position \in Position
    /\ ops \in SUBSET Operation
    /\ writes \in Seq(Write)
    /\ success \in [Accounts -> Location!Times]
    /\ consent \in [Accounts -> {TRUE, FALSE, None}]

\* An operation of the current generation is of the account that is configured,
\* with its consent.
Owners ==
    \A op \in ops :
        /\ op.generation <= position.generation
        /\ op.generation = position.generation =>
            position.session = [account |-> op.account, enabled |-> TRUE]

\* When the writes w over the stored times s are done nothing is left of an
\* account: the last of it, or what is stored if there is none, is no time.
Forgets(a, w, s) ==
    \E i \in 0 .. Len(w) :
        /\ IF i = 0 THEN s[a] = None ELSE w[i] = [account |-> a, time |-> None]
        /\ \A j \in i + 1 .. Len(w) : w[j].account = a => w[j].time = None

\* Who has withdrawn the consent will be forgotten, and is not configured as consenting.
Withdrawn ==
    \A a \in Accounts : consent[a] = FALSE =>
        /\ Forgets(a, writes, success)
        /\ position.session # [account |-> a, enabled |-> TRUE]

LocationInv == LocationTypes /\ Owners /\ Withdrawn

\* None is no account, no session, no consent and no time.
LocationValues ==
    /\ None \notin Accounts /\ None \notin Consenting /\ None \notin {"recent", "old"}
    /\ None # TRUE /\ None # FALSE

LEMMA ForgottenAfter ==
    ASSUME NEW a \in Accounts, NEW w \in Seq(Write),
           NEW s \in [Accounts -> Location!Times],
           NEW b \in Accounts, NEW time \in Location!Times,
           \/ b = a /\ time = None
           \/ b # a /\ Forgets(a, w, s)
    PROVE  Forgets(a, Append(w, [account |-> b, time |-> time]), s)
<1> DEFINE v == Append(w, [account |-> b, time |-> time])
<1>1. /\ Len(v) = Len(w) + 1 /\ Len(w) \in Nat
      /\ v[Len(w) + 1] = [account |-> b, time |-> time]
      /\ \A j \in 1 .. Len(w) : v[j] = w[j]
  <2>1. [account |-> b, time |-> time] \in Write BY DEF Write
  <2> QED BY <2>1
<1> HIDE DEF v
<1>2. CASE b = a /\ time = None
  <2>1. /\ Len(v) \in 0 .. Len(v) /\ Len(v) # 0 /\ v[Len(v)] = [account |-> a, time |-> None]
        /\ Len(v) + 1 .. Len(v) = {}
    BY <1>1, <1>2
  <2> QED BY <2>1 DEF Forgets, v
<1>3. CASE b # a /\ Forgets(a, w, s)
  <2>1. PICK i \in 0 .. Len(w) :
            /\ IF i = 0 THEN s[a] = None ELSE w[i] = [account |-> a, time |-> None]
            /\ \A j \in i + 1 .. Len(w) : w[j].account = a => w[j].time = None
    BY <1>3 DEF Forgets
  <2>2. i \in 0 .. Len(v) /\ (i # 0 => v[i] = w[i]) BY <1>1
  <2>3. ASSUME NEW j \in i + 1 .. Len(v), v[j].account = a PROVE v[j].time = None
    <3>1. j # Len(w) + 1 BY <1>1, <1>3, <2>3
    <3>2. j \in i + 1 .. Len(w) /\ v[j] = w[j] BY <1>1, <3>1
    <3> QED BY <2>1, <2>3, <3>2
  <2> QED BY <2>1, <2>2, <2>3 DEF Forgets, v
<1> QED BY <1>2, <1>3

\* The first write ends, or what it wrote does not matter for it failed.
LEMMA ForgottenWritten ==
    ASSUME NEW a \in Accounts, NEW w \in Seq(Write),
           NEW s \in [Accounts -> Location!Times], w # <<>>, Forgets(a, w, s),
           NEW r \in [Accounts -> Location!Times],
           r = [s EXCEPT ![w[1].account] = w[1].time]
    PROVE  Forgets(a, Tail(w), r)
<1> DEFINE v == Tail(w)
<1>1. /\ Len(w) \in Nat /\ Len(w) # 0 /\ Len(v) = Len(w) - 1
      /\ \A j \in 1 .. Len(v) : v[j] = w[j + 1]
      /\ w[1] \in Write
  OBVIOUS
<1> HIDE DEF v
<1>0. w[1] \in [account : Accounts, time : Location!Times] BY <1>1 DEF Write
<1>2. PICK i \in 0 .. Len(w) :
          /\ IF i = 0 THEN s[a] = None ELSE w[i] = [account |-> a, time |-> None]
          /\ \A j \in i + 1 .. Len(w) : w[j].account = a => w[j].time = None
  BY DEF Forgets
<1>3. ASSUME NEW n \in 0 .. Len(v), n + 1 >= i, NEW j \in n + 1 .. Len(v), v[j].account = a
      PROVE  v[j].time = None
  <2>1. j + 1 \in i + 1 .. Len(w) /\ v[j] = w[j + 1] BY <1>1, <1>3
  <2> QED BY <1>2, <1>3, <2>1
<1>4. CASE i <= 1
  <2>1. r[a] = None
    <3>1. CASE i = 1 BY <1>1, <1>0, <1>2, <3>1
    <3>2. CASE i = 0
      <4>1. 1 \in i + 1 .. Len(w) BY <1>1, <3>2
      <4> QED BY <1>1, <1>0, <1>2, <3>2, <4>1
    <3> QED BY <1>4, <3>1, <3>2
  <2>2. 0 \in 0 .. Len(v) /\ 0 + 1 >= i BY <1>1, <1>4
  <2> QED BY <1>3, <2>1, <2>2 DEF Forgets, v
<1>5. CASE i > 1
  <2>1. i - 1 \in 0 .. Len(v) /\ i - 1 # 0 /\ (i - 1) + 1 >= i BY <1>1, <1>5
  <2>2. v[i - 1] = [account |-> a, time |-> None] BY <1>1, <1>2, <1>5, <2>1
  <2>3. \A j \in (i - 1) + 1 .. Len(v) : v[j].account = a => v[j].time = None BY <1>3, <2>1
  <2> HIDE DEF Forgets
  <2> QED BY <2>1, <2>2, <2>3 DEF Forgets, v
<1> QED BY <1>4, <1>5

\* Times that grow old are forgotten no less.
LEMMA ForgottenAged ==
    ASSUME LocationValues, NEW a \in Accounts,
           NEW w \in Seq(Write),
           NEW s \in [Accounts -> Location!Times], Forgets(a, w, s)
    PROVE  LET v == [i \in DOMAIN w |-> [w[i] EXCEPT !.time = Location!Aged(@)]]
           IN  /\ v \in Seq(Write)
               /\ Forgets(a, v, [b \in Accounts |-> Location!Aged(s[b])])
<1> DEFINE v == [i \in DOMAIN w |-> [w[i] EXCEPT !.time = Location!Aged(@)]]
           r == [b \in Accounts |-> Location!Aged(s[b])]
<1>0. DOMAIN w = 1 .. Len(w) /\ Len(w) \in Nat OBVIOUS
<1>1. ASSUME NEW i \in 1 .. Len(w)
      PROVE  /\ v[i] \in Write
             /\ v[i].account = w[i].account
             /\ w[i].time = None => v[i].time = None
  <2>1. w[i] \in Write BY <1>0
  <2>2. v[i] = [w[i] EXCEPT !.time = Location!Aged(w[i].time)] BY <1>0
  <2>3. Location!Aged(w[i].time) \in Location!Times BY DEF Location!Aged, Location!Times
  <2> HIDE DEF v
  <2> QED BY <2>1, <2>2, <2>3 DEF Location!Aged, Write
<1>2. v \in [1 .. Len(w) -> Write] BY <1>0, <1>1
<1>3. v \in Seq(Write) /\ Len(v) = Len(w)
  <2> HIDE DEF v
  <2> QED BY <1>0, <1>2
<1>4. PICK i \in 0 .. Len(w) :
          /\ IF i = 0 THEN s[a] = None ELSE w[i] = [account |-> a, time |-> None]
          /\ \A j \in i + 1 .. Len(w) : w[j].account = a => w[j].time = None
  BY DEF Forgets
<1> HIDE DEF v
<1>5. i = 0 => r[a] = None BY <1>4 DEF Location!Aged
<1>6. i # 0 => v[i] = [account |-> a, time |-> None]
  <2> SUFFICES ASSUME i # 0 PROVE v[i] = [account |-> a, time |-> None] OBVIOUS
  <2>1. i \in 1 .. Len(w) BY <1>0
  <2>2. v[i].account = a /\ v[i].time = None BY <1>1, <1>4, <2>1
  <2> QED BY <1>1, <2>1, <2>2 DEF Write
<1>7. \A j \in i + 1 .. Len(v) : v[j].account = a => v[j].time = None
  BY <1>0, <1>1, <1>3, <1>4
<1> HIDE DEF r
<1> QED BY <1>3, <1>4, <1>5, <1>6, <1>7 DEF Forgets, r, v

LEMMA OwnersKept ==
    ASSUME Owners, \A op \in ops' : \E o \in ops : o.generation = op.generation /\ o.account = op.account,
           position'.session = position.session, position'.generation = position.generation
    PROVE  Owners'
BY DEF Owners

LEMMA WithdrawnKept ==
    ASSUME Withdrawn, UNCHANGED <<writes, success, consent>>, position'.session = position.session
    PROVE  Withdrawn'
BY DEF Withdrawn, Forgets

\* What an operation does between its awaits is to end, or to go on as it is
\* with the session it has.
LEMMA OperationStep ==
    ASSUME LocationInv, NEW op \in ops, UNCHANGED <<writes, success, consent>>,
           \/ Location!Ended(op)
           \/ \E at \in {"permission", "locating", "publishing"} :
                /\ Location!Goes(op, at)
                /\ position' = position \/ position' = [position EXCEPT !.lastAttempt = "recent"]
    PROVE  LocationInv'
<1>0. op \in Operation /\ position \in Position /\ ops \in SUBSET Operation
  BY DEF LocationInv, LocationTypes
<1>1. /\ position' \in Position /\ position'.session = position.session
      /\ position'.generation = position.generation
  BY <1>0 DEF Location!Ended, Position, Location!Times
<1>2. /\ ops' \in SUBSET Operation
      /\ \A o \in ops' : \E p \in ops : p.generation = o.generation /\ p.account = o.account
  <2>1. CASE Location!Ended(op) BY <1>0, <2>1 DEF Location!Ended
  <2>2. ASSUME NEW at \in {"permission", "locating", "publishing"}, Location!Goes(op, at)
        PROVE  /\ ops' \in SUBSET Operation
               /\ \A o \in ops' : \E q \in ops : q.generation = o.generation /\ q.account = o.account
    <3> DEFINE p == [op EXCEPT !.at = at]
    <3>1. p \in Operation /\ p.generation = op.generation /\ p.account = op.account
      BY <1>0 DEF Operation
    <3>2. ops' = (ops \ {op}) \cup {p} BY <2>2 DEF Location!Goes
    <3> HIDE DEF p
    <3> QED BY <1>0, <3>1, <3>2
  <2> QED BY <2>1, <2>2
<1>3. LocationTypes' BY <1>1, <1>2 DEF LocationInv, LocationTypes
<1>4. Owners' BY <1>1, <1>2, OwnersKept DEF LocationInv
<1>5. Withdrawn' BY <1>1, WithdrawnKept DEF LocationInv
<1> QED BY <1>3, <1>4, <1>5 DEF LocationInv

LEMMA PublishedStep ==
    ASSUME LocationValues, LocationInv, NEW op \in ops, Location!Published(op)
    PROVE  LocationInv'
<1>0. /\ op \in Operation /\ op.account \in Accounts /\ position \in Position
      /\ ops \in SUBSET Operation /\ writes \in Seq(Write) /\ Len(writes) \in Nat
      /\ success \in [Accounts -> Location!Times] /\ UNCHANGED <<success, consent>>
  BY DEF LocationInv, LocationTypes, Operation, Location!Published
<1>1. CASE Location!Current(op)
  <2> DEFINE p == [op EXCEPT !.at = "persisting", !.behind = Len(writes')]
  <2>1. /\ position' = [position EXCEPT !.success = "recent"]
        /\ writes' = Append(writes, [account |-> op.account, time |-> "recent"])
        /\ ops' = (ops \ {op}) \cup {p}
    BY <1>1 DEF Location!Published, Location!Persisted
  <2>2. [account |-> op.account, time |-> "recent"] \in Write BY <1>0 DEF Write, Location!Times
  <2>3. writes' \in Seq(Write) /\ Len(writes') \in Nat BY <1>0, <2>1, <2>2
  <2>4. /\ position' \in Position /\ position'.session = position.session
        /\ position'.generation = position.generation
    BY <1>0, <2>1 DEF Position, Location!Times
  <2>5. p \in Operation /\ p.generation = op.generation /\ p.account = op.account
    BY <1>0, <2>3 DEF Operation
  <2> HIDE DEF p
  <2>6. LocationTypes' BY <1>0, <2>1, <2>3, <2>4, <2>5 DEF LocationInv, LocationTypes
  <2>7. Owners' BY <2>1, <2>4, <2>5, OwnersKept DEF LocationInv
  <2>8. position.session = [account |-> op.account, enabled |-> TRUE]
    BY <1>1 DEF Location!Current, LocationInv, Owners
  <2>9. ASSUME NEW a \in Accounts, consent[a] = FALSE PROVE Forgets(a, writes', success)
    <3>1. Forgets(a, writes, success) /\ op.account # a
      BY <2>8, <2>9 DEF LocationInv, Withdrawn
    <3> QED BY <1>0, <2>1, <3>1, ForgottenAfter DEF Location!Times
  <2>10. Withdrawn' BY <1>0, <2>4, <2>9 DEF LocationInv, Withdrawn, Forgets
  <2> QED BY <2>6, <2>7, <2>10 DEF LocationInv
<1>2. CASE ~ Location!Current(op)
  BY <1>2, OperationStep DEF Location!Published
<1> QED BY <1>1, <1>2

LEMMA ConfigureStep ==
    ASSUME LocationValues, LocationInv, NEW a \in Accounts \cup {None}, NEW enabled \in BOOLEAN,
           Location!Configure(a, enabled)
    PROVE  LocationInv'
<1> DEFINE asks == IF a = None THEN None ELSE [account |-> a, enabled |-> enabled]
<1>0. /\ position \in Position /\ position.generation \in Nat
      /\ ops \in SUBSET Operation /\ writes \in Seq(Write)
      /\ success \in [Accounts -> Location!Times] /\ consent \in [Accounts -> {TRUE, FALSE, None}]
      /\ ops' = ops /\ success' = success
  BY DEF LocationInv, LocationTypes, Position, Location!Configure
<1>1. asks \in Consenting \cup {None} BY DEF Consenting
<1>2. /\ position' \in Position /\ position'.session = asks
      /\ position'.generation = position.generation + 1
  <2> HIDE DEF asks
  <2>1. position' = [position EXCEPT !.generation = @ + 1, !.pending = None, !.lastAttempt = None,
                                     !.success = None, !.session = asks]
    BY <1>0 DEF Location!Configure, Location!Cancelled, asks, Position
  <2>2. None \in Location!Times BY DEF Location!Times
  <2>5. /\ position.generation + 1 \in Nat /\ position.foreground \in BOOLEAN
        /\ None \in Nat \cup {None}
    BY <1>0 DEF Position
  <2>6. position' = [session |-> asks, generation |-> position.generation + 1,
                     lastAttempt |-> None, success |-> None, pending |-> None,
                     foreground |-> position.foreground]
    BY <1>0, <2>1 DEF Position
  <2>3. position' \in Position BY <1>1, <2>2, <2>5, <2>6 DEF Position
  <2>4. DOMAIN position = {"session", "generation", "lastAttempt", "success", "pending", "foreground"}
    BY <1>0 DEF Position
  <2> QED BY <2>1, <2>3, <2>4
<1>3. Owners'
  <2>1. ASSUME NEW op \in ops PROVE op.generation \in Nat /\ op.generation <= position.generation
    BY <1>0 DEF LocationInv, Owners, Operation
  <2>2. ASSUME NEW op \in ops PROVE op.generation < position.generation + 1 BY <1>0, <2>1
  <2> QED BY <1>0, <1>2, <2>1, <2>2 DEF Owners
<1>4. CASE a = None
  <2>1. UNCHANGED <<writes, consent>> /\ position'.session = None BY <1>2, <1>4 DEF Location!Configure
  <2>2. LocationTypes' BY <1>0, <1>2, <2>1 DEF LocationTypes
  <2>3. \A b \in Accounts : None # [account |-> b, enabled |-> TRUE]
    <3>1. \A b \in Accounts : [account |-> b, enabled |-> TRUE] \in Consenting BY DEF Consenting
    <3> QED BY <3>1 DEF LocationValues
  <2>4. Withdrawn' BY <1>0, <2>1, <2>3 DEF LocationInv, Withdrawn, Forgets
  <2> QED BY <1>3, <2>2, <2>4 DEF LocationInv
<1>5. CASE a # None
  <2>1. /\ a \in Accounts /\ consent' = [consent EXCEPT ![a] = enabled]
        /\ writes' = IF enabled THEN writes ELSE Append(writes, [account |-> a, time |-> None])
        /\ position'.session = [account |-> a, enabled |-> enabled]
    BY <1>2, <1>5 DEF Location!Configure, Location!Persisted
  <2>2. [account |-> a, time |-> None] \in Write BY <2>1 DEF Write, Location!Times
  <2>3. writes' \in Seq(Write) BY <1>0, <2>1, <2>2
  <2>4. LocationTypes' BY <1>0, <1>2, <2>1, <2>3 DEF LocationTypes
  <2>5. ASSUME NEW b \in Accounts, consent'[b] = FALSE
        PROVE  Forgets(b, writes', success) /\ position'.session # [account |-> b, enabled |-> TRUE]
    <3>1. CASE b = a
      <4>1. enabled = FALSE BY <1>0, <2>1, <2>5, <3>1
      <4>2. Forgets(b, writes', success)
        BY <1>0, <2>1, <3>1, <4>1, ForgottenAfter DEF Location!Times
      <4> QED BY <2>1, <4>1, <4>2
    <3>2. CASE b # a
      <4>1. Forgets(b, writes, success) BY <1>0, <2>1, <2>5, <3>2 DEF LocationInv, Withdrawn
      <4>2. Forgets(b, writes', success)
        <5>1. CASE enabled BY <2>1, <4>1, <5>1
        <5>2. CASE ~enabled
          BY <1>0, <2>1, <3>2, <4>1, <5>2, ForgottenAfter DEF Location!Times
        <5> QED BY <5>1, <5>2
      <4> QED BY <2>1, <3>2, <4>2
    <3> QED BY <3>1, <3>2
  <2>6. Withdrawn' BY <1>0, <2>5 DEF Withdrawn, Forgets
  <2> QED BY <1>3, <2>4, <2>6 DEF LocationInv
<1> QED BY <1>4, <1>5

LEMMA HideStep == ASSUME LocationInv, Location!Hide PROVE LocationInv'
<1>0. /\ position \in Position /\ position.generation \in Nat /\ ops \in SUBSET Operation
      /\ UNCHANGED <<ops, writes, success, consent>>
  BY DEF LocationInv, LocationTypes, Position, Location!Hide
<1>1. CASE position.session # None /\ position.session.enabled
  <2>1. position' = [position EXCEPT !.generation = @ + 1, !.pending = None, !.lastAttempt = None,
                                     !.foreground = FALSE]
    BY <1>0, <1>1 DEF Location!Hide, Location!Cancelled, Position
  <2>2. /\ position' \in Position /\ position'.session = position.session
        /\ position'.generation = position.generation + 1
    <3>1. None \in Location!Times BY DEF Location!Times
    <3>5. /\ position.generation + 1 \in Nat /\ None \in Nat \cup {None}
          /\ position.session \in Consenting \cup {None} /\ position.success \in Location!Times
      BY <1>0 DEF Position
    <3>6. position' = [session |-> position.session, generation |-> position.generation + 1,
                       lastAttempt |-> None, success |-> position.success, pending |-> None,
                       foreground |-> FALSE]
      BY <1>0, <2>1 DEF Position
    <3>2. position' \in Position BY <3>1, <3>5, <3>6 DEF Position
    <3>3. DOMAIN position = {"session", "generation", "lastAttempt", "success", "pending", "foreground"}
      BY <1>0 DEF Position
    <3> QED BY <2>1, <3>2, <3>3
  <2>3. ASSUME NEW op \in ops
        PROVE  op.generation <= position.generation + 1 /\ op.generation # position.generation + 1
    <3>1. op.generation \in Nat /\ op.generation <= position.generation
      BY <1>0 DEF LocationInv, Owners, Operation
    <3> QED BY <1>0, <3>1
  <2>4. Owners' BY <1>0, <2>2, <2>3 DEF Owners
  <2> QED BY <1>0, <2>2, <2>4, WithdrawnKept DEF LocationInv, LocationTypes
<1>2. CASE ~ (position.session # None /\ position.session.enabled)
  <2>1. /\ position' \in Position /\ position'.session = position.session
        /\ position'.generation = position.generation
    BY <1>0, <1>2 DEF Location!Hide, Position
  <2> QED BY <1>0, <2>1, OwnersKept, WithdrawnKept DEF LocationInv, LocationTypes
<1> QED BY <1>1, <1>2

LEMMA RefreshStep == ASSUME LocationValues, LocationInv, Location!Refresh PROVE LocationInv'
<1> DEFINE op == [generation |-> position.generation, account |-> position.session.account,
                  at |-> "waiting", behind |-> Len(writes)]
<1>0. /\ position \in Position /\ position.generation \in Nat /\ position.session \in Consenting
      /\ position.session.enabled /\ ops \in SUBSET Operation
      /\ writes \in Seq(Write) /\ Len(writes) \in Nat
      /\ UNCHANGED <<writes, success, consent>> /\ ops' = ops \cup {op}
  BY DEF LocationInv, LocationTypes, Position, Location!Refresh
<1>1. position.session = [account |-> op.account, enabled |-> TRUE]
  <2>1. position.session.enabled = TRUE BY <1>0 DEF Consenting
  <2> QED BY <1>0, <2>1 DEF Consenting
<1>2. op \in Operation /\ op.generation = position.generation
  BY <1>0 DEF Operation, Consenting
<1> HIDE DEF op
<1>3. /\ position' \in Position /\ position'.session = position.session
      /\ position'.generation = position.generation
  BY <1>0 DEF Location!Refresh, Position
<1>4. Owners'
  <2>1. ASSUME NEW o \in ops \cup {op}
        PROVE  /\ o.generation <= position.generation
               /\ o.generation = position.generation =>
                   position.session = [account |-> o.account, enabled |-> TRUE]
    <3>1. CASE o \in ops BY <3>1 DEF LocationInv, Owners
    <3>2. CASE o = op BY <1>0, <1>1, <1>2, <3>2
    <3> QED BY <2>1, <3>1, <3>2
  <2> QED BY <1>0, <1>3, <2>1 DEF Owners
<1> QED BY <1>0, <1>2, <1>3, <1>4, WithdrawnKept DEF LocationInv, LocationTypes

LEMMA WrittenStep ==
    ASSUME LocationValues, LocationInv, NEW ok \in BOOLEAN, Location!Written(ok)
    PROVE  LocationInv'
<1>0. /\ writes \in Seq(Write) /\ writes # <<>> /\ writes' = Tail(writes) /\ position' = position
      /\ ops' = {[op EXCEPT !.behind = IF @ = 0 THEN 0 ELSE @ - 1] : op \in ops}
      /\ ops \in SUBSET Operation /\ position \in Position
      /\ success \in [Accounts -> Location!Times] /\ consent \in [Accounts -> {TRUE, FALSE, None}]
  BY DEF LocationInv, LocationTypes, Location!Written
<1>1. writes' \in Seq(Write) /\ writes[1] \in Write /\ Head(writes) = writes[1] BY <1>0
<1>2. writes[1].account \in Accounts /\ writes[1].time \in Location!Times BY <1>1 DEF Write
<1>3. /\ ops' \in SUBSET Operation
      /\ \A op \in ops' : \E o \in ops : o.generation = op.generation /\ o.account = op.account
  <2>1. ASSUME NEW o \in ops
        PROVE  LET op == [o EXCEPT !.behind = IF @ = 0 THEN 0 ELSE @ - 1]
               IN  op \in Operation /\ op.generation = o.generation /\ op.account = o.account
    <3>1. o \in Operation BY <1>0
    <3>2. (IF o.behind = 0 THEN 0 ELSE o.behind - 1) \in Nat BY <3>1 DEF Operation
    <3> QED BY <3>1, <3>2 DEF Operation
  <2> QED BY <1>0, <2>1
<1>4. Owners' BY <1>0, <1>3, OwnersKept DEF LocationInv
<1> DEFINE r == [success EXCEPT ![writes[1].account] = writes[1].time]
<1>5. r \in [Accounts -> Location!Times] BY <1>0, <1>2
<1>6. CASE ok
  <2>1. success' = r /\ consent' = consent BY <1>1, <1>6 DEF Location!Written
  <2>2. ASSUME NEW a \in Accounts, consent[a] = FALSE PROVE Forgets(a, writes', r)
    BY <1>0, <1>5, <2>2, ForgottenWritten DEF LocationInv, Withdrawn
  <2> HIDE DEF r
  <2>3. Withdrawn' BY <1>0, <2>1, <2>2 DEF LocationInv, Withdrawn, Forgets
  <2>4. LocationTypes' BY <1>0, <1>1, <1>3, <1>5, <2>1 DEF LocationTypes
  <2> QED BY <1>4, <2>3, <2>4 DEF LocationInv
<1>7. CASE ~ok
  <2>1. success' = success /\ consent' = [consent EXCEPT ![writes[1].account] = None]
    BY <1>1, <1>7 DEF Location!Written
  <2>2. ASSUME NEW a \in Accounts, consent'[a] = FALSE
        PROVE  consent[a] = FALSE /\ a # writes[1].account
    BY <1>0, <1>2, <2>1, <2>2 DEF LocationValues
  <2>3. ASSUME NEW a \in Accounts, consent'[a] = FALSE PROVE Forgets(a, writes', success)
    <3>1. Forgets(a, writes, success) BY <2>2, <2>3 DEF LocationInv, Withdrawn
    <3>2. Forgets(a, Tail(writes), r) BY <1>0, <1>5, <3>1, ForgottenWritten
    <3>3. r[a] = success[a] BY <1>0, <1>2, <2>2, <2>3
    <3> HIDE DEF r
    <3> QED BY <1>0, <3>2, <3>3 DEF Forgets
  <2>4. Withdrawn' BY <1>0, <2>1, <2>2, <2>3 DEF LocationInv, Withdrawn, Forgets
  <2>5. LocationTypes' BY <1>0, <1>1, <1>2, <1>3, <2>1 DEF LocationTypes
  <2> QED BY <1>4, <2>4, <2>5 DEF LocationInv
<1> QED BY <1>6, <1>7

LEMMA SuccessAgesStep ==
    ASSUME LocationValues, LocationInv, Location!SuccessAges
    PROVE  LocationInv'
<1>0. /\ writes \in Seq(Write) /\ position \in Position /\ ops \in SUBSET Operation
      /\ success \in [Accounts -> Location!Times] /\ UNCHANGED <<ops, consent>>
      /\ success' = [a \in Accounts |-> Location!Aged(success[a])]
      /\ writes' = [i \in DOMAIN writes |-> [writes[i] EXCEPT !.time = Location!Aged(@)]]
  BY DEF LocationInv, LocationTypes, Location!SuccessAges
<1>1. \A time : Location!Aged(time) \in Location!Times BY DEF Location!Aged, Location!Times
<1>2. /\ position' \in Position /\ position'.session = position.session
      /\ position'.generation = position.generation
  BY <1>0, <1>1 DEF Location!SuccessAges, Position
<1>3. writes' \in Seq(Write)
  <2>1. ASSUME NEW i \in 1 .. Len(writes)
        PROVE  [writes[i] EXCEPT !.time = Location!Aged(writes[i].time)] \in Write
    <3>1. writes[i] \in Write BY <1>0
    <3> QED BY <1>1, <3>1 DEF Write
  <2>2. DOMAIN writes = 1 .. Len(writes) /\ Len(writes) \in Nat BY <1>0
  <2>3. writes' \in [1 .. Len(writes) -> Write] BY <1>0, <2>1, <2>2
  <2> QED BY <2>2, <2>3
<1>4. success' \in [Accounts -> Location!Times] BY <1>0, <1>1
<1>5. ASSUME NEW a \in Accounts, consent[a] = FALSE PROVE Forgets(a, writes', success')
  <2>1. Forgets(a, writes, success) BY <1>5 DEF LocationInv, Withdrawn
  <2> QED BY <1>0, <2>1, ForgottenAged
<1>6. Withdrawn' BY <1>0, <1>2, <1>5 DEF LocationInv, Withdrawn, Forgets
<1>7. Owners' BY <1>0, <1>2, OwnersKept DEF LocationInv
<1> QED BY <1>0, <1>2, <1>3, <1>4, <1>6, <1>7 DEF LocationInv, LocationTypes

LEMMA LocationNext ==
    ASSUME LocationValues, LocationInv, [Location!Next]_(Location!vars)
    PROVE  LocationInv'
<1>1. ASSUME NEW a \in Accounts, NEW enabled \in BOOLEAN, Location!Configure(a, enabled)
      PROVE  LocationInv'
  BY <1>1, ConfigureStep
<1>2. CASE Location!Configure(None, FALSE) BY <1>2, ConfigureStep
<1>3. CASE Location!Hide BY <1>3, HideStep
<1>4. CASE Location!Show \/ Location!AttemptAges
  <2>1. /\ position' \in Position /\ position'.session = position.session
        /\ position'.generation = position.generation
        /\ UNCHANGED <<ops, writes, success, consent>>
    BY <1>4 DEF Location!Show, Location!AttemptAges, LocationInv, LocationTypes, Position, Location!Times
  <2> QED BY <2>1, OwnersKept, WithdrawnKept DEF LocationInv, LocationTypes
<1>5. CASE Location!Refresh BY <1>5, RefreshStep
<1>6. ASSUME NEW op \in ops,
             Location!Read(op) \/ Location!Permitted(op) \/ Location!Located(op) \/ Location!Ends(op)
      PROVE  LocationInv'
  BY <1>6, OperationStep DEF Location!Read, Location!Permitted, Location!Located, Location!Ends
<1>7. ASSUME NEW op \in ops, Location!Published(op) PROVE LocationInv' BY <1>7, PublishedStep
<1>8. ASSUME NEW ok \in BOOLEAN, Location!Written(ok) PROVE LocationInv' BY <1>8, WrittenStep
<1>9. CASE Location!SuccessAges BY <1>9, SuccessAgesStep
<1>10. CASE UNCHANGED Location!vars
  <2>1. UNCHANGED <<position, ops, writes, success, consent>> BY <1>10 DEF Location!vars
  <2> QED BY <2>1, OwnersKept, WithdrawnKept DEF LocationInv, LocationTypes
<1> QED BY <1>1, <1>2, <1>3, <1>4, <1>5, <1>6, <1>7, <1>8, <1>9, <1>10 DEF Location!Next

LEMMA LocationInit == ASSUME LocationValues, Location!Init PROVE LocationInv
<1>1. LocationTypes
  BY DEF Location!Init, LocationTypes, Position, Location!Times
<1>2. Withdrawn BY DEF Location!Init, Withdrawn, LocationValues
<1> QED BY <1>1, <1>2 DEF LocationInv, Owners, Location!Init

LEMMA LocationRight == LocationValues => (Location!Spec => []LocationInv)
<1> SUFFICES ASSUME LocationValues PROVE Location!Spec => []LocationInv OBVIOUS
<1>1. Location!Init => LocationInv BY LocationInit
<1>2. LocationInv /\ [Location!Next]_(Location!vars) => LocationInv' BY LocationNext
<1> QED BY <1>1, <1>2, PTL DEF Location!Spec

\* An operation that takes itself for the current one, which lets it send the
\* position, is of the account the app is configured with and has its consent,
\* however configurations, hidings and the answers of aborted operations interleave.
THEOREM PositionIsOfOwner == LocationValues => (Location!Spec => []Location!OwnerIsCurrent)
<1> SUFFICES ASSUME LocationValues PROVE Location!Spec => []Location!OwnerIsCurrent OBVIOUS
<1>1. LocationInv => Location!OwnerIsCurrent
  BY DEF LocationInv, Owners, Location!OwnerIsCurrent, Location!Current
<1> QED BY <1>1, LocationRight, PTL

\* Once the writes are done nothing is stored for an account that has withdrawn
\* its consent, whatever was being published or stored at the time.
THEOREM WithdrawnIsForgotten == LocationValues => (Location!Spec => []Location!DisabledForgets)
<1> SUFFICES ASSUME LocationValues PROVE Location!Spec => []Location!DisabledForgets OBVIOUS
<1>1. ASSUME LocationInv, writes = <<>>, NEW a \in Accounts, consent[a] = FALSE
      PROVE  success[a] = None
  <2>1. Len(writes) = 0 /\ 0 .. 0 = {0} BY <1>1
  <2> QED BY <1>1, <2>1 DEF LocationInv, Withdrawn, Forgets
<1>2. LocationInv => Location!DisabledForgets BY <1>1 DEF Location!DisabledForgets
<1> QED BY <1>2, LocationRight, PTL

-----------------------------------------------------------------------------
(* The count of unread notifications *)

CountAnswer == [ok : BOOLEAN, count : Nat]
CountRequest == [id : Nat, epoch : Nat, session : Nat \cup {None}, answer : CountAnswer \cup {None}]
CountShown == [session : Nat \cup {None}, count : Nat]
BadgeState == [epoch : Nat, pendingRequest : Nat \cup {None}, queued : BOOLEAN, retry : BOOLEAN,
               recent : BOOLEAN, shown : CountShown \cup {None}, visible : BOOLEAN, asked : Nat]
Account == [current : Nat \cup {None}, made : Nat, entering : BOOLEAN, unauthorizedHandled : BOOLEAN]

\* None is no session, no request, no answer and no count.
BadgeValues == None \notin Nat /\ None \notin CountAnswer /\ None \notin CountShown

\* A request of the badge's epoch is the pending one, and of the session s; what
\* it answers is as new as the last time the count was asked for, unless another
\* request is queued.
RequestFits(r, b, s) ==
    /\ r.epoch <= b.epoch
    /\ r.answer # None /\ r.answer.ok => r.session # None
    /\ r.epoch = b.epoch => r.session \in {None, s} /\ r.id = b.pendingRequest
    /\ (r.id = b.pendingRequest /\ ~b.queued /\ r.answer # None /\ r.answer.ok)
          => r.answer.count >= b.asked

PendingFits(b, sent) ==
    b.pendingRequest # None => \E r \in sent : r.id = b.pendingRequest /\ r.epoch = b.epoch

\* The badge b with the requests sent, where s is the session and n the changes made.
BadgeFits(b, sent, s, n) ==
    /\ b \in BadgeState /\ sent \in SUBSET CountRequest /\ IsFiniteSet(sent)
    /\ b.shown # None => s # None /\ b.shown.session = s
    /\ \A r \in sent : RequestFits(r, b, s)
    /\ \A r \in sent, q \in sent : r.id = q.id => r = q
    /\ PendingFits(b, sent)
    /\ b.asked <= n

BadgeInv ==
    /\ counts \in [changes : Nat, accepts : SUBSET Nat] /\ account \in Account
    /\ BadgeFits(badge, asked, account.current, counts.changes)
    /\ Badge!AskedIsShown

LEMMA BadgeCardinality == ASSUME NEW S PROVE Badge!Cardinality(S) = Cardinality(S)
BY DEF Badge!Cardinality, Cardinality

LEMMA FreshIsNew ==
    ASSUME NEW sent \in SUBSET CountRequest, IsFiniteSet(sent)
    PROVE  Badge!Fresh(sent) \in Nat /\ \A r \in sent : r.id # Badge!Fresh(sent)
<1> DEFINE ids == {r.id : r \in sent}
           n == Cardinality(sent) + 1
<1>1. IsFiniteSet(ids) /\ Cardinality(ids) <= Cardinality(sent)
  <2> DEFINE f == [r \in sent |-> r.id]
  <2>1. f \in Surjection(sent, ids) BY DEF Surjection
  <2> HIDE DEF f, ids
  <2> QED BY <2>1, FS_Surjection
<1>2. Cardinality(sent) \in Nat /\ Cardinality(ids) \in Nat BY <1>1, FS_CardinalityType
<1>3. ~ (1 .. n \subseteq ids)
  <2> SUFFICES ASSUME 1 .. n \subseteq ids PROVE FALSE OBVIOUS
  <2>1. Cardinality(1 .. n) = n BY <1>2, FS_Interval
  <2>2. Cardinality(1 .. n) <= Cardinality(ids) BY <1>1, FS_Subset
  <2> QED BY <1>1, <1>2, <2>1, <2>2
<1>4. \E i \in 1 .. n : \A r \in sent : r.id # i BY <1>3
<1> HIDE DEF ids
<1>5. Badge!Fresh(sent) \in 1 .. n /\ \A r \in sent : r.id # Badge!Fresh(sent)
  BY <1>4, BadgeCardinality DEF Badge!Fresh
<1> QED BY <1>2, <1>5

\* The badge with other flags, with what is asked for taken no later.
LEMMA FlagsFit ==
    ASSUME BadgeValues, NEW b, NEW c, NEW sent, NEW s, NEW n, BadgeFits(b, sent, s, n), c \in BadgeState,
           c.epoch = b.epoch, c.pendingRequest = b.pendingRequest, c.shown = b.shown,
           \/ c.asked = b.asked /\ (b.queued => c.queued)
           \/ c.asked <= n /\ (b.pendingRequest = None \/ c.queued)
    PROVE  BadgeFits(c, sent, s, n)
<1>1. ASSUME NEW r \in sent PROVE RequestFits(r, c, s)
  <2>1. RequestFits(r, b, s) /\ r \in CountRequest /\ r.id \in Nat BY DEF BadgeFits, CountRequest
  <2>2. r.id # None BY <2>1 DEF BadgeValues
  <2>3. CASE c.asked = b.asked /\ (b.queued => c.queued) BY <2>1, <2>3 DEF RequestFits
  <2>4. CASE b.pendingRequest = None \/ c.queued BY <2>1, <2>2, <2>4 DEF RequestFits
  <2> QED BY <2>3, <2>4
<1>2. c.asked <= n BY DEF BadgeFits
<1> QED BY <1>1, <1>2 DEF BadgeFits, PendingFits

LEMMA RefreshedFits ==
    ASSUME BadgeValues, NEW b, NEW sent, NEW s \in Nat \cup {None}, NEW force \in BOOLEAN,
           counts.changes \in Nat, BadgeFits(b, sent, s, counts.changes)
    PROVE  LET x == Badge!Refreshed(b, sent, s, force)
           IN  /\ BadgeFits(x.badge, x.requests, s, counts.changes)
               /\ x.badge.pendingRequest # None \/ (~force /\ x.badge = b)
<1> DEFINE c == [b EXCEPT !.asked = IF force THEN counts.changes ELSE @]
           x == Badge!Refreshed(b, sent, s, force)
<1>0. b \in BadgeState /\ b.epoch \in Nat /\ b.queued \in BOOLEAN /\ b.asked \in Nat
      /\ b.asked <= counts.changes
      /\ b.pendingRequest \in Nat \cup {None} /\ sent \in SUBSET CountRequest /\ IsFiniteSet(sent)
  BY DEF BadgeFits, BadgeState
<1>1. /\ c \in BadgeState /\ c.epoch = b.epoch /\ c.pendingRequest = b.pendingRequest
      /\ c.shown = b.shown /\ c.queued = b.queued
      /\ c.asked = IF force THEN counts.changes ELSE b.asked
      /\ ~force => c = b
  <2>1. (IF force THEN counts.changes ELSE b.asked) \in Nat BY <1>0
  <2> QED BY <1>0, <2>1 DEF BadgeState
<1> HIDE DEF c
<1>2. CASE ~force /\ b.recent
  <2>1. x = [badge |-> c, requests |-> sent] BY <1>2 DEF Badge!Refreshed, c
  <2> HIDE DEF x
  <2> QED BY <1>1, <1>2, <2>1 DEF x
<1>3. CASE ~ (~force /\ b.recent) /\ b.pendingRequest # None
  <2> DEFINE d == [c EXCEPT !.queued = c.queued \/ force]
  <2>1. x = [badge |-> d, requests |-> sent] BY <1>3 DEF Badge!Refreshed, c
  <2>2. /\ d \in BadgeState /\ d.epoch = b.epoch /\ d.pendingRequest = b.pendingRequest
        /\ d.shown = b.shown /\ d.asked = c.asked
    BY <1>1 DEF BadgeState
  <2>3. (b.queued => d.queued) /\ (force => d.queued) BY <1>1 DEF BadgeState
  <2> HIDE DEF d, x
  <2>4. BadgeFits(d, sent, s, counts.changes)
    <3>1. CASE force BY <1>0, <1>1, <2>2, <2>3, <3>1, FlagsFit
    <3>2. CASE ~force BY <1>0, <1>1, <2>2, <2>3, <3>2, FlagsFit
    <3> QED BY <3>1, <3>2
  <2> QED BY <1>3, <2>1, <2>2, <2>4 DEF x
<1>4. CASE ~ (~force /\ b.recent) /\ b.pendingRequest = None
  <2> DEFINE id == Badge!Fresh(sent)
             d == [c EXCEPT !.pendingRequest = id, !.retry = FALSE]
             r == [id |-> id, epoch |-> b.epoch, session |-> s, answer |-> None]
  <2>1. x = [badge |-> d, requests |-> sent \cup {r}] BY <1>4 DEF Badge!Refreshed, c
  <2>2. id \in Nat /\ \A q \in sent : q.id # id BY <1>0, FreshIsNew
  <2> HIDE DEF id
  <2>3. /\ d \in BadgeState /\ d.epoch = b.epoch /\ d.pendingRequest = id
        /\ d.shown = b.shown /\ d.asked = c.asked
    BY <1>1, <2>2 DEF BadgeState
  <2>4. r \in CountRequest /\ r.id = id /\ r.epoch = b.epoch /\ r.session = s /\ r.answer = None
    BY <1>0, <2>2 DEF CountRequest
  <2> HIDE DEF d, r, x
  <2>5. RequestFits(r, d, s) BY <1>0, <2>3, <2>4 DEF RequestFits
  <2>6. ASSUME NEW q \in sent PROVE RequestFits(q, d, s)
    <3>1. RequestFits(q, b, s) /\ q \in CountRequest /\ q.id \in Nat /\ q.id # id
      BY <2>2 DEF BadgeFits, CountRequest
    <3>2. q.epoch # b.epoch BY <1>4, <3>1 DEF RequestFits, BadgeValues
    <3> QED BY <2>3, <3>1, <3>2 DEF RequestFits
  <2>7. IsFiniteSet(sent \cup {r}) BY <1>0, FS_AddElement
  <2>8. d.asked <= counts.changes BY <1>0, <1>1, <2>3
  <2>9. \A p \in sent \cup {r}, q \in sent \cup {r} : p.id = q.id => p = q
    BY <2>2, <2>4 DEF BadgeFits
  <2>10. d.shown # None => s # None /\ d.shown.session = s BY <2>3 DEF BadgeFits
  <2>11. PendingFits(d, sent \cup {r}) BY <2>3, <2>4 DEF PendingFits
  <2>12. sent \cup {r} \in SUBSET CountRequest BY <1>0, <2>4
  <2>13. BadgeFits(d, sent \cup {r}, s, counts.changes)
    BY <2>3, <2>5, <2>6, <2>7, <2>8, <2>9, <2>10, <2>11, <2>12 DEF BadgeFits
  <2>14. d.pendingRequest # None BY <2>2, <2>3 DEF BadgeValues
  <2> QED BY <2>1, <2>13, <2>14 DEF x
<1> QED BY <1>2, <1>3, <1>4

\* The end of a request r of which the badge b knows what it should.
LEMMA FinallyFits ==
    ASSUME BadgeValues, NEW b, NEW r \in asked, counts.changes \in Nat, account \in Account,
           BadgeFits(b, asked, account.current, counts.changes)
    PROVE  LET x == Badge!Finally(b, asked \ {r}, r)
           IN  /\ BadgeFits(x.badge, x.requests, account.current, counts.changes)
               /\ \/ x.badge.pendingRequest # None
                  \/ b.pendingRequest = None /\ x.badge = b
                  \/ /\ b.pendingRequest = r.id /\ ~b.queued
                     /\ x.badge = [b EXCEPT !.pendingRequest = None, !.queued = FALSE]
<1> DEFINE c == [b EXCEPT !.pendingRequest = None, !.queued = FALSE]
           sent == asked \ {r}
           x == Badge!Finally(b, sent, r)
           s == account.current
<1>0. /\ b \in BadgeState /\ b.pendingRequest \in Nat \cup {None} /\ b.queued \in BOOLEAN
      /\ asked \in SUBSET CountRequest /\ IsFiniteSet(asked) /\ s \in Nat \cup {None}
      /\ sent \in SUBSET CountRequest
  BY DEF BadgeFits, BadgeState, Account
<1>1. IsFiniteSet(sent) BY <1>0, FS_Subset
<1>2. r.id \in Nat /\ r.id # None BY <1>0 DEF CountRequest, BadgeValues
<1>3. CASE b.pendingRequest # r.id
  <2>1. x = [badge |-> b, requests |-> sent] BY <1>3 DEF Badge!Finally
  <2>2. PendingFits(b, sent) BY <1>3 DEF PendingFits, BadgeFits
  <2> HIDE DEF x
  <2>3. BadgeFits(b, sent, s, counts.changes) BY <1>0, <1>1, <2>2 DEF BadgeFits
  <2> QED BY <1>3, <2>1, <2>3 DEF x
<1>4. CASE b.pendingRequest = r.id
  <2>1. /\ c \in BadgeState /\ c.epoch = b.epoch /\ c.pendingRequest = None
        /\ c.shown = b.shown /\ c.asked = b.asked
    BY <1>0 DEF BadgeState
  <2> HIDE DEF c
  <2>2. ASSUME NEW q \in sent PROVE RequestFits(q, c, s)
    <3>1. RequestFits(q, b, s) /\ q.id # r.id /\ q.id # None
      BY <1>0, <2>2 DEF BadgeFits, BadgeValues, CountRequest
    <3>2. q.epoch # b.epoch BY <1>4, <3>1 DEF RequestFits
    <3> QED BY <2>1, <3>1, <3>2 DEF RequestFits
  <2>3. BadgeFits(c, sent, s, counts.changes)
    BY <1>0, <1>1, <2>1, <2>2 DEF BadgeFits, PendingFits
  <2>4. CASE b.queued
    <3> DEFINE y == Badge!Refreshed(c, sent, s, TRUE)
    <3>1. x = y BY <1>4, <2>4 DEF Badge!Finally, c
    <3>2. /\ BadgeFits(y.badge, y.requests, s, counts.changes)
          /\ y.badge.pendingRequest # None
      <4>1. LET z == Badge!Refreshed(c, sent, s, TRUE)
            IN  /\ BadgeFits(z.badge, z.requests, s, counts.changes)
                /\ z.badge.pendingRequest # None \/ (~TRUE /\ z.badge = c)
        BY <1>0, <2>3, RefreshedFits
      <4> HIDE DEF c
      <4> QED BY <4>1
    <3> HIDE DEF x, y
    <3> QED BY <3>1, <3>2 DEF x
  <2>5. CASE ~b.queued
    <3>1. x = [badge |-> c, requests |-> sent] BY <1>2, <1>4, <2>5 DEF Badge!Finally, c
    <3> HIDE DEF x
    <3> QED BY <1>4, <2>3, <2>5, <3>1 DEF x, c
  <2> QED BY <2>4, <2>5
<1> QED BY <1>3, <1>4

LEMMA ClearedFits ==
    ASSUME BadgeValues, NEW s, NEW t, NEW n \in Nat, BadgeFits(badge, asked, s, n)
    PROVE  LET b == Badge!Cleared(badge)
           IN  /\ BadgeFits(b, asked, t, n) /\ b.pendingRequest = None /\ b.shown = None
               /\ \A r \in asked : r.epoch # b.epoch
<1> DEFINE b == Badge!Cleared(badge)
<1>0. badge \in BadgeState /\ badge.epoch \in Nat /\ asked \in SUBSET CountRequest
  BY DEF BadgeFits, BadgeState
<1>1. /\ b.epoch = badge.epoch + 1 /\ b.pendingRequest = None /\ b.queued = FALSE
      /\ b.retry = FALSE /\ b.recent = FALSE /\ b.shown = None /\ b.asked = 0
      /\ b.visible = badge.visible
  BY <1>0 DEF Badge!Cleared, BadgeState
<1>2. b \in BadgeState
  <2> DEFINE c == [badge EXCEPT !.epoch = @ + 1, !.retry = FALSE]
             d == [c EXCEPT !.pendingRequest = None, !.queued = FALSE]
  <2>1. b = [d EXCEPT !.recent = FALSE, !.shown = None, !.asked = 0] BY Zenon DEF Badge!Cleared
  <2>2. c \in BadgeState
    <3> DEFINE later == badge.epoch + 1
    <3>1. later \in Nat BY <1>0
    <3>2. c = [badge EXCEPT !.epoch = later, !.retry = FALSE] OBVIOUS
    <3> HIDE DEF later, c
    <3> QED BY <1>0, <3>1, <3>2 DEF BadgeState
  <2> HIDE DEF b, c
  <2>3. d \in BadgeState BY <2>2 DEF BadgeState
  <2> HIDE DEF d
  <2> QED BY <2>1, <2>3 DEF BadgeState
<1> HIDE DEF b
<1>3. ASSUME NEW r \in asked
      PROVE  RequestFits(r, b, t) /\ r.epoch # b.epoch
  <2>1. r \in CountRequest /\ r.id \in Nat /\ r.epoch \in Nat /\ RequestFits(r, badge, s)
    BY <1>0 DEF BadgeFits, CountRequest
  <2>2. r.epoch <= badge.epoch BY <2>1 DEF RequestFits
  <2>3. r.epoch # badge.epoch + 1 /\ r.epoch <= badge.epoch + 1 BY <1>0, <2>1, <2>2
  <2> QED BY <1>1, <2>1, <2>3 DEF RequestFits, BadgeValues
<1>4. PendingFits(b, asked) BY <1>1 DEF PendingFits
<1>5. BadgeFits(b, asked, t, n) BY <1>1, <1>2, <1>3, <1>4 DEF BadgeFits
<1> QED BY <1>1, <1>3, <1>5 DEF b

\* What asks for the count, where b is the badge it is asked of.
LEMMA AskStep ==
    ASSUME BadgeValues, BadgeInv, NEW b, NEW force \in BOOLEAN,
           BadgeFits(b, asked, account.current, counts.changes),
           force \/ b = badge, Badge!Become(Badge!Refreshed(b, asked, account.current, force)),
           counts' = counts, account' \in Account, account'.current = account.current,
           account'.entering = account.entering \/ force
    PROVE  BadgeInv'
<1>1. counts.changes \in Nat /\ account.current \in Nat \cup {None} BY DEF BadgeInv, Account
<1> DEFINE x == Badge!Refreshed(b, asked, account.current, force)
<1>2. /\ BadgeFits(x.badge, x.requests, account.current, counts.changes)
      /\ x.badge.pendingRequest # None \/ (~force /\ x.badge = b)
  BY <1>1, RefreshedFits
<1>3. badge' = x.badge /\ asked' = x.requests BY DEF Badge!Become
<1> HIDE DEF x
<1>4. Badge!AskedIsShown'
  <2>1. CASE badge'.pendingRequest # None BY <2>1 DEF Badge!AskedIsShown
  <2>2. CASE ~force /\ badge' = badge BY <2>2 DEF Badge!AskedIsShown, BadgeInv
  <2> QED BY <1>2, <1>3, <2>1, <2>2
<1> QED BY <1>2, <1>3, <1>4 DEF BadgeInv

LEMMA AnswerStep ==
    ASSUME BadgeValues, BadgeInv, NEW r \in asked, Badge!Answer(r)
    PROVE  BadgeInv'
<1> DEFINE answer == IF r.session \in counts.accepts THEN [ok |-> TRUE, count |-> counts.changes]
                     ELSE [ok |-> FALSE, count |-> 0]
           p == [r EXCEPT !.answer = answer]
           s == account.current
<1>0. /\ counts.changes \in Nat /\ counts.accepts \in SUBSET Nat /\ badge \in BadgeState
      /\ badge.asked \in Nat /\ badge.asked <= counts.changes
      /\ r \in CountRequest /\ r.epoch \in Nat /\ r.session \in Nat \cup {None}
      /\ asked \in SUBSET CountRequest /\ IsFiniteSet(asked) /\ RequestFits(r, badge, s)
      /\ r.answer = None /\ UNCHANGED <<counts, account, badge>>
      /\ asked' = (asked \ {r}) \cup {p}
  BY DEF BadgeInv, BadgeFits, BadgeState, CountRequest, Badge!Answer
<1>1. answer \in CountAnswer BY <1>0 DEF CountAnswer
<1>2. answer.ok => r.session # None /\ answer.count = counts.changes
  BY <1>0 DEF BadgeValues
<1> HIDE DEF answer
<1>3. /\ p \in CountRequest /\ p.id = r.id /\ p.epoch = r.epoch /\ p.session = r.session
      /\ p.answer = answer
  BY <1>0, <1>1 DEF CountRequest
<1> HIDE DEF p
<1>4. RequestFits(p, badge, s) BY <1>0, <1>2, <1>3 DEF RequestFits
<1>5. IsFiniteSet(asked') BY <1>0, FS_AddElement, FS_RemoveElement
<1>6. \A q \in asked', o \in asked' : q.id = o.id => q = o
  BY <1>0, <1>3 DEF BadgeInv, BadgeFits
<1>7. PendingFits(badge, asked') BY <1>0, <1>3 DEF BadgeInv, BadgeFits, PendingFits
<1>8. \A q \in asked' : RequestFits(q, badge, s) BY <1>0, <1>4 DEF BadgeInv, BadgeFits
<1>9. asked' \in SUBSET CountRequest BY <1>0, <1>3
<1>10. BadgeFits(badge, asked', s, counts.changes)
  BY <1>5, <1>6, <1>7, <1>8, <1>9 DEF BadgeInv, BadgeFits
<1>11. Badge!AskedIsShown' BY <1>0 DEF BadgeInv, Badge!AskedIsShown
<1> QED BY <1>0, <1>10, <1>11 DEF BadgeInv

\* A request of another epoch than the badge's is not the pending one.
LEMMA OlderIsNotPending ==
    ASSUME BadgeValues, NEW b, NEW s, NEW n, BadgeFits(b, asked, s, n),
           NEW r \in asked, r.epoch # b.epoch
    PROVE  b.pendingRequest # r.id
<1>1. r.id # None BY DEF BadgeFits, BadgeValues, CountRequest
<1> QED BY <1>1 DEF BadgeFits, PendingFits

LEMMA CountedStep ==
    ASSUME BadgeValues, BadgeInv, NEW r \in asked, Badge!Counted(r)
    PROVE  BadgeInv'
<1> DEFINE b == IF r.epoch # badge.epoch THEN badge
                ELSE [badge EXCEPT !.recent = TRUE,
                                   !.shown = [session |-> r.session, count |-> r.answer.count]]
           x == Badge!Finally(b, asked \ {r}, r)
           s == account.current
<1>0. /\ counts.changes \in Nat /\ account \in Account /\ badge \in BadgeState
      /\ BadgeFits(badge, asked, s, counts.changes) /\ RequestFits(r, badge, s)
      /\ r.answer # None /\ r.answer.ok /\ r.session # None
      /\ UNCHANGED <<counts, account>>
  BY DEF BadgeInv, BadgeFits, RequestFits, Badge!Counted
<1>1. badge' = x.badge /\ asked' = x.requests BY DEF Badge!Counted, Badge!Become
<1> HIDE DEF x
<1>2. CASE r.epoch # badge.epoch
  <2>1. b = badge /\ badge.pendingRequest # r.id BY <1>0, <1>2, OlderIsNotPending
  <2> HIDE DEF b
  <2>2. /\ BadgeFits(x.badge, x.requests, s, counts.changes)
        /\ x.badge.pendingRequest # None \/ x.badge = badge
    BY <1>0, <2>1, FinallyFits DEF x
  <2>3. Badge!AskedIsShown' BY <1>0, <1>1, <2>2 DEF Badge!AskedIsShown, BadgeInv
  <2> QED BY <1>0, <1>1, <2>2, <2>3 DEF BadgeInv
<1>3. CASE r.epoch = badge.epoch
  <2> DEFINE shown == [session |-> r.session, count |-> r.answer.count]
  <2>1. r \in CountRequest /\ r.answer \in CountAnswer /\ r.session \in Nat
    BY <1>0 DEF BadgeFits, CountRequest
  <2>2. shown \in CountShown /\ shown.session = r.session /\ shown.count = r.answer.count
        /\ r.answer.count \in Nat
    BY <2>1 DEF CountShown, CountAnswer
  <2>3. b = [badge EXCEPT !.recent = TRUE, !.shown = shown] BY <1>3
  <2> HIDE DEF b, shown
  <2>4. /\ b \in BadgeState /\ b.epoch = badge.epoch /\ b.pendingRequest = badge.pendingRequest
        /\ b.queued = badge.queued /\ b.asked = badge.asked /\ b.shown = shown
    BY <1>0, <2>2, <2>3 DEF BadgeState
  <2>5. /\ r.session = s /\ s # None /\ r.id = badge.pendingRequest
        /\ ~badge.queued => r.answer.count >= badge.asked
    BY <1>0, <1>3 DEF RequestFits
  <2>6. ASSUME NEW q \in asked PROVE RequestFits(q, b, s)
    BY <1>0, <2>4 DEF BadgeFits, RequestFits
  <2>7. BadgeFits(b, asked, s, counts.changes)
    BY <1>0, <2>2, <2>4, <2>5, <2>6 DEF BadgeFits, PendingFits
  <2>8. /\ BadgeFits(x.badge, x.requests, s, counts.changes)
        /\ \/ x.badge.pendingRequest # None
           \/ b.pendingRequest = None /\ x.badge = b
           \/ /\ b.pendingRequest = r.id /\ ~b.queued
              /\ x.badge = [b EXCEPT !.pendingRequest = None, !.queued = FALSE]
    BY <1>0, <2>7, FinallyFits DEF x
  <2>9. r.id # None BY <2>1 DEF CountRequest, BadgeValues
  <2>10. Badge!AskedIsShown'
    <3>1. CASE x.badge.pendingRequest # None BY <1>1, <3>1 DEF Badge!AskedIsShown
    <3>2. CASE ~b.queued /\ x.badge = [b EXCEPT !.pendingRequest = None, !.queued = FALSE]
      <4>1. badge'.shown = shown /\ badge'.asked = badge.asked
        BY <1>1, <2>4, <3>2 DEF BadgeState
      <4>2. shown # None BY <2>2 DEF BadgeValues
      <4> QED BY <2>2, <2>4, <2>5, <3>2, <4>1, <4>2 DEF Badge!AskedIsShown
    <3> QED BY <2>4, <2>5, <2>8, <2>9, <3>1, <3>2
  <2> QED BY <1>0, <1>1, <2>8, <2>10 DEF BadgeInv
<1> QED BY <1>2, <1>3

LEMMA FailsStep ==
    ASSUME BadgeValues, BadgeInv, NEW r \in asked, Badge!Fails(r)
    PROVE  BadgeInv'
<1> DEFINE b == IF r.epoch # badge.epoch THEN badge ELSE [badge EXCEPT !.retry = TRUE]
           x == Badge!Finally(b, asked \ {r}, r)
           s == account.current
<1>0. /\ counts.changes \in Nat /\ account \in Account /\ badge \in BadgeState
      /\ BadgeFits(badge, asked, s, counts.changes) /\ UNCHANGED <<counts, account>>
  BY DEF BadgeInv, BadgeFits, Badge!Fails
<1>1. badge' = x.badge /\ asked' = x.requests BY DEF Badge!Fails, Badge!Become
<1> HIDE DEF x
<1>2. CASE r.epoch # badge.epoch
  <2>1. b = badge /\ badge.pendingRequest # r.id BY <1>0, <1>2, OlderIsNotPending
  <2> HIDE DEF b
  <2>2. /\ BadgeFits(x.badge, x.requests, s, counts.changes)
        /\ x.badge.pendingRequest # None \/ x.badge = badge
    BY <1>0, <2>1, FinallyFits DEF x
  <2>3. Badge!AskedIsShown' BY <1>0, <1>1, <2>2 DEF Badge!AskedIsShown, BadgeInv
  <2> QED BY <1>0, <1>1, <2>2, <2>3 DEF BadgeInv
<1>3. CASE r.epoch = badge.epoch
  <2>1. b = [badge EXCEPT !.retry = TRUE] BY <1>3
  <2> HIDE DEF b
  <2>2. /\ b \in BadgeState /\ b.epoch = badge.epoch /\ b.pendingRequest = badge.pendingRequest
        /\ b.queued = badge.queued /\ b.asked = badge.asked /\ b.shown = badge.shown /\ b.retry
    BY <1>0, <2>1 DEF BadgeState
  <2>3. BadgeFits(b, asked, s, counts.changes) BY <1>0, <2>2, FlagsFit
  <2>4. /\ BadgeFits(x.badge, x.requests, s, counts.changes)
        /\ \/ x.badge.pendingRequest # None
           \/ x.badge = b
           \/ x.badge = [b EXCEPT !.pendingRequest = None, !.queued = FALSE]
    BY <1>0, <2>3, FinallyFits DEF x
  <2>5. x.badge.pendingRequest # None \/ x.badge.retry BY <2>2, <2>4 DEF BadgeState
  <2>6. Badge!AskedIsShown' BY <1>1, <2>5 DEF Badge!AskedIsShown
  <2> QED BY <1>0, <1>1, <2>4, <2>6 DEF BadgeInv
<1> QED BY <1>2, <1>3

LEMMA UnauthorizedStep ==
    ASSUME BadgeValues, BadgeInv, NEW r \in asked, Badge!Unauthorized(r)
    PROVE  BadgeInv'
<1> DEFINE b == Badge!Cleared(badge)
<1>0. /\ counts.changes \in Nat /\ account \in Account /\ r.id # None /\ counts' = counts
      /\ asked \in SUBSET CountRequest /\ IsFiniteSet(asked)
      /\ account' = [account EXCEPT !.current = None, !.unauthorizedHandled = TRUE]
  BY DEF BadgeInv, BadgeFits, BadgeValues, CountRequest, Badge!Unauthorized
<1>1. account' \in Account /\ account'.current = None BY <1>0 DEF Account
<1>2. /\ BadgeFits(b, asked, None, counts.changes) /\ b.pendingRequest = None
      /\ \A q \in asked : q.epoch # b.epoch
  BY <1>0, ClearedFits DEF BadgeInv
<1>3. badge' = b /\ asked' = asked \ {r}
  <2>1. Badge!Finally(b, asked \ {r}, r) = [badge |-> b, requests |-> asked \ {r}]
    BY <1>0, <1>2 DEF Badge!Finally
  <2>2. Badge!Become(Badge!Finally(b, asked \ {r}, r)) BY DEF Badge!Unauthorized
  <2> HIDE DEF b
  <2> QED BY <2>1, <2>2 DEF Badge!Become
<1> HIDE DEF b
<1>4. IsFiniteSet(asked \ {r}) BY <1>0, FS_RemoveElement
<1>5. BadgeFits(b, asked \ {r}, None, counts.changes)
  BY <1>0, <1>2, <1>4 DEF BadgeFits, PendingFits
<1>6. Badge!AskedIsShown' BY <1>1 DEF Badge!AskedIsShown
<1> QED BY <1>0, <1>1, <1>3, <1>5, <1>6 DEF BadgeInv

LEMMA LoginStep == ASSUME BadgeValues, BadgeInv, Badge!Login PROVE BadgeInv'
<1> DEFINE s == account.made + 1
<1>0. /\ account \in Account /\ account.made \in Nat /\ account.current = None
      /\ account' = [current |-> s, made |-> s, entering |-> TRUE, unauthorizedHandled |-> FALSE]
      /\ counts \in [changes : Nat, accepts : SUBSET Nat]
      /\ counts' = [counts EXCEPT !.accepts = @ \cup {s}]
      /\ UNCHANGED <<asked, badge>> /\ BadgeFits(badge, asked, None, counts.changes)
  BY DEF BadgeInv, Account, Badge!Login
<1>1. s \in Nat BY <1>0
<1> HIDE DEF s
<1>2. account' \in Account /\ account'.current = s /\ account'.entering BY <1>0, <1>1 DEF Account
<1>3. counts' \in [changes : Nat, accepts : SUBSET Nat] /\ counts'.changes = counts.changes
  BY <1>0, <1>1
<1>4. ASSUME NEW r \in asked PROVE RequestFits(r, badge, s)
  <2>1. RequestFits(r, badge, None) BY <1>0 DEF BadgeFits
  <2> QED BY <2>1 DEF RequestFits
<1>5. BadgeFits(badge, asked, s, counts.changes) BY <1>0, <1>4 DEF BadgeFits
<1>6. Badge!AskedIsShown' BY <1>2 DEF Badge!AskedIsShown
<1> QED BY <1>0, <1>2, <1>3, <1>5, <1>6 DEF BadgeInv

LEMMA LogoutStep == ASSUME BadgeValues, BadgeInv, Badge!Logout PROVE BadgeInv'
<1>0. /\ account \in Account /\ account' = [account EXCEPT !.current = None]
      /\ counts.changes \in Nat /\ UNCHANGED <<counts, asked>> /\ badge' = Badge!Cleared(badge)
  BY DEF BadgeInv, Badge!Logout
<1>1. account' \in Account /\ account'.current = None BY <1>0 DEF Account
<1>2. BadgeFits(badge', asked, None, counts.changes) BY <1>0, ClearedFits DEF BadgeInv
<1>3. Badge!AskedIsShown' BY <1>1 DEF Badge!AskedIsShown
<1> QED BY <1>0, <1>1, <1>2, <1>3 DEF BadgeInv

LEMMA FlagStep ==
    ASSUME BadgeValues, BadgeInv, NEW b \in {[badge EXCEPT !.visible = FALSE],
               [badge EXCEPT !.visible = TRUE], [badge EXCEPT !.recent = FALSE],
               [badge EXCEPT !.retry = FALSE]}
    PROVE  /\ BadgeFits(b, asked, account.current, counts.changes)
           /\ b \in BadgeState /\ b.pendingRequest = badge.pendingRequest /\ b.shown = badge.shown
           /\ b.asked = badge.asked
<1>1. BadgeFits(badge, asked, account.current, counts.changes) /\ badge \in BadgeState
  BY DEF BadgeInv, BadgeFits
<1>2. /\ b \in BadgeState /\ b.epoch = badge.epoch /\ b.pendingRequest = badge.pendingRequest
      /\ b.shown = badge.shown /\ b.asked = badge.asked /\ b.queued = badge.queued
  BY <1>1 DEF BadgeState
<1> QED BY <1>1, <1>2, FlagsFit

LEMMA BadgeNext ==
    ASSUME BadgeValues, BadgeInv, [Badge!Next]_(Badge!vars)
    PROVE  BadgeInv'
<1>0. /\ counts \in [changes : Nat, accepts : SUBSET Nat] /\ account \in Account /\ badge \in BadgeState
      /\ BadgeFits(badge, asked, account.current, counts.changes)
  BY DEF BadgeInv, BadgeFits
<1>1. ASSUME NEW force \in BOOLEAN, Badge!Ask(force) PROVE BadgeInv'
  BY <1>0, <1>1, AskStep DEF Badge!Ask
<1>2. CASE Badge!Show
  <2> DEFINE b == [badge EXCEPT !.visible = TRUE]
  <2>1. BadgeFits(b, asked, account.current, counts.changes) BY FlagStep
  <2>2. /\ Badge!Become(Badge!Refreshed(b, asked, account.current, TRUE))
        /\ UNCHANGED <<counts, account>>
    BY <1>2 DEF Badge!Show
  <2> HIDE DEF b
  <2> QED BY <1>0, <2>1, <2>2, AskStep
<1>3. CASE Badge!Hide
  <2>1. badge' = [badge EXCEPT !.visible = FALSE] /\ UNCHANGED <<counts, account, asked>>
    BY <1>3 DEF Badge!Hide
  <2>2. BadgeFits(badge', asked, account.current, counts.changes) BY <2>1, FlagStep
  <2>3. ~badge'.visible BY <1>0, <2>1 DEF BadgeState
  <2>4. Badge!AskedIsShown' BY <2>3 DEF Badge!AskedIsShown
  <2> QED BY <1>0, <2>1, <2>2, <2>4 DEF BadgeInv
<1>4. CASE Badge!Ages
  <2>1. badge' = [badge EXCEPT !.recent = FALSE] /\ UNCHANGED <<counts, account, asked>>
    BY <1>4 DEF Badge!Ages
  <2>2. BadgeFits(badge', asked, account.current, counts.changes) BY <2>1, FlagStep
  <2>3. /\ badge'.visible = badge.visible /\ badge'.retry = badge.retry
        /\ badge'.pendingRequest = badge.pendingRequest /\ badge'.shown = badge.shown
        /\ badge'.asked = badge.asked
    BY <1>0, <2>1 DEF BadgeState
  <2>4. Badge!AskedIsShown' BY <2>1, <2>3 DEF Badge!AskedIsShown, BadgeInv
  <2> QED BY <1>0, <2>1, <2>2, <2>4 DEF BadgeInv
<1>5. CASE Badge!RetryTimer
  <2> DEFINE b == [badge EXCEPT !.retry = FALSE]
  <2>1. BadgeFits(b, asked, account.current, counts.changes) BY FlagStep
  <2>2. /\ UNCHANGED <<counts, account>>
        /\ IF b.visible THEN Badge!Become(Badge!Refreshed(b, asked, account.current, TRUE))
           ELSE badge' = b /\ UNCHANGED asked
    BY <1>5 DEF Badge!RetryTimer
  <2> HIDE DEF b
  <2>3. CASE b.visible BY <1>0, <2>1, <2>2, <2>3, AskStep
  <2>4. CASE ~b.visible
    <3>1. Badge!AskedIsShown' BY <2>2, <2>4 DEF Badge!AskedIsShown
    <3> QED BY <1>0, <2>1, <2>2, <2>4, <3>1 DEF BadgeInv
  <2> QED BY <2>3, <2>4
<1>6. CASE Badge!Changes
  <2>1. /\ counts' = [counts EXCEPT !.changes = @ + 1] /\ counts.changes \in Nat
        /\ UNCHANGED <<account, asked, badge>> /\ badge.asked \in Nat
    BY <1>0, <1>6 DEF Badge!Changes, BadgeState
  <2>2. counts' \in [changes : Nat, accepts : SUBSET Nat] /\ counts'.changes = counts.changes + 1
    BY <1>0, <2>1
  <2>3. badge.asked <= counts.changes + 1 BY <1>0, <2>1 DEF BadgeFits
  <2>4. Badge!AskedIsShown' BY <2>1 DEF Badge!AskedIsShown, BadgeInv
  <2> QED BY <1>0, <2>1, <2>2, <2>3, <2>4 DEF BadgeInv, BadgeFits
<1>7. ASSUME NEW s \in counts.accepts, Badge!Expire(s) PROVE BadgeInv'
  <2>1. /\ counts' = [counts EXCEPT !.accepts = @ \ {s}] /\ UNCHANGED <<account, asked, badge>>
    BY <1>7 DEF Badge!Expire
  <2>2. counts' \in [changes : Nat, accepts : SUBSET Nat] /\ counts'.changes = counts.changes
    BY <1>0, <2>1
  <2>3. Badge!AskedIsShown' BY <2>1 DEF Badge!AskedIsShown, BadgeInv
  <2> QED BY <1>0, <2>1, <2>2, <2>3 DEF BadgeInv
<1>8. ASSUME NEW r \in asked,
             Badge!Answer(r) \/ Badge!Counted(r) \/ Badge!Fails(r) \/ Badge!Unauthorized(r)
      PROVE  BadgeInv'
  BY <1>8, AnswerStep, CountedStep, FailsStep, UnauthorizedStep
<1>9. CASE Badge!Login BY <1>9, LoginStep
<1>10. CASE Badge!Enter
  <2>1. /\ account' = [account EXCEPT !.entering = FALSE] /\ counts' = counts
        /\ Badge!Become(Badge!Refreshed(badge, asked, account.current, TRUE))
    BY <1>10 DEF Badge!Enter
  <2>2. account' \in Account /\ account'.current = account.current BY <1>0, <2>1 DEF Account
  <2> QED BY <1>0, <2>1, <2>2, AskStep
<1>11. CASE Badge!Logout BY <1>11, LogoutStep
<1>12. CASE UNCHANGED Badge!vars
  <2>1. UNCHANGED <<counts, account, asked, badge>> BY <1>12 DEF Badge!vars
  <2>2. Badge!AskedIsShown' BY <2>1 DEF Badge!AskedIsShown, BadgeInv
  <2> QED BY <2>1, <2>2 DEF BadgeInv
<1> QED
  BY <1>1, <1>2, <1>3, <1>4, <1>5, <1>6, <1>7, <1>8, <1>9, <1>10, <1>11, <1>12 DEF Badge!Next

LEMMA BadgeInit == ASSUME BadgeValues, Badge!Init PROVE BadgeInv
<1>1. badge \in BadgeState BY DEF Badge!Init, BadgeState
<1>2. account \in Account /\ counts \in [changes : Nat, accepts : SUBSET Nat]
  BY DEF Badge!Init, Account
<1>3. BadgeFits(badge, asked, None, 0)
  BY <1>1, FS_EmptySet DEF Badge!Init, BadgeFits, PendingFits
<1> QED BY <1>1, <1>2, <1>3 DEF Badge!Init, BadgeInv, Badge!AskedIsShown

LEMMA BadgeRight == BadgeValues => (Badge!Spec => []BadgeInv)
<1> SUFFICES ASSUME BadgeValues PROVE Badge!Spec => []BadgeInv OBVIOUS
<1>1. Badge!Init => BadgeInv BY BadgeInit
<1>2. BadgeInv /\ [Badge!Next]_(Badge!vars) => BadgeInv' BY BadgeNext
<1> QED BY <1>1, <1>2, PTL DEF Badge!Spec

\* What the badge shows was counted for the session of the app, however late the
\* answers to an earlier session's requests come (refreshNotificationBadge, whose
\* epoch clearNotificationBadge moves on).
THEOREM BadgeOfSession == BadgeValues => (Badge!Spec => []Badge!ShownOfSession)
<1> SUFFICES ASSUME BadgeValues PROVE Badge!Spec => []Badge!ShownOfSession OBVIOUS
<1>1. BadgeInv => Badge!ShownOfSession BY DEF BadgeInv, BadgeFits, Badge!ShownOfSession
<1> QED BY <1>1, BadgeRight, PTL

\* No forced refresh of the badge is lost to a request that was under way, to one
\* that failed or to a session that ended.
THEOREM NoRefreshIsLost == BadgeValues => (Badge!Spec => []Badge!AskedIsShown)
<1> SUFFICES ASSUME BadgeValues PROVE Badge!Spec => []Badge!AskedIsShown OBVIOUS
<1>1. BadgeInv => Badge!AskedIsShown BY DEF BadgeInv
<1> QED BY <1>1, BadgeRight, PTL

-----------------------------------------------------------------------------
(* Music kept on the device *)

DownloadRow == [saved : Nat, repaired : BOOLEAN, epoch : Nat]
DownloadRows == [Keys -> DownloadRow \cup {None}]
Lists == UNION {[S -> DownloadRow] : S \in SUBSET Keys}
TabLoad == [at : {"asked", "read"}, shown : BOOLEAN, rows : DownloadRows]
TabTransfer == [key : Keys, at : {"loading", "resolving", "fetching", "committing", "committed"},
                aborted : BOOLEAN, row : DownloadRow \cup {None}]
TabRepair == [left : Lists, key : Keys \cup {None}, at : {"next", "fetching", "written"},
              aborted : BOOLEAN]
TabClearing == [at : {"draining", "cleared", "failed"}, waits : BOOLEAN]
TabState == [ready : BOOLEAN, error : BOOLEAN, items : DownloadRows, load : TabLoad \cup {None},
             transfer : TabTransfer \cup {None}, repair : TabRepair \cup {None},
             removing : [Keys -> {"no", "asked", "done"}], clearing : TabClearing \cup {None}]

\* None is no row and nothing under way; tabs and tracks are finitely many.
DownloadValues ==
    /\ None \notin DownloadRow /\ None \notin TabLoad /\ None \notin TabTransfer
    /\ None \notin TabRepair /\ None \notin TabClearing
    /\ IsFiniteSet(Tabs) /\ IsFiniteSet(Keys) /\ MaxRows \in Nat

Stage(x, at) == x # None /\ x.at = at

\* A transfer that has read the epoch has its row, a repair that fetches its key.
TabFits(s) ==
    /\ s.transfer # None /\ s.transfer.at \in {"fetching", "committing", "committed"}
          => s.transfer.row \in DownloadRow
    /\ s.repair # None /\ s.repair.at \in {"fetching", "written"} => s.repair.key \in Keys

\* A tab alone shows of the track k what is stored, in r, or has a transaction to
\* complete that has changed it.
Agree(s, k, r) ==
    IF r[k] = None THEN s.items[k] = None
    ELSE s.items[k] # None /\ s.items[k].saved = r[k].saved
Match(s, k, r) ==
    \/ Agree(s, k, r) \/ s.removing[k] = "done" \/ Stage(s.clearing, "cleared")
    \/ Stage(s.transfer, "committed") /\ s.transfer.key = k
Alone(s, r) ==
    /\ Stage(s.load, "read") => s.load.rows = r
    /\ Stage(s.transfer, "committed") =>
        r[s.transfer.key] # None /\ r[s.transfer.key].saved = s.transfer.row.saved
    /\ Stage(s.clearing, "cleared") => r = Downloads!NoRows
    /\ \A k \in Keys : s.removing[k] = "done" => r[k] = None
    /\ s.ready /\ ~s.error => \A k \in Keys : Match(s, k, r)

DownloadsInv ==
    /\ rows \in DownloadRows /\ epoch \in Nat /\ saves \in Nat
    /\ tab \in [Tabs -> TabState] /\ \A t \in Tabs : TabFits(tab[t])
    /\ Downloads!NoneResurrected
    /\ Cardinality(Tabs) = 1 => \A t \in Tabs : Alone(tab[t], rows)

\* The tab p shows what the tab s does, and what s has to complete p has.
AsShown(p, s) ==
    /\ p.ready = s.ready /\ p.error = s.error /\ p.items = s.items
    /\ Stage(p.load, "read") => Stage(s.load, "read") /\ p.load.rows = s.load.rows
    /\ Stage(p.transfer, "committed") <=> Stage(s.transfer, "committed")
    /\ Stage(s.transfer, "committed") =>
        p.transfer.key = s.transfer.key /\ p.transfer.row = s.transfer.row
    /\ Stage(p.clearing, "cleared") <=> Stage(s.clearing, "cleared")
    /\ \A k \in Keys : p.removing[k] = "done" <=> s.removing[k] = "done"

LEMMA AsShownAlone ==
    ASSUME NEW s, NEW p, NEW r, Alone(s, r), AsShown(p, s)
    PROVE  Alone(p, r)
<1>1. ASSUME NEW k \in Keys, Match(s, k, r) PROVE Match(p, k, r)
  BY <1>1 DEF Match, Agree, AsShown
<1>2. p.ready /\ ~p.error => \A k \in Keys : Match(p, k, r) BY <1>1 DEF Alone, AsShown
<1> QED BY <1>2 DEF Alone, AsShown

LEMMA DownloadsCardinality == ASSUME NEW S PROVE Downloads!Cardinality(S) = Cardinality(S)
BY DEF Downloads!Cardinality, Cardinality

LEMMA OneTab ==
    ASSUME DownloadValues, Cardinality(Tabs) = 1, NEW t \in Tabs, NEW u \in Tabs PROVE u = t
BY FS_Singleton DEF DownloadValues

\* A step of one tab.
LEMMA TabStep ==
    ASSUME DownloadValues, DownloadsInv, NEW t \in Tabs, NEW s \in TabState, tab' = [tab EXCEPT ![t] = s],
           TabFits(s), rows' \in DownloadRows, epoch' \in Nat, saves' \in Nat,
           Downloads!NoneResurrected',
           Alone(tab[t], rows) => Alone(s, rows')
    PROVE  DownloadsInv'
<1>1. /\ tab' \in [Tabs -> TabState] /\ tab'[t] = s
      /\ \A u \in Tabs : u # t => tab'[u] = tab[u]
  BY DEF DownloadsInv
<1>2. \A u \in Tabs : TabFits(tab'[u]) BY <1>1 DEF DownloadsInv
<1>3. ASSUME Cardinality(Tabs) = 1, NEW u \in Tabs PROVE Alone(tab'[u], rows')
  BY <1>1, <1>3, OneTab DEF DownloadsInv
<1> QED BY <1>1, <1>2, <1>3 DEF DownloadsInv

\* A step of one tab that leaves the stored rows alone, and shows what it did.
LEMMA QuietTabStep ==
    ASSUME DownloadValues, DownloadsInv, NEW t \in Tabs, NEW s \in TabState,
           tab' = [tab EXCEPT ![t] = s], UNCHANGED <<rows, epoch>>, saves' \in Nat,
           TabFits(s), AsShown(s, tab[t])
    PROVE  DownloadsInv'
<1>1. Downloads!NoneResurrected' BY DEF DownloadsInv, Downloads!NoneResurrected, Downloads!Of
<1> QED BY <1>1, TabStep, AsShownAlone DEF DownloadsInv

\* As little is said of a tab where only the load changes: how, and what with it.
LEMMA LoadingTab ==
    ASSUME DownloadValues, NEW s \in TabState
    PROVE  LET p == Downloads!Loading(s)
           IN  /\ p \in TabState /\ AsShown(p, s) /\ p.transfer = s.transfer /\ p.repair = s.repair
<1> DEFINE p == Downloads!Loading(s)
           load == [at |-> "asked", shown |-> TRUE, rows |-> Downloads!NoRows]
<1>1. Downloads!NoRows \in DownloadRows BY DEF Downloads!NoRows, DownloadRows
<1>2. load \in TabLoad /\ load.at = "asked" BY <1>1 DEF TabLoad
<1> HIDE DEF load
<1>3. CASE s.load # None BY <1>3 DEF Downloads!Loading, AsShown
<1>4. CASE s.load = None
  <2>1. p = [s EXCEPT !.load = load] BY <1>4 DEF Downloads!Loading, load
  <2> HIDE DEF p
  <2>2. /\ p \in TabState /\ p.load = load /\ p.ready = s.ready /\ p.error = s.error
        /\ p.items = s.items /\ p.transfer = s.transfer /\ p.repair = s.repair
        /\ p.removing = s.removing /\ p.clearing = s.clearing
    BY <1>2, <2>1 DEF TabState
  <2> QED BY <1>2, <2>2 DEF AsShown, Stage, p
<1> QED BY <1>3, <1>4

LEMMA BumpedTab ==
    ASSUME DownloadValues, NEW s \in TabState
    PROVE  LET p == Downloads!Bumped(s)
           IN  /\ p \in TabState /\ AsShown(p, s) /\ p.transfer = s.transfer /\ p.repair = s.repair
               /\ p.clearing = s.clearing /\ p.removing = s.removing
<1> DEFINE p == Downloads!Bumped(s)
           load == [s.load EXCEPT !.shown = FALSE]
<1>1. CASE s.load = None BY <1>1 DEF Downloads!Bumped, AsShown
<1>2. CASE s.load # None
  <2>1. s.load \in TabLoad BY <1>2 DEF TabState
  <2>2. load \in TabLoad /\ load.at = s.load.at /\ load.rows = s.load.rows
    BY <2>1 DEF TabLoad
  <2>3. p = [s EXCEPT !.load = load] BY <1>2 DEF Downloads!Bumped
  <2> HIDE DEF p, load
  <2>4. /\ p \in TabState /\ p.load = load /\ p.ready = s.ready /\ p.error = s.error
        /\ p.items = s.items /\ p.transfer = s.transfer /\ p.repair = s.repair
        /\ p.removing = s.removing /\ p.clearing = s.clearing
    BY <2>2, <2>3 DEF TabState
  <2> QED BY <1>2, <2>2, <2>4 DEF AsShown, Stage, p
<1> QED BY <1>1, <1>2

\* A tab with another transfer, repair or clearing is a tab.
LEMMA TabWith ==
    ASSUME NEW s \in TabState,
           NEW x \in TabTransfer \cup {None}, NEW y \in TabRepair \cup {None},
           NEW z \in TabClearing \cup {None}
    PROVE  /\ [s EXCEPT !.transfer = x] \in TabState
           /\ [s EXCEPT !.repair = y] \in TabState
           /\ [s EXCEPT !.clearing = z] \in TabState
BY DEF TabState

LEMMA TransferStep ==
    ASSUME DownloadValues, DownloadsInv, NEW t \in Tabs, NEW x \in TabTransfer \cup {None},
           tab' = [tab EXCEPT ![t] = [tab[t] EXCEPT !.transfer = x]],
           UNCHANGED <<rows, epoch>>, saves' \in Nat, ~Stage(tab[t].transfer, "committed"),
           ~Stage(x, "committed"),
           x # None /\ x.at \in {"fetching", "committing"} => x.row \in DownloadRow
    PROVE  DownloadsInv'
<1> DEFINE s == [tab[t] EXCEPT !.transfer = x]
<1>1. tab[t] \in TabState /\ TabFits(tab[t]) BY DEF DownloadsInv
<1>2. /\ s \in TabState /\ s.transfer = x /\ s.load = tab[t].load /\ s.ready = tab[t].ready
      /\ s.error = tab[t].error /\ s.items = tab[t].items /\ s.repair = tab[t].repair
      /\ s.removing = tab[t].removing /\ s.clearing = tab[t].clearing
  BY <1>1 DEF TabState
<1> HIDE DEF s
<1>3. AsShown(s, tab[t]) BY <1>2 DEF AsShown
<1>4. TabFits(s) BY <1>1, <1>2 DEF TabFits, Stage
<1> QED BY <1>2, <1>3, <1>4, QuietTabStep DEF s

LEMMA RepairStep ==
    ASSUME DownloadValues, DownloadsInv, NEW t \in Tabs, NEW y \in TabRepair \cup {None},
           tab' = [tab EXCEPT ![t] = [tab[t] EXCEPT !.repair = y]],
           UNCHANGED <<rows, epoch, saves>>,
           y # None /\ y.at \in {"fetching", "written"} => y.key \in Keys
    PROVE  DownloadsInv'
<1> DEFINE s == [tab[t] EXCEPT !.repair = y]
<1>1. tab[t] \in TabState /\ TabFits(tab[t]) BY DEF DownloadsInv
<1>2. /\ s \in TabState /\ s.repair = y /\ s.load = tab[t].load /\ s.ready = tab[t].ready
      /\ s.error = tab[t].error /\ s.items = tab[t].items /\ s.transfer = tab[t].transfer
      /\ s.removing = tab[t].removing /\ s.clearing = tab[t].clearing
  BY <1>1 DEF TabState
<1> HIDE DEF s
<1>3. AsShown(s, tab[t]) BY <1>2 DEF AsShown
<1>4. TabFits(s) BY <1>1, <1>2 DEF TabFits
<1> QED BY <1>2, <1>3, <1>4, QuietTabStep DEF s, DownloadsInv

LEMMA LoadStep ==
    ASSUME DownloadValues, DownloadsInv, NEW t \in Tabs, Downloads!Load(t) \/ Downloads!ListRuns(t)
    PROVE  DownloadsInv'
<1>0. tab[t] \in TabState /\ TabFits(tab[t]) /\ rows \in DownloadRows /\ saves \in Nat
  BY DEF DownloadsInv
<1>1. CASE Downloads!Load(t)
  <2> DEFINE s == Downloads!Loading(tab[t])
  <2>1. tab' = [tab EXCEPT ![t] = s] /\ UNCHANGED <<rows, epoch, saves>>
    BY <1>1 DEF Downloads!Load, Downloads!Become
  <2>2. s \in TabState /\ AsShown(s, tab[t]) /\ TabFits(s) BY <1>0, LoadingTab DEF TabFits
  <2> HIDE DEF s
  <2> QED BY <1>0, <2>1, <2>2, QuietTabStep
<1>2. CASE Downloads!ListRuns(t)
  <2> DEFINE load == [tab[t].load EXCEPT !.at = "read", !.rows = rows]
             s == [tab[t] EXCEPT !.load = load]
  <2>1. /\ tab[t].load \in TabLoad /\ tab' = [tab EXCEPT ![t] = s]
        /\ UNCHANGED <<rows, epoch, saves>>
    BY <1>0, <1>2 DEF Downloads!ListRuns, TabState
  <2>2. load \in TabLoad /\ load.rows = rows BY <1>0, <2>1 DEF TabLoad
  <2> HIDE DEF load
  <2>3. /\ s \in TabState /\ s.load = load /\ s.ready = tab[t].ready
        /\ s.error = tab[t].error /\ s.items = tab[t].items /\ s.repair = tab[t].repair
        /\ s.removing = tab[t].removing /\ s.clearing = tab[t].clearing
        /\ s.transfer = tab[t].transfer
    BY <1>0, <2>2 DEF TabState
  <2> HIDE DEF s
  <2>4. TabFits(s) BY <1>0, <2>3 DEF TabFits
  <2>5. ASSUME Alone(tab[t], rows) PROVE Alone(s, rows)
    BY <2>2, <2>3, <2>5 DEF Alone, Match, Agree
  <2>6. Downloads!NoneResurrected'
    BY <2>1 DEF DownloadsInv, Downloads!NoneResurrected, Downloads!Of
  <2> QED BY <2>1, <2>3, <2>4, <2>5, <2>6, TabStep DEF DownloadsInv
<1> QED BY <1>1, <1>2

LEMMA WaitedTab ==
    ASSUME DownloadValues, NEW s \in TabState, TabFits(s)
    PROVE  LET p == Downloads!Waited(s) IN p \in TabState /\ TabFits(p) /\ AsShown(p, s)
<1> DEFINE after == IF s.transfer = None \/ s.transfer.at # "loading" THEN s
                    ELSE IF s.error \/ s.items[s.transfer.key] # None
                            \/ Downloads!Cardinality(Downloads!Of(s.items)) >= MaxRows
                    THEN [s EXCEPT !.transfer = None]
                    ELSE [s EXCEPT !.transfer.at = "resolving"]
           p == IF after.clearing = None THEN after
                ELSE IF after.clearing.at = "failed" THEN [after EXCEPT !.clearing = None]
                ELSE [after EXCEPT !.clearing.waits = FALSE]
<1>1. after \in TabState /\ TabFits(after) /\ AsShown(after, s)
  <2>1. CASE after = s BY <2>1 DEF AsShown
  <2>2. ASSUME NEW x \in TabTransfer \cup {None}, s.transfer # None, s.transfer.at = "loading",
               x = None \/ x.at = "resolving", after = [s EXCEPT !.transfer = x]
        PROVE  after \in TabState /\ TabFits(after) /\ AsShown(after, s)
    <3> HIDE DEF after
    <3>1. /\ after \in TabState /\ after.transfer = x /\ after.load = s.load /\ after.ready = s.ready
          /\ after.error = s.error /\ after.items = s.items /\ after.repair = s.repair
          /\ after.removing = s.removing /\ after.clearing = s.clearing
      BY <2>2 DEF TabState
    <3> QED BY <2>2, <3>1 DEF AsShown, TabFits, Stage
  <2>3. CASE s.transfer # None /\ s.transfer.at = "loading"
    <3> DEFINE x == [s.transfer EXCEPT !.at = "resolving"]
    <3>1. s.transfer \in TabTransfer BY <2>3 DEF TabState
    <3>2. x \in TabTransfer /\ x.at = "resolving" BY <3>1 DEF TabTransfer
    <3>3. after = [s EXCEPT !.transfer = None] \/ after = [s EXCEPT !.transfer = x] BY <2>3
    <3> HIDE DEF x, after
    <3> QED BY <2>2, <2>3, <3>2, <3>3
  <2> QED BY <2>1, <2>3
<1> HIDE DEF after
<1>2. p \in TabState /\ TabFits(p) /\ AsShown(p, after)
  <2>1. CASE p = after BY <1>1, <2>1 DEF AsShown
  <2>2. ASSUME NEW z \in TabClearing \cup {None}, after.clearing # None,
               Stage(z, "cleared") <=> Stage(after.clearing, "cleared"),
               p = [after EXCEPT !.clearing = z]
        PROVE  p \in TabState /\ TabFits(p) /\ AsShown(p, after)
    <3> HIDE DEF p
    <3>1. /\ p \in TabState /\ p.transfer = after.transfer /\ p.load = after.load
          /\ p.ready = after.ready /\ p.error = after.error /\ p.items = after.items
          /\ p.repair = after.repair /\ p.removing = after.removing /\ p.clearing = z
      BY <1>1, <2>2 DEF TabState
    <3> QED BY <1>1, <2>2, <3>1 DEF AsShown, TabFits
  <2>3. CASE after.clearing # None
    <3> DEFINE z == [after.clearing EXCEPT !.waits = FALSE]
    <3>1. after.clearing \in TabClearing BY <1>1, <2>3 DEF TabState
    <3>2. z \in TabClearing /\ z.at = after.clearing.at BY <3>1 DEF TabClearing
    <3>3. CASE after.clearing.at = "failed"
      <4>1. p = [after EXCEPT !.clearing = None] BY <2>3, <3>3
      <4> HIDE DEF p
      <4> QED BY <2>2, <2>3, <3>3, <4>1 DEF Stage
    <3>4. CASE after.clearing.at # "failed"
      <4>1. p = [after EXCEPT !.clearing = z] BY <2>3, <3>4
      <4>2. z # None BY <3>2 DEF DownloadValues
      <4> HIDE DEF p, z
      <4> QED BY <2>2, <2>3, <3>2, <4>1, <4>2 DEF Stage
    <3> QED BY <3>3, <3>4
  <2> QED BY <2>1, <2>3
<1>3. AsShown(p, s) BY <1>1, <1>2 DEF AsShown
<1>4. Downloads!Waited(s) = p BY DEF Downloads!Waited, after
<1> HIDE DEF p
<1> QED BY <1>2, <1>3, <1>4

LEMMA LoadEndsStep ==
    ASSUME DownloadValues, DownloadsInv, NEW t \in Tabs, NEW ok \in BOOLEAN,
           Downloads!LoadEnds(t, ok)
    PROVE  DownloadsInv'
<1> DEFINE s == tab[t]
           after == IF ~s.load.shown THEN s
                    ELSE IF ok THEN [s EXCEPT !.ready = TRUE, !.error = FALSE, !.items = s.load.rows]
                    ELSE [s EXCEPT !.ready = TRUE, !.error = TRUE]
           p == [after EXCEPT !.load = None]
           q == Downloads!Waited(p)
<1>0. s \in TabState /\ TabFits(s) BY DEF DownloadsInv
<1>1. /\ s.load \in TabLoad /\ s.load.rows \in DownloadRows
      /\ ok => Stage(s.load, "read")
      /\ tab' = [tab EXCEPT ![t] = q] /\ UNCHANGED <<rows, epoch, saves>>
  BY <1>0 DEF Downloads!LoadEnds, Downloads!Become, TabState, TabLoad, Stage
<1> HIDE DEF s
<1>2. /\ after \in TabState /\ after.transfer = s.transfer /\ after.repair = s.repair
      /\ after.removing = s.removing /\ after.clearing = s.clearing
      /\ \/ after = s
         \/ ok /\ after.ready /\ ~after.error /\ after.items = s.load.rows
         \/ after.error
  BY <1>0, <1>1 DEF TabState
<1> HIDE DEF after
<1>3. /\ p \in TabState /\ p.load = None /\ p.transfer = s.transfer /\ p.repair = s.repair
      /\ p.removing = s.removing /\ p.clearing = s.clearing /\ p.items = after.items
      /\ p.ready = after.ready /\ p.error = after.error
  BY <1>2 DEF TabState
<1> HIDE DEF p
<1>4. TabFits(p) BY <1>0, <1>3 DEF TabFits
<1>5. ASSUME Alone(s, rows) PROVE Alone(p, rows)
  <2>1. CASE after = s BY <1>3, <1>5, <2>1 DEF Alone, Match, Agree, Stage
  <2>2. CASE ok /\ after.items = s.load.rows
    <3>1. p.items = rows BY <1>1, <1>3, <1>5, <2>2 DEF Alone
    <3>2. \A k \in Keys : Agree(p, k, rows) BY <3>1 DEF Agree
    <3> QED BY <1>3, <1>5, <3>2 DEF Alone, Match, Stage
  <2>3. CASE after.error BY <1>3, <1>5, <2>3 DEF Alone, Stage
  <2> QED BY <1>2, <2>1, <2>2, <2>3
<1>6. q \in TabState /\ TabFits(q) /\ AsShown(q, p) BY <1>3, <1>4, WaitedTab
<1> HIDE DEF q
<1>7. Alone(s, rows) => Alone(q, rows) BY <1>5, <1>6, AsShownAlone
<1>8. Downloads!NoneResurrected'
  BY <1>1 DEF DownloadsInv, Downloads!NoneResurrected, Downloads!Of
<1> QED BY <1>1, <1>6, <1>7, <1>8, TabStep DEF DownloadsInv, s

LEMMA StartTransferStep ==
    ASSUME DownloadValues, DownloadsInv, NEW t \in Tabs, NEW k \in Keys, Downloads!Start(t, k)
    PROVE  DownloadsInv'
<1> DEFINE x == [key |-> k, at |-> "loading", aborted |-> FALSE, row |-> None]
           s == [tab[t] EXCEPT !.transfer = x]
           p == Downloads!Loading(s)
<1>0. /\ tab[t] \in TabState /\ TabFits(tab[t]) /\ tab[t].transfer = None
      /\ tab' = [tab EXCEPT ![t] = p] /\ UNCHANGED <<rows, epoch, saves>> /\ saves \in Nat
  BY DEF DownloadsInv, Downloads!Start, Downloads!Become
<1>1. x \in TabTransfer /\ x.at = "loading" BY DEF TabTransfer
<1> HIDE DEF x
<1>2. /\ s \in TabState /\ s.transfer = x /\ s.load = tab[t].load /\ s.ready = tab[t].ready
      /\ s.error = tab[t].error /\ s.items = tab[t].items /\ s.repair = tab[t].repair
      /\ s.removing = tab[t].removing /\ s.clearing = tab[t].clearing
  BY <1>0, <1>1 DEF TabState
<1> HIDE DEF s
<1>3. /\ p \in TabState /\ AsShown(p, s) /\ p.transfer = s.transfer /\ p.repair = s.repair
  BY <1>2, LoadingTab
<1> HIDE DEF p
<1>4. TabFits(p) BY <1>0, <1>1, <1>2, <1>3 DEF TabFits
<1>5. AsShown(p, tab[t]) BY <1>0, <1>1, <1>2, <1>3 DEF AsShown, Stage
<1> QED BY <1>0, <1>3, <1>4, <1>5, QuietTabStep

\* The transfer goes on, or ends with nothing stored.
LEMMA TransferGoes ==
    ASSUME DownloadValues, DownloadsInv, NEW t \in Tabs,
           \/ Downloads!ReadEpoch(t) \/ Downloads!Fetched(t) \/ Downloads!TransferFails(t)
    PROVE  DownloadsInv'
<1> DEFINE x == tab[t].transfer
<1>0. /\ tab[t] \in TabState /\ TabFits(tab[t]) /\ epoch \in Nat /\ saves \in Nat
      /\ x # None => x \in TabTransfer
  BY DEF DownloadsInv, TabState
<1>1. CASE Downloads!ReadEpoch(t)
  <2> DEFINE row == Downloads!Row(saves', epoch)
             y == [x EXCEPT !.at = "fetching", !.row = row]
  <2>1. /\ Stage(x, "resolving") /\ saves' = saves + 1 /\ UNCHANGED <<rows, epoch>>
        /\ tab' = [tab EXCEPT ![t] = [tab[t] EXCEPT !.transfer = y]]
    BY <1>0, <1>1 DEF Downloads!ReadEpoch, Downloads!Transferring, Stage, DownloadsInv
  <2>2. saves' \in Nat BY <1>0, <2>1
  <2>3. row \in DownloadRow BY <1>0, <2>2 DEF Downloads!Row, DownloadRow
  <2> HIDE DEF row
  <2>4. y \in TabTransfer /\ y.at = "fetching" /\ y.row = row
    BY <1>0, <2>1, <2>3 DEF TabTransfer, Stage
  <2> HIDE DEF y
  <2> QED BY <2>1, <2>2, <2>3, <2>4, TransferStep DEF Stage
<1>2. CASE Downloads!Fetched(t)
  <2> DEFINE y == [x EXCEPT !.at = "committing"]
  <2>1. /\ Stage(x, "fetching") /\ UNCHANGED <<rows, epoch, saves>>
        /\ tab' = [tab EXCEPT ![t] = [tab[t] EXCEPT !.transfer = y]]
    BY <1>0, <1>2 DEF Downloads!Fetched, Downloads!Transferring, Stage, DownloadsInv
  <2>2. y \in TabTransfer /\ y.at = "committing" /\ y.row = x.row
    BY <1>0, <2>1 DEF TabTransfer, Stage
  <2>3. x.row \in DownloadRow BY <1>0, <2>1 DEF TabFits, Stage
  <2> HIDE DEF y
  <2> QED BY <1>0, <2>1, <2>2, <2>3, TransferStep DEF Stage
<1>3. CASE Downloads!TransferFails(t)
  <2>1. /\ ~Stage(x, "committed") /\ UNCHANGED <<rows, epoch, saves>>
        /\ tab' = [tab EXCEPT ![t] = [tab[t] EXCEPT !.transfer = None]]
    BY <1>3 DEF Downloads!TransferFails, Downloads!Transferring, Stage
  <2> QED BY <1>0, <2>1, TransferStep DEF Stage
<1> QED BY <1>1, <1>2, <1>3

\* A tab that runs a transaction has none to complete.
LEMMA SettledTab ==
    ASSUME NEW t \in Tabs, Downloads!Settled(t)
    PROVE  /\ ~Stage(tab[t].load, "read") /\ ~Stage(tab[t].transfer, "committed")
           /\ ~Stage(tab[t].clearing, "cleared")
           /\ \A k \in Keys : tab[t].removing[k] # "done"
BY DEF Downloads!Settled, Stage

LEMMA StoredFinite ==
    ASSUME DownloadValues, NEW r
    PROVE  IsFiniteSet(Downloads!Of(r)) /\ Cardinality(Downloads!Of(r)) \in Nat
BY FS_Subset, FS_CardinalityType DEF DownloadValues, Downloads!Of

LEMMA CommitStep ==
    ASSUME DownloadValues, DownloadsInv, NEW t \in Tabs, Downloads!Commit(t)
    PROVE  DownloadsInv'
<1> DEFINE x == tab[t].transfer
           k == x.key
<1>0. /\ tab[t] \in TabState /\ TabFits(tab[t]) /\ epoch \in Nat /\ saves \in Nat
      /\ rows \in DownloadRows /\ Stage(x, "committing") /\ x \in TabTransfer /\ k \in Keys
      /\ x.row \in DownloadRow /\ UNCHANGED <<epoch, saves>>
  BY DEF DownloadsInv, Downloads!Commit, Downloads!Transferring, Stage, TabState, TabTransfer, TabFits
<1>1. CASE x.row.epoch # epoch \/ Downloads!Cardinality(Downloads!Of(rows) \ {k}) >= MaxRows
  <2>1. rows' = rows /\ tab' = [tab EXCEPT ![t] = [tab[t] EXCEPT !.transfer = None]]
    BY <1>1 DEF Downloads!Commit
  <2> QED BY <1>0, <2>1, TransferStep DEF Stage
<1>2. CASE ~ (x.row.epoch # epoch \/ Downloads!Cardinality(Downloads!Of(rows) \ {k}) >= MaxRows)
  <2> DEFINE y == [x EXCEPT !.at = "committed"]
             s == [tab[t] EXCEPT !.transfer = y]
  <2>1. /\ rows' = [rows EXCEPT ![k] = x.row] /\ tab' = [tab EXCEPT ![t] = s]
        /\ x.row.epoch = epoch /\ Downloads!Settled(t)
    BY <1>2 DEF Downloads!Commit
  <2>2. /\ y \in TabTransfer /\ y.at = "committed" /\ y.row = x.row /\ y.key = k /\ y # None
    BY <1>0 DEF TabTransfer, DownloadValues
  <2> HIDE DEF y
  <2>3. /\ s \in TabState /\ s.transfer = y /\ s.load = tab[t].load /\ s.ready = tab[t].ready
        /\ s.error = tab[t].error /\ s.items = tab[t].items /\ s.repair = tab[t].repair
        /\ s.removing = tab[t].removing /\ s.clearing = tab[t].clearing
    BY <1>0, <2>2 DEF TabState
  <2> HIDE DEF s
  <2>4. TabFits(s) BY <1>0, <2>2, <2>3 DEF TabFits
  <2>5. /\ rows' \in DownloadRows /\ rows'[k] = x.row /\ x.row # None
        /\ \A j \in Keys : j # k => rows'[j] = rows[j]
    BY <1>0, <2>1 DEF DownloadRows, DownloadValues
  <2>6. ASSUME Alone(tab[t], rows) PROVE Alone(s, rows')
    <3>1. ASSUME s.ready, ~s.error, NEW j \in Keys PROVE Match(s, j, rows')
      <4>1. CASE j = k BY <2>2, <2>3, <4>1 DEF Match, Stage
      <4>2. CASE j # k
        <5>1. Agree(tab[t], j, rows)
          BY <2>1, <2>3, <2>6, <3>1, SettledTab DEF Alone, Match
        <5> QED BY <2>3, <2>5, <4>2, <5>1 DEF Match, Agree
      <4> QED BY <4>1, <4>2
    <3>2. Stage(s.transfer, "committed") =>
            rows'[s.transfer.key] # None /\ rows'[s.transfer.key].saved = s.transfer.row.saved
      BY <2>2, <2>3, <2>5
    <3> QED BY <2>1, <2>3, <3>1, <3>2, SettledTab DEF Alone
  <2>7. Downloads!NoneResurrected'
    <3>1. \A j \in Downloads!Of(rows') : rows'[j].epoch = epoch'
      BY <1>0, <2>1, <2>5 DEF DownloadsInv, Downloads!NoneResurrected, Downloads!Of
    <3> DEFINE old == Downloads!Of(rows) \ {k}
    <3>2. IsFiniteSet(old) /\ Cardinality(old) \in Nat
      BY StoredFinite, FS_Subset, FS_CardinalityType
    <3>3. ~ Cardinality(old) >= MaxRows BY <1>2, DownloadsCardinality
    <3>4. Cardinality(old \cup {k}) = Cardinality(old) + 1 /\ IsFiniteSet(old \cup {k})
      BY <3>2, FS_AddElement
    <3>5. Downloads!Of(rows') \subseteq old \cup {k} BY <2>5 DEF Downloads!Of
    <3>6. Cardinality(Downloads!Of(rows')) <= Cardinality(old) + 1 BY <3>4, <3>5, FS_Subset
    <3>7. Cardinality(Downloads!Of(rows')) \in Nat BY StoredFinite
    <3> HIDE DEF old
    <3>8. Cardinality(Downloads!Of(rows')) <= MaxRows BY <3>2, <3>3, <3>6, <3>7 DEF DownloadValues
    <3> QED BY <3>1, <3>8, DownloadsCardinality DEF Downloads!NoneResurrected
  <2> QED BY <1>0, <2>1, <2>3, <2>4, <2>5, <2>6, <2>7, TabStep
<1> QED BY <1>1, <1>2

LEMMA CommittedStep ==
    ASSUME DownloadValues, DownloadsInv, NEW t \in Tabs, Downloads!Committed(t)
    PROVE  DownloadsInv'
<1> DEFINE x == tab[t].transfer
           k == x.key
           s == [tab[t] EXCEPT !.items[k] = x.row, !.transfer = None]
           p == Downloads!Bumped(s)
<1>0. /\ tab[t] \in TabState /\ TabFits(tab[t]) /\ epoch \in Nat /\ saves \in Nat
      /\ rows \in DownloadRows /\ Stage(x, "committed") /\ x \in TabTransfer /\ k \in Keys
      /\ x.row \in DownloadRow /\ UNCHANGED <<rows, epoch, saves>>
      /\ tab' = [tab EXCEPT ![t] = p]
  BY DEF DownloadsInv, Downloads!Committed, Downloads!Transferring, Downloads!Become, Stage,
         TabState, TabTransfer, TabFits
<1>1. /\ s \in TabState /\ s.transfer = None /\ s.load = tab[t].load /\ s.ready = tab[t].ready
      /\ s.error = tab[t].error /\ s.repair = tab[t].repair
      /\ s.removing = tab[t].removing /\ s.clearing = tab[t].clearing
      /\ s.items[k] = x.row /\ \A j \in Keys : j # k => s.items[j] = tab[t].items[j]
  <2> DEFINE items == [tab[t].items EXCEPT ![k] = x.row]
  <2>1. /\ items \in DownloadRows /\ items[k] = x.row
        /\ \A j \in Keys : j # k => items[j] = tab[t].items[j]
    BY <1>0 DEF DownloadRows, TabState
  <2>2. s = [tab[t] EXCEPT !.items = items, !.transfer = None] OBVIOUS
  <2> HIDE DEF s, items
  <2> QED BY <1>0, <2>1, <2>2 DEF TabState
<1> HIDE DEF s
<1>2. /\ p \in TabState /\ AsShown(p, s) /\ p.transfer = s.transfer /\ p.repair = s.repair
  BY <1>1, BumpedTab
<1> HIDE DEF p
<1>3. TabFits(p) BY <1>0, <1>1, <1>2 DEF TabFits
<1>4. ASSUME Alone(tab[t], rows) PROVE Alone(s, rows)
  <2>1. ASSUME s.ready, ~s.error, NEW j \in Keys PROVE Match(s, j, rows)
    <3>1. CASE j = k
      <4>1. rows[k] # None /\ rows[k].saved = x.row.saved /\ x.row # None
        BY <1>0, <1>4 DEF Alone, DownloadValues
      <4> QED BY <1>1, <3>1, <4>1 DEF Match, Agree
    <3>2. CASE j # k
      <4>1. Match(tab[t], j, rows) BY <1>1, <1>4, <2>1 DEF Alone
      <4> QED BY <1>1, <3>2, <4>1 DEF Match, Agree
    <3> QED BY <3>1, <3>2
  <2> QED BY <1>1, <1>4, <2>1 DEF Alone, Stage
<1>5. Alone(tab[t], rows) => Alone(p, rows) BY <1>2, <1>4, AsShownAlone
<1>6. Downloads!NoneResurrected'
  BY <1>0 DEF DownloadsInv, Downloads!NoneResurrected, Downloads!Of
<1> QED BY <1>0, <1>2, <1>3, <1>5, <1>6, TabStep

LEMMA WithoutLists ==
    ASSUME NEW f \in Lists, NEW k PROVE Downloads!Without(f, k) \in Lists
<1>1. PICK S \in SUBSET Keys : f \in [S -> DownloadRow] BY DEF Lists
<1>2. S \ {k} \in SUBSET Keys /\ DOMAIN f \ {k} = S \ {k} BY <1>1
<1>3. Downloads!Without(f, k) \in [S \ {k} -> DownloadRow]
  BY <1>1, <1>2 DEF Downloads!Without
<1> QED BY <1>2, <1>3 DEF Lists

\* What a repair does to no stored row.
LEMMA RepairGoes ==
    ASSUME DownloadValues, DownloadsInv, NEW t \in Tabs,
           \/ Downloads!Repair(t) \/ Downloads!RepairEnds(t)
           \/ \E k \in Keys : Downloads!RepairReads(t, k) \/ Downloads!RepairSkips(t, k)
    PROVE  DownloadsInv'
<1> DEFINE s == tab[t]
           x == s.repair
<1>0. /\ s \in TabState /\ TabFits(s) /\ (x # None => x \in TabRepair)
      /\ UNCHANGED <<rows, epoch, saves>>
  BY DEF DownloadsInv, TabState, Downloads!Repair, Downloads!RepairEnds, Downloads!RepairReads,
         Downloads!RepairSkips
<1>1. CASE Downloads!Repair(t)
  <2> DEFINE left == {k \in Downloads!Of(s.items) : ~s.items[k].repaired}
             list == [k \in left |-> s.items[k]]
             y == [left |-> list, key |-> None, at |-> "next", aborted |-> FALSE]
  <2>1. tab' = [tab EXCEPT ![t] = [s EXCEPT !.repair = y]]
    BY <1>1 DEF Downloads!Repair, Downloads!Become
  <2>2. left \in SUBSET Keys BY DEF Downloads!Of
  <2>3. list \in [left -> DownloadRow]
    <3>1. s.items \in DownloadRows BY <1>0 DEF TabState
    <3> QED BY <3>1 DEF DownloadRows, Downloads!Of
  <2>4. list \in Lists BY <2>2, <2>3 DEF Lists
  <2> HIDE DEF list
  <2>5. y \in TabRepair /\ y.at = "next" BY <2>4 DEF TabRepair
  <2> HIDE DEF y
  <2> QED BY <1>0, <2>1, <2>5, RepairStep
<1>2. CASE Downloads!RepairEnds(t)
  <2>1. tab' = [tab EXCEPT ![t] = [s EXCEPT !.repair = None]] BY <1>2 DEF Downloads!RepairEnds
  <2> QED BY <1>0, <2>1, RepairStep
<1>3. ASSUME NEW k \in Keys, Downloads!RepairReads(t, k) PROVE DownloadsInv'
  <2> DEFINE y == [x EXCEPT !.at = "fetching", !.key = k]
  <2>1. x \in TabRepair /\ tab' = [tab EXCEPT ![t] = [s EXCEPT !.repair = y]]
    BY <1>0, <1>3 DEF Downloads!RepairReads, Downloads!Repairing, DownloadsInv
  <2>2. y \in TabRepair /\ y.key = k BY <2>1 DEF TabRepair
  <2> HIDE DEF y
  <2> QED BY <1>0, <2>1, <2>2, RepairStep
<1>4. ASSUME NEW k \in Keys, Downloads!RepairSkips(t, k) PROVE DownloadsInv'
  <2> DEFINE y == [x EXCEPT !.left = Downloads!Without(x.left, k)]
  <2>1. x \in TabRepair /\ x.at = "next" /\ tab' = [tab EXCEPT ![t] = [s EXCEPT !.repair = y]]
    BY <1>0, <1>4 DEF Downloads!RepairSkips, Downloads!Repairing, DownloadsInv
  <2>2. Downloads!Without(x.left, k) \in Lists BY <2>1, WithoutLists DEF TabRepair
  <2>3. y \in TabRepair /\ y.at = "next" BY <2>1, <2>2 DEF TabRepair
  <2> HIDE DEF y
  <2> QED BY <1>0, <2>1, <2>3, RepairStep
<1> QED BY <1>1, <1>2, <1>3, <1>4

LEMMA RepairWritesStep ==
    ASSUME DownloadValues, DownloadsInv, NEW t \in Tabs, Downloads!RepairWrites(t)
    PROVE  DownloadsInv'
<1> DEFINE x == tab[t].repair
           k == x.key
<1>0. /\ tab[t] \in TabState /\ TabFits(tab[t]) /\ epoch \in Nat /\ saves \in Nat
      /\ rows \in DownloadRows /\ x # None /\ x.at = "fetching" /\ x \in TabRepair /\ k \in Keys
      /\ UNCHANGED <<epoch, saves>> /\ Downloads!Settled(t)
  BY DEF DownloadsInv, Downloads!RepairWrites, Downloads!Repairing, TabState, TabFits
<1>1. CASE rows[k] # None /\ rows[k].saved = x.left[k].saved
  <2> DEFINE y == [x EXCEPT !.at = "written"]
             s == [tab[t] EXCEPT !.repair = y]
             row == [rows[k] EXCEPT !.repaired = TRUE]
  <2>1. rows' = [rows EXCEPT ![k] = row] /\ tab' = [tab EXCEPT ![t] = s]
    BY <1>1 DEF Downloads!RepairWrites
  <2>2. rows[k] \in DownloadRow BY <1>0, <1>1 DEF DownloadRows
  <2>3. row \in DownloadRow /\ row.saved = rows[k].saved /\ row.epoch = rows[k].epoch
    BY <2>2 DEF DownloadRow
  <2>4. y \in TabRepair /\ y.key = k BY <1>0 DEF TabRepair
  <2> HIDE DEF y, row
  <2>5. /\ s \in TabState /\ s.repair = y /\ s.load = tab[t].load /\ s.ready = tab[t].ready
        /\ s.error = tab[t].error /\ s.items = tab[t].items /\ s.transfer = tab[t].transfer
        /\ s.removing = tab[t].removing /\ s.clearing = tab[t].clearing
    BY <1>0, <2>4 DEF TabState
  <2> HIDE DEF s
  <2>6. TabFits(s) BY <1>0, <2>4, <2>5 DEF TabFits
  <2>7. /\ rows' \in DownloadRows /\ rows'[k] = row /\ row # None
        /\ \A j \in Keys : j # k => rows'[j] = rows[j]
    BY <1>0, <2>1, <2>3 DEF DownloadRows, DownloadValues
  <2>8. ASSUME Alone(tab[t], rows) PROVE Alone(s, rows')
    <3>1. ASSUME s.ready, ~s.error, NEW j \in Keys PROVE Match(s, j, rows')
      <4>1. Agree(tab[t], j, rows) BY <1>0, <2>5, <2>8, <3>1, SettledTab DEF Alone, Match
      <4> QED BY <1>1, <2>3, <2>5, <2>7, <4>1 DEF Match, Agree
    <3> QED BY <1>0, <2>5, <3>1, SettledTab DEF Alone
  <2>9. Downloads!NoneResurrected'
    <3>1. Downloads!Of(rows') = Downloads!Of(rows) BY <1>1, <2>7 DEF Downloads!Of
    <3>2. \A j \in Downloads!Of(rows') : rows'[j].epoch = epoch'
      BY <1>0, <1>1, <2>3, <2>7 DEF DownloadsInv, Downloads!NoneResurrected, Downloads!Of
    <3> QED BY <3>1, <3>2 DEF DownloadsInv, Downloads!NoneResurrected
  <2> QED BY <1>0, <2>1, <2>5, <2>6, <2>7, <2>8, <2>9, TabStep
<1>2. CASE ~ (rows[k] # None /\ rows[k].saved = x.left[k].saved)
  <2> DEFINE y == [x EXCEPT !.at = "next", !.left = Downloads!Without(x.left, k)]
  <2>1. rows' = rows /\ tab' = [tab EXCEPT ![t] = [tab[t] EXCEPT !.repair = y]]
    BY <1>2 DEF Downloads!RepairWrites, DownloadsInv
  <2>2. Downloads!Without(x.left, k) \in Lists BY <1>0, WithoutLists DEF TabRepair
  <2>3. y \in TabRepair /\ y.at = "next" BY <1>0, <2>2 DEF TabRepair
  <2> HIDE DEF y
  <2> QED BY <1>0, <2>1, <2>3, RepairStep
<1> QED BY <1>1, <1>2

LEMMA RepairedStep ==
    ASSUME DownloadValues, DownloadsInv, NEW t \in Tabs, Downloads!Repaired(t)
    PROVE  DownloadsInv'
<1> DEFINE x == tab[t].repair
           k == x.key
           y == [x EXCEPT !.at = "next", !.left = Downloads!Without(x.left, k)]
           after == [tab[t] EXCEPT !.repair = y]
           s == [after EXCEPT !.items[k].repaired = TRUE]
<1>0. /\ tab[t] \in TabState /\ TabFits(tab[t]) /\ saves \in Nat /\ epoch \in Nat /\ rows \in DownloadRows
      /\ x # None /\ x.at = "written" /\ x \in TabRepair /\ k \in Keys
      /\ UNCHANGED <<rows, epoch, saves>>
  BY DEF DownloadsInv, Downloads!Repaired, Downloads!Repairing, TabState, TabFits
<1>1. y \in TabRepair /\ y.at = "next"
  BY <1>0, WithoutLists DEF TabRepair
<1> HIDE DEF y
<1>2. CASE tab' = [tab EXCEPT ![t] = after] BY <1>0, <1>1, <1>2, RepairStep
<1>3. CASE tab[t].items[k] # None /\ tab' = [tab EXCEPT ![t] = Downloads!Bumped(s)]
  <2> DEFINE p == Downloads!Bumped(s)
             item == [tab[t].items[k] EXCEPT !.repaired = TRUE]
             items == [tab[t].items EXCEPT ![k] = item]
  <2>1. tab[t].items \in DownloadRows /\ tab[t].items[k] \in DownloadRow
    BY <1>0, <1>3 DEF TabState, DownloadRows
  <2>2. item \in DownloadRow /\ item.saved = tab[t].items[k].saved /\ item # None
    BY <2>1 DEF DownloadRow, DownloadValues
  <2> HIDE DEF item
  <2>3. /\ items \in DownloadRows /\ items[k] = item
        /\ \A j \in Keys : j # k => items[j] = tab[t].items[j]
    BY <1>0, <2>1, <2>2 DEF DownloadRows
  <2>4. /\ after \in TabState /\ after.items = tab[t].items /\ after.repair = y
        /\ after.load = tab[t].load /\ after.ready = tab[t].ready
        /\ after.error = tab[t].error /\ after.transfer = tab[t].transfer
        /\ after.removing = tab[t].removing /\ after.clearing = tab[t].clearing
    BY <1>0, <1>1 DEF TabState
  <2> HIDE DEF after, items
  <2>5. s = [after EXCEPT !.items = items] BY <2>4 DEF items, item
  <2> HIDE DEF s
  <2>6. /\ s \in TabState /\ s.items = items /\ s.repair = y
        /\ s.load = tab[t].load /\ s.ready = tab[t].ready
        /\ s.error = tab[t].error /\ s.transfer = tab[t].transfer
        /\ s.removing = tab[t].removing /\ s.clearing = tab[t].clearing
    BY <2>3, <2>4, <2>5 DEF TabState
  <2>7. ASSUME NEW j \in Keys, Agree(tab[t], j, rows) PROVE Agree(s, j, rows)
    BY <1>3, <2>2, <2>3, <2>6, <2>7 DEF Agree
  <2>8. ASSUME Alone(tab[t], rows) PROVE Alone(s, rows)
    <3>1. ASSUME s.ready, ~s.error, NEW j \in Keys PROVE Match(s, j, rows)
      <4>1. Match(tab[t], j, rows) BY <2>6, <2>8, <3>1 DEF Alone
      <4> QED BY <2>6, <2>7, <4>1 DEF Match
    <3> QED BY <2>6, <2>8, <3>1 DEF Alone
  <2>9. p \in TabState /\ AsShown(p, s) /\ p.transfer = s.transfer /\ p.repair = s.repair
    BY <2>6, BumpedTab
  <2>10. TabFits(p) BY <1>0, <1>1, <2>6, <2>9 DEF TabFits
  <2> HIDE DEF p
  <2>11. Alone(tab[t], rows) => Alone(p, rows) BY <2>8, <2>9, AsShownAlone
  <2>12. Downloads!NoneResurrected'
    BY <1>0 DEF DownloadsInv, Downloads!NoneResurrected, Downloads!Of
  <2> QED BY <1>0, <1>3, <2>9, <2>10, <2>11, <2>12, TabStep DEF p
<1>4. \/ tab' = [tab EXCEPT ![t] = after]
      \/ tab[t].items[k] # None /\ tab' = [tab EXCEPT ![t] = Downloads!Bumped(s)]
  BY DEF Downloads!Repaired, Downloads!Become, y
<1> QED BY <1>2, <1>3, <1>4

LEMMA CancelStep ==
    ASSUME DownloadValues, DownloadsInv, NEW t \in Tabs, Downloads!Cancel(t)
    PROVE  DownloadsInv'
<1> DEFINE x == tab[t].transfer
           y == tab[t].repair
<1>0. /\ tab[t] \in TabState /\ TabFits(tab[t]) /\ saves \in Nat /\ UNCHANGED <<rows, epoch, saves>>
      /\ (x # None => x \in TabTransfer) /\ (y # None => y \in TabRepair)
  BY DEF DownloadsInv, TabState, Downloads!Cancel
<1>1. CASE x # None /\ tab' = [tab EXCEPT ![t].transfer.aborted = TRUE]
  <2> DEFINE z == [x EXCEPT !.aborted = TRUE]
             s == [tab[t] EXCEPT !.transfer = z]
  <2>1. tab' = [tab EXCEPT ![t] = s] BY <1>1
  <2>2. z \in TabTransfer /\ z.at = x.at /\ z.row = x.row /\ z.key = x.key /\ z # None
    BY <1>0, <1>1 DEF TabTransfer, DownloadValues
  <2> HIDE DEF z
  <2>3. /\ s \in TabState /\ s.transfer = z /\ s.load = tab[t].load /\ s.ready = tab[t].ready
        /\ s.error = tab[t].error /\ s.items = tab[t].items /\ s.repair = tab[t].repair
        /\ s.removing = tab[t].removing /\ s.clearing = tab[t].clearing
    BY <1>0, <2>2 DEF TabState
  <2> HIDE DEF s
  <2>4. AsShown(s, tab[t]) BY <1>1, <2>2, <2>3 DEF AsShown, Stage
  <2>5. TabFits(s) BY <1>0, <1>1, <2>2, <2>3 DEF TabFits
  <2> QED BY <1>0, <2>1, <2>3, <2>4, <2>5, QuietTabStep
<1>2. CASE y # None /\ tab' = [tab EXCEPT ![t].repair.aborted = TRUE]
  <2> DEFINE z == [y EXCEPT !.aborted = TRUE]
  <2>1. tab' = [tab EXCEPT ![t] = [tab[t] EXCEPT !.repair = z]] BY <1>2
  <2>2. z \in TabRepair /\ z.at = y.at /\ z.key = y.key BY <1>0, <1>2 DEF TabRepair
  <2> HIDE DEF z
  <2>3. z.at \in {"fetching", "written"} => z.key \in Keys BY <1>0, <1>2, <2>2 DEF TabFits
  <2> QED BY <1>0, <2>1, <2>2, <2>3, RepairStep
<1> QED BY <1>1, <1>2 DEF Downloads!Cancel

LEMMA RemoveSteps ==
    ASSUME DownloadValues, DownloadsInv, NEW t \in Tabs, NEW k \in Keys,
           Downloads!Remove(t, k) \/ Downloads!RemoveRuns(t, k)
    PROVE  DownloadsInv'
<1> DEFINE s(at) == [tab[t] EXCEPT !.removing[k] = at]
<1>0. /\ tab[t] \in TabState /\ TabFits(tab[t]) /\ epoch \in Nat /\ saves \in Nat
      /\ rows \in DownloadRows /\ UNCHANGED <<epoch, saves>>
  BY DEF DownloadsInv, Downloads!Remove, Downloads!RemoveRuns
<1>1. ASSUME NEW at \in {"no", "asked", "done"}
      PROVE  /\ s(at) \in TabState /\ s(at).transfer = tab[t].transfer /\ s(at).load = tab[t].load
             /\ s(at).ready = tab[t].ready /\ s(at).error = tab[t].error
             /\ s(at).items = tab[t].items /\ s(at).repair = tab[t].repair
             /\ s(at).clearing = tab[t].clearing /\ s(at).removing[k] = at
             /\ \A j \in Keys : j # k => s(at).removing[j] = tab[t].removing[j]
             /\ TabFits(s(at))
  <2> DEFINE removing == [tab[t].removing EXCEPT ![k] = at]
  <2>1. tab[t].removing \in [Keys -> {"no", "asked", "done"}] BY <1>0 DEF TabState
  <2>2. /\ removing \in [Keys -> {"no", "asked", "done"}] /\ removing[k] = at
        /\ \A j \in Keys : j # k => removing[j] = tab[t].removing[j]
    BY <2>1
  <2>3. s(at) = [tab[t] EXCEPT !.removing = removing] OBVIOUS
  <2> HIDE DEF s, removing
  <2>4. /\ s(at) \in TabState /\ s(at).transfer = tab[t].transfer /\ s(at).load = tab[t].load
        /\ s(at).ready = tab[t].ready /\ s(at).error = tab[t].error
        /\ s(at).items = tab[t].items /\ s(at).repair = tab[t].repair
        /\ s(at).clearing = tab[t].clearing /\ s(at).removing = removing
    BY <1>0, <2>2, <2>3 DEF TabState
  <2> QED BY <1>0, <2>2, <2>4 DEF TabFits
<1>2. CASE /\ rows' = rows /\ tab[t].removing[k] # "done"
           /\ \E at \in {"no", "asked"} : tab' = [tab EXCEPT ![t] = s(at)]
  <2>1. PICK at \in {"no", "asked"} : tab' = [tab EXCEPT ![t] = s(at)] BY <1>2
  <2> HIDE DEF s
  <2>2. AsShown(s(at), tab[t]) BY <1>1, <1>2, <2>1 DEF AsShown
  <2> QED BY <1>0, <1>1, <1>2, <2>1, <2>2, QuietTabStep
<1>3. CASE /\ Downloads!Settled(t) /\ rows' = [rows EXCEPT ![k] = None]
           /\ tab' = [tab EXCEPT ![t] = s("done")]
  <2> HIDE DEF s
  <2>1. /\ rows' \in DownloadRows /\ rows'[k] = None
        /\ \A j \in Keys : j # k => rows'[j] = rows[j]
    BY <1>0, <1>3 DEF DownloadRows
  <2>2. ASSUME Alone(tab[t], rows) PROVE Alone(s("done"), rows')
    <3> DEFINE p == s("done")
    <3>1. /\ p.transfer = tab[t].transfer /\ p.load = tab[t].load
          /\ p.ready = tab[t].ready /\ p.error = tab[t].error /\ p.items = tab[t].items
          /\ p.clearing = tab[t].clearing /\ p.removing[k] = "done"
          /\ \A j \in Keys : j # k => p.removing[j] = tab[t].removing[j]
      BY <1>1
    <3> HIDE DEF p
    <3>2. /\ ~Stage(p.load, "read") /\ ~Stage(p.transfer, "committed")
          /\ ~Stage(p.clearing, "cleared") /\ \A j \in Keys : tab[t].removing[j] # "done"
      BY <1>3, <3>1, SettledTab
    <3>3. ASSUME p.ready, ~p.error, NEW j \in Keys PROVE Match(p, j, rows')
      <4>1. CASE j = k BY <3>1, <4>1 DEF Match
      <4>2. CASE j # k
        <5>1. Match(tab[t], j, rows) BY <2>2, <3>1, <3>3 DEF Alone
        <5>2. Agree(tab[t], j, rows) BY <3>1, <3>2, <5>1 DEF Match
        <5> QED BY <2>1, <3>1, <4>2, <5>2 DEF Match, Agree
      <4> QED BY <4>1, <4>2
    <3>4. \A j \in Keys : p.removing[j] = "done" => rows'[j] = None BY <2>1, <3>1, <3>2
    <3>5. Alone(p, rows') BY <3>2, <3>3, <3>4 DEF Alone
    <3> QED BY <3>5 DEF p
  <2>3. Downloads!NoneResurrected'
    <3>1. Downloads!Of(rows') \subseteq Downloads!Of(rows) BY <2>1 DEF Downloads!Of
    <3>2. \A j \in Downloads!Of(rows') : rows'[j].epoch = epoch'
      BY <1>0, <2>1, <3>1 DEF DownloadsInv, Downloads!NoneResurrected, Downloads!Of
    <3>3. Cardinality(Downloads!Of(rows')) <= Cardinality(Downloads!Of(rows))
      BY <3>1, StoredFinite, FS_Subset
    <3>4. Cardinality(Downloads!Of(rows)) <= MaxRows
      BY DownloadsCardinality DEF DownloadsInv, Downloads!NoneResurrected
    <3>5. Cardinality(Downloads!Of(rows')) <= MaxRows
      BY <3>3, <3>4, StoredFinite DEF DownloadValues
    <3> QED BY <3>2, <3>5, DownloadsCardinality DEF Downloads!NoneResurrected
  <2> QED BY <1>0, <1>1, <1>3, <2>1, <2>2, <2>3, TabStep
<1>4. CASE Downloads!Remove(t, k)
  <2>1. /\ rows' = rows /\ tab[t].removing[k] = "no" /\ tab' = [tab EXCEPT ![t] = s("asked")]
    BY <1>4 DEF Downloads!Remove
  <2> HIDE DEF s
  <2> QED BY <1>2, <2>1
<1>5. CASE Downloads!RemoveRuns(t, k)
  <2>1. /\ Downloads!Settled(t) /\ tab[t].removing[k] = "asked"
        /\ \/ rows' = [rows EXCEPT ![k] = None] /\ tab' = [tab EXCEPT ![t] = s("done")]
           \/ rows' = rows /\ tab' = [tab EXCEPT ![t] = s("no")]
    BY <1>5 DEF Downloads!RemoveRuns
  <2> HIDE DEF s
  <2> QED BY <1>2, <1>3, <2>1
<1> QED BY <1>4, <1>5

LEMMA RemovedStep ==
    ASSUME DownloadValues, DownloadsInv, NEW t \in Tabs, NEW k \in Keys, Downloads!Removed(t, k)
    PROVE  DownloadsInv'
<1> DEFINE removing == [tab[t].removing EXCEPT ![k] = "no"]
           items == [tab[t].items EXCEPT ![k] = None]
           s == [tab[t] EXCEPT !.removing[k] = "no", !.items[k] = None]
           p == Downloads!Bumped(s)
<1>0. /\ tab[t] \in TabState /\ TabFits(tab[t]) /\ epoch \in Nat /\ saves \in Nat
      /\ rows \in DownloadRows /\ UNCHANGED <<rows, epoch, saves>>
      /\ tab[t].removing[k] = "done" /\ tab' = [tab EXCEPT ![t] = p]
  BY DEF DownloadsInv, Downloads!Removed, Downloads!Become
<1>1. /\ tab[t].removing \in [Keys -> {"no", "asked", "done"}] /\ tab[t].items \in DownloadRows
  BY <1>0 DEF TabState
<1>2. /\ removing \in [Keys -> {"no", "asked", "done"}] /\ removing[k] = "no"
      /\ \A j \in Keys : j # k => removing[j] = tab[t].removing[j]
  BY <1>1
<1>3. /\ items \in DownloadRows /\ items[k] = None
      /\ \A j \in Keys : j # k => items[j] = tab[t].items[j]
  BY <1>1 DEF DownloadRows
<1>4. s = [tab[t] EXCEPT !.removing = removing, !.items = items]
  BY <1>0 DEF TabState
<1> HIDE DEF s, removing, items
<1>5. /\ s \in TabState /\ s.transfer = tab[t].transfer /\ s.load = tab[t].load
      /\ s.ready = tab[t].ready /\ s.error = tab[t].error /\ s.items = items
      /\ s.repair = tab[t].repair /\ s.removing = removing /\ s.clearing = tab[t].clearing
  BY <1>0, <1>2, <1>3, <1>4 DEF TabState
<1>6. p \in TabState /\ AsShown(p, s) /\ p.transfer = s.transfer /\ p.repair = s.repair
  BY <1>5, BumpedTab
<1> HIDE DEF p
<1>7. TabFits(p) BY <1>0, <1>5, <1>6 DEF TabFits
<1>8. ASSUME Alone(tab[t], rows) PROVE Alone(s, rows)
  <2>1. rows[k] = None BY <1>0, <1>8 DEF Alone
  <2>2. ASSUME s.ready, ~s.error, NEW j \in Keys PROVE Match(s, j, rows)
    <3>1. CASE j = k BY <1>3, <1>5, <2>1, <3>1 DEF Match, Agree
    <3>2. CASE j # k
      <4>1. Match(tab[t], j, rows) BY <1>5, <1>8, <2>2 DEF Alone
      <4> QED BY <1>2, <1>3, <1>5, <3>2, <4>1 DEF Match, Agree
    <3> QED BY <3>1, <3>2
  <2> QED BY <1>2, <1>5, <1>8, <2>1, <2>2 DEF Alone
<1>9. Alone(tab[t], rows) => Alone(p, rows) BY <1>6, <1>8, AsShownAlone
<1>10. Downloads!NoneResurrected'
  BY <1>0 DEF DownloadsInv, Downloads!NoneResurrected, Downloads!Of
<1> QED BY <1>0, <1>6, <1>7, <1>9, <1>10, TabStep

LEMMA AbortedTab ==
    ASSUME DownloadValues, NEW s \in TabState, TabFits(s)
    PROVE  LET p == Downloads!AbortedIn(s)
           IN  p \in TabState /\ TabFits(p) /\ AsShown(p, s)
<1> DEFINE x == IF s.transfer = None THEN s.transfer ELSE [s.transfer EXCEPT !.aborted = TRUE]
           y == IF s.repair = None THEN s.repair ELSE [s.repair EXCEPT !.aborted = TRUE]
           p == Downloads!AbortedIn(s)
<1>1. s.transfer \in TabTransfer \cup {None} /\ s.repair \in TabRepair \cup {None} BY DEF TabState
<1>2. /\ x \in TabTransfer \cup {None} /\ (x = None <=> s.transfer = None)
      /\ x # None => x.at = s.transfer.at /\ x.row = s.transfer.row /\ x.key = s.transfer.key
  BY <1>1 DEF TabTransfer, DownloadValues
<1>3. /\ y \in TabRepair \cup {None} /\ (y = None <=> s.repair = None)
      /\ y # None => y.at = s.repair.at /\ y.key = s.repair.key
  BY <1>1 DEF TabRepair, DownloadValues
<1>4. p = [s EXCEPT !.transfer = x, !.repair = y] BY DEF Downloads!AbortedIn, TabState
<1> HIDE DEF p, x, y
<1>5. /\ p \in TabState /\ p.transfer = x /\ p.load = s.load
      /\ p.ready = s.ready /\ p.error = s.error /\ p.items = s.items
      /\ p.repair = y /\ p.removing = s.removing /\ p.clearing = s.clearing
  BY <1>2, <1>3, <1>4 DEF TabState
<1>6. TabFits(p) BY <1>2, <1>3, <1>5 DEF TabFits
<1>7. AsShown(p, s) BY <1>2, <1>5 DEF AsShown, Stage
<1> QED BY <1>5, <1>6, <1>7 DEF p

LEMMA ClearStep ==
    ASSUME DownloadValues, DownloadsInv, NEW t \in Tabs, Downloads!Clear(t)
    PROVE  DownloadsInv'
<1> DEFINE z == [at |-> "draining", waits |-> tab[t].load # None]
           s == [tab[t] EXCEPT !.clearing = z]
           b == Downloads!Bumped(s)
           p == Downloads!AbortedIn(b)
<1>0. /\ tab[t] \in TabState /\ TabFits(tab[t]) /\ saves \in Nat
      /\ UNCHANGED <<rows, epoch, saves>> /\ tab[t].clearing = None
      /\ tab' = [tab EXCEPT ![t] = p]
  BY DEF DownloadsInv, Downloads!Clear, Downloads!Become
<1>1. z \in TabClearing /\ z.at = "draining" BY DEF TabClearing
<1> HIDE DEF z
<1>2. /\ s \in TabState /\ s.transfer = tab[t].transfer /\ s.load = tab[t].load
      /\ s.ready = tab[t].ready /\ s.error = tab[t].error /\ s.items = tab[t].items
      /\ s.repair = tab[t].repair /\ s.removing = tab[t].removing /\ s.clearing = z
  BY <1>0, <1>1 DEF TabState
<1> HIDE DEF s
<1>3. b \in TabState /\ AsShown(b, s) /\ b.transfer = s.transfer /\ b.repair = s.repair
  BY <1>2, BumpedTab
<1> HIDE DEF b
<1>4. TabFits(b) BY <1>0, <1>2, <1>3 DEF TabFits
<1>5. p \in TabState /\ TabFits(p) /\ AsShown(p, b) BY <1>3, <1>4, AbortedTab
<1> HIDE DEF p
<1>6. AsShown(s, tab[t]) BY <1>0, <1>1, <1>2 DEF AsShown, Stage
<1>7. AsShown(p, tab[t]) BY <1>3, <1>5, <1>6 DEF AsShown
<1> QED BY <1>0, <1>5, <1>7, QuietTabStep

LEMMA ClearRunsStep ==
    ASSUME DownloadValues, DownloadsInv, NEW t \in Tabs, Downloads!ClearRuns(t)
    PROVE  DownloadsInv'
<1> DEFINE z == [tab[t].clearing EXCEPT !.at = "cleared"]
           s == [tab[t] EXCEPT !.clearing = z]
<1>0. /\ tab[t] \in TabState /\ TabFits(tab[t]) /\ saves' \in Nat /\ epoch \in Nat
      /\ epoch' = epoch + 1 /\ rows' = Downloads!NoRows /\ Downloads!Settled(t)
      /\ tab[t].clearing \in TabClearing /\ tab' = [tab EXCEPT ![t] = s]
  BY DEF DownloadsInv, Downloads!ClearRuns, Downloads!Drained, Downloads!Clearing, TabState
<1>1. z \in TabClearing /\ z.at = "cleared" /\ z # None BY <1>0 DEF TabClearing, DownloadValues
<1> HIDE DEF z
<1>2. /\ s \in TabState /\ s.transfer = tab[t].transfer /\ s.load = tab[t].load
      /\ s.ready = tab[t].ready /\ s.error = tab[t].error /\ s.items = tab[t].items
      /\ s.repair = tab[t].repair /\ s.removing = tab[t].removing /\ s.clearing = z
  BY <1>0, <1>1 DEF TabState
<1> HIDE DEF s
<1>3. TabFits(s) BY <1>0, <1>2 DEF TabFits
<1>4. /\ ~Stage(s.load, "read") /\ ~Stage(s.transfer, "committed") /\ Stage(s.clearing, "cleared")
      /\ \A k \in Keys : s.removing[k] # "done"
  BY <1>0, <1>1, <1>2, SettledTab DEF Stage
<1>5. Alone(s, rows') BY <1>0, <1>4 DEF Alone, Match
<1>6. rows' \in DownloadRows /\ epoch' \in Nat BY <1>0 DEF Downloads!NoRows, DownloadRows
<1>7. Downloads!NoneResurrected'
  <2>1. Downloads!Of(rows') = {} BY <1>0 DEF Downloads!Of, Downloads!NoRows
  <2>2. Cardinality(Downloads!Of(rows')) = 0 BY <2>1, FS_EmptySet
  <2> QED BY <2>1, <2>2, DownloadsCardinality DEF Downloads!NoneResurrected, DownloadValues
<1> QED BY <1>0, <1>2, <1>3, <1>5, <1>6, <1>7, TabStep

LEMMA ClearedStep ==
    ASSUME DownloadValues, DownloadsInv, NEW t \in Tabs, Downloads!Cleared(t)
    PROVE  DownloadsInv'
<1> DEFINE s == [tab[t] EXCEPT !.ready = TRUE, !.error = FALSE, !.items = Downloads!NoRows,
                               !.clearing = None]
           p == Downloads!Bumped(s)
<1>0. /\ tab[t] \in TabState /\ TabFits(tab[t]) /\ epoch \in Nat /\ saves \in Nat
      /\ rows \in DownloadRows /\ UNCHANGED <<rows, epoch, saves>>
      /\ Stage(tab[t].clearing, "cleared") /\ tab' = [tab EXCEPT ![t] = p]
  BY DEF DownloadsInv, Downloads!Cleared, Downloads!Become, Downloads!Clearing, Stage
<1>1. /\ s \in TabState /\ s.transfer = tab[t].transfer /\ s.load = tab[t].load
      /\ s.items = Downloads!NoRows
      /\ s.repair = tab[t].repair /\ s.removing = tab[t].removing /\ s.clearing = None
  <2> DEFINE q == [tab[t] EXCEPT !.ready = TRUE, !.error = FALSE]
  <2>1. Downloads!NoRows \in DownloadRows BY DEF Downloads!NoRows, DownloadRows
  <2>2. /\ q \in TabState /\ q.transfer = tab[t].transfer /\ q.load = tab[t].load
        /\ q.repair = tab[t].repair /\ q.removing = tab[t].removing
    BY <1>0 DEF TabState
  <2>3. s = [q EXCEPT !.items = Downloads!NoRows, !.clearing = None] BY Zenon
  <2> HIDE DEF s, q
  <2> QED BY <2>1, <2>2, <2>3 DEF TabState
<1> HIDE DEF s
<1>2. p \in TabState /\ AsShown(p, s) /\ p.transfer = s.transfer /\ p.repair = s.repair
  BY <1>1, BumpedTab
<1> HIDE DEF p
<1>3. TabFits(p) BY <1>0, <1>1, <1>2 DEF TabFits
<1>4. ASSUME Alone(tab[t], rows) PROVE Alone(s, rows)
  <2>1. rows = Downloads!NoRows BY <1>0, <1>4 DEF Alone
  <2>2. \A k \in Keys : Agree(s, k, rows) BY <1>1, <2>1 DEF Agree, Downloads!NoRows
  <2> QED BY <1>1, <1>4, <2>2 DEF Alone, Match, Stage
<1>5. Alone(tab[t], rows) => Alone(p, rows) BY <1>2, <1>4, AsShownAlone
<1>6. Downloads!NoneResurrected'
  BY <1>0 DEF DownloadsInv, Downloads!NoneResurrected, Downloads!Of
<1> QED BY <1>0, <1>2, <1>3, <1>5, <1>6, TabStep

LEMMA ClearFailsStep ==
    ASSUME DownloadValues, DownloadsInv, NEW t \in Tabs, Downloads!ClearFails(t)
    PROVE  DownloadsInv'
<1> DEFINE z == [tab[t].clearing EXCEPT !.at = "failed"]
           s == [tab[t] EXCEPT !.clearing = z]
           b == Downloads!Bumped(s)
           p == Downloads!Loading(b)
<1>0. /\ tab[t] \in TabState /\ TabFits(tab[t]) /\ saves \in Nat
      /\ UNCHANGED <<rows, epoch, saves>> /\ tab' = [tab EXCEPT ![t] = p]
      /\ tab[t].clearing \in TabClearing /\ tab[t].clearing.at = "draining"
  BY DEF DownloadsInv, Downloads!ClearFails, Downloads!Drained, Downloads!Clearing,
         Downloads!Become, TabState
<1>1. z \in TabClearing /\ z.at = "failed" BY <1>0 DEF TabClearing
<1> HIDE DEF z
<1>2. /\ s \in TabState /\ s.transfer = tab[t].transfer /\ s.load = tab[t].load
      /\ s.ready = tab[t].ready /\ s.error = tab[t].error /\ s.items = tab[t].items
      /\ s.repair = tab[t].repair /\ s.removing = tab[t].removing /\ s.clearing = z
  BY <1>0, <1>1 DEF TabState
<1> HIDE DEF s
<1>3. b \in TabState /\ AsShown(b, s) /\ b.transfer = s.transfer /\ b.repair = s.repair
  BY <1>2, BumpedTab
<1> HIDE DEF b
<1>4. p \in TabState /\ AsShown(p, b) /\ p.transfer = b.transfer /\ p.repair = b.repair
  BY <1>3, LoadingTab
<1> HIDE DEF p
<1>5. AsShown(s, tab[t]) BY <1>0, <1>1, <1>2 DEF AsShown, Stage
<1>6. AsShown(p, tab[t]) BY <1>3, <1>4, <1>5 DEF AsShown
<1>7. TabFits(p) BY <1>0, <1>2, <1>3, <1>4 DEF TabFits
<1> QED BY <1>0, <1>4, <1>6, <1>7, QuietTabStep

LEMMA DownloadsNext ==
    ASSUME DownloadValues, DownloadsInv, [Downloads!Next]_(Downloads!vars)
    PROVE  DownloadsInv'
<1>1. CASE Downloads!Next
  BY <1>1, LoadStep, LoadEndsStep, StartTransferStep, TransferGoes, CommitStep, CommittedStep, CancelStep,
     RepairGoes, RepairWritesStep, RepairedStep, RemoveSteps, RemovedStep, ClearStep,
     ClearRunsStep, ClearedStep, ClearFailsStep
  DEF Downloads!Next
<1>2. CASE UNCHANGED Downloads!vars
  <2>1. UNCHANGED <<rows, epoch, saves, tab>> BY <1>2 DEF Downloads!vars
  <2>2. Downloads!NoneResurrected'
    BY <2>1 DEF DownloadsInv, Downloads!NoneResurrected, Downloads!Of
  <2> QED BY <2>1, <2>2 DEF DownloadsInv
<1> QED BY <1>1, <1>2

LEMMA DownloadsInit == ASSUME DownloadValues, Downloads!Init PROVE DownloadsInv
<1> DEFINE s == [ready |-> FALSE, error |-> FALSE, items |-> Downloads!NoRows,
                 load |-> None, transfer |-> None, repair |-> None,
                 removing |-> [k \in Keys |-> "no"], clearing |-> None]
<1>1. Downloads!NoRows \in DownloadRows BY DEF Downloads!NoRows, DownloadRows
<1>2. s \in TabState /\ TabFits(s) /\ \A r : Alone(s, r)
  BY <1>1 DEF TabState, TabFits, Alone, Stage
<1>3. tab = [t \in Tabs |-> s] BY DEF Downloads!Init
<1> HIDE DEF s
<1>4. /\ tab \in [Tabs -> TabState] /\ \A t \in Tabs : TabFits(tab[t]) /\ Alone(tab[t], rows)
  BY <1>2, <1>3
<1>5. Downloads!Row(0, 0) \in DownloadRow /\ Downloads!Row(0, 0).epoch = 0
  BY DEF Downloads!Row, DownloadRow
<1>6. rows \in DownloadRows BY <1>5 DEF Downloads!Init, DownloadRows
<1>7. Downloads!NoneResurrected
  BY <1>5 DEF Downloads!Init, Downloads!NoneResurrected, Downloads!Of
<1> QED BY <1>4, <1>6, <1>7 DEF Downloads!Init, DownloadsInv

LEMMA DownloadsRight == DownloadValues => (Downloads!Spec => []DownloadsInv)
<1> SUFFICES ASSUME DownloadValues PROVE Downloads!Spec => []DownloadsInv OBVIOUS
<1>1. Downloads!Init => DownloadsInv BY DownloadsInit
<1>2. DownloadsInv /\ [Downloads!Next]_(Downloads!vars) => DownloadsInv' BY DownloadsNext
<1> QED BY <1>1, <1>2, PTL DEF Downloads!Spec

\* In whatever tabs, no download that has begun before the last clearing is stored
\* after it, and the tabs together keep to the capacity (downloadStorage.save, which
\* compares the epoch in the transaction that writes the row).
THEOREM ClearedStaysClear == DownloadValues => (Downloads!Spec => []Downloads!NoneResurrected)
<1> SUFFICES ASSUME DownloadValues PROVE Downloads!Spec => []Downloads!NoneResurrected OBVIOUS
<1>1. DownloadsInv => Downloads!NoneResurrected BY DEF DownloadsInv
<1> QED BY <1>1, DownloadsRight, PTL

\* A tab alone, once it has loaded and nothing is under way, shows what is stored,
\* however loads, downloads, repairs, removals and clearings have overtaken one another.
THEOREM ShownIsStored == DownloadValues => (Downloads!Spec => []Downloads!ShownStored)
<1> SUFFICES ASSUME DownloadValues PROVE Downloads!Spec => []Downloads!ShownStored OBVIOUS
<1>1. ASSUME DownloadsInv, Cardinality(Tabs) = 1, NEW t \in Tabs, Downloads!Quiet(tab[t]),
             NEW k \in Keys
      PROVE  Agree(tab[t], k, rows)
  BY <1>1 DEF DownloadsInv, Alone, Match, Stage, Downloads!Quiet
<1>2. DownloadsInv => Downloads!ShownStored
  BY <1>1, DownloadsCardinality DEF Downloads!ShownStored, Agree
<1> QED BY <1>2, DownloadsRight, PTL

-----------------------------------------------------------------------------
(* The cache of GET answers in front of the API *)

ApiKey == Nat \X Urls
Body == [version : Nat, made : Nat, session : Nat]
Entry == [key : ApiKey, body : Body, age : {"fresh", "stale", "expired"}]
GetRequest == [key : ApiKey, shared : BOOLEAN, listed : BOOLEAN, waiting : SUBSET Calls,
               made : Nat, session : Nat, body : Body \cup {None}]
Caller == [at : {"idle", "waiting", "served", "changing", "changed"},
           key : ApiKey \cup {None}, since : Nat, session : Nat, body : Body \cup {None}]

\* None is no body; the cache has bounds.
ApiValues == None \notin Body /\ MaxEntries \in Nat /\ MaxBytes \in Nat

ApiTypes ==
    /\ backend \in Nat /\ token \in Nat /\ generation \in Nat /\ seen \in Nat
    /\ cache \in Seq(Entry) /\ requests \in SUBSET GetRequest
    /\ calls \in [Calls -> Caller]

UpToDate(body) == body.made = token /\ body.version >= seen

\* What was asked for in one session is for another only if its key was lent to it.
OfSession(key, made, for) == for = made \/ key \in lent

\* What is cached or asked for under the current generation was asked for in the
\* current session, and is as new as the last change.
EntryFits(e) ==
    /\ e.key[1] <= generation
    /\ e.key[1] = generation => UpToDate(e.body)
    /\ OfSession(e.key, e.body.made, e.body.session)
CacheFits == \A i \in DOMAIN cache : EntryFits(cache[i])
RequestRight(r) ==
    /\ r.key[1] <= generation
    /\ r.key[1] = generation => r.made = token /\ (r.body # None => UpToDate(r.body))
    /\ r.body # None => r.body.made = r.made /\ r.body.session = r.session
    /\ OfSession(r.key, r.made, r.session)
    /\ \A c \in r.waiting :
        /\ calls[c].at = "waiting" /\ calls[c].session = r.made /\ calls[c].key = r.key
        /\ r.body # None => r.body.version >= calls[c].since
CallerFits(c, version) ==
    /\ c.since <= version
    /\ c.at = "served" =>
        /\ c.body.made = c.session /\ c.body.version >= c.since
        /\ OfSession(c.key, c.session, c.body.session)

\* Each caller waits for one request.
WaitsApart == \A r, q \in requests : r.waiting \cap q.waiting # {} => r = q

ServedInv ==
    /\ ApiTypes /\ seen <= backend
    /\ CacheFits
    /\ \A r \in requests : RequestRight(r)
    /\ \A c \in Calls : CallerFits(calls[c], backend)
    /\ WaitsApart

LEMMA ConcatRight ==
    ASSUME NEW T, NEW a \in Seq(T), NEW b \in Seq(T), NEW j \in 1 .. Len(a) + Len(b), j > Len(a)
    PROVE  (a \o b)[j] = b[j - Len(a)]
OBVIOUS

LEMMA TouchedCache ==
    ASSUME cache \in Seq(Entry), NEW i \in DOMAIN cache, Api!Touch(i)
    PROVE  /\ cache' \in Seq(Entry) /\ Len(cache') = Len(cache)
           /\ \A j \in 1 .. Len(cache) :
                cache'[j] = cache[IF j < i THEN j ELSE IF j < Len(cache) THEN j + 1 ELSE i]
<1>1. Len(cache) \in Nat /\ i \in 1 .. Len(cache) /\ cache[i] \in Entry OBVIOUS
<1> DEFINE a == SubSeq(cache, 1, i - 1)
           b == SubSeq(cache, i + 1, Len(cache))
<1>2. cache' = Append(a \o b, cache[i]) BY DEF Api!Touch, Api!RemoveAt
<1>3. a \in Seq(Entry) /\ Len(a) = i - 1 /\ \A j \in 1 .. i - 1 : a[j] = cache[j]
  BY <1>1
<1>4. /\ b \in Seq(Entry) /\ Len(b) = Len(cache) - i
      /\ \A j \in 1 .. Len(cache) - i : b[j] = cache[i + j]
  BY <1>1
<1> HIDE DEF a, b
<1>5. a \o b \in Seq(Entry) /\ Len(a \o b) = Len(cache) - 1 BY <1>1, <1>3, <1>4
<1>6. cache' \in Seq(Entry) /\ Len(cache') = Len(cache) BY <1>1, <1>2, <1>5
<1>7. ASSUME NEW j \in 1 .. Len(cache)
      PROVE  cache'[j] = cache[IF j < i THEN j ELSE IF j < Len(cache) THEN j + 1 ELSE i]
  <2>1. CASE j < i
    <3>1. j \in 1 .. i - 1 /\ j \in 1 .. Len(a \o b) BY <1>1, <1>5, <2>1
    <3>2. (a \o b)[j] = a[j] BY <1>3, <1>4, <3>1
    <3> QED BY <1>2, <1>3, <1>5, <2>1, <3>1, <3>2
  <2>2. CASE j >= i /\ j < Len(cache)
    <3>0. PICK n \in Nat : n = Len(cache) BY <1>1
    <3>5. i \in 1 .. n /\ j \in 1 .. n /\ j >= i /\ j < n BY <1>1, <2>2, <3>0
    <3>6. /\ j - (i - 1) \in 1 .. n - i /\ j \in 1 .. n - 1
          /\ i + (j - (i - 1)) = j + 1 /\ j > i - 1
      BY <3>5
    <3>1. /\ j - (i - 1) \in 1 .. Len(cache) - i /\ j \in 1 .. Len(a \o b)
          /\ i + (j - (i - 1)) = j + 1 /\ j > i - 1
      BY <1>5, <3>0, <3>6
    <3>2. (a \o b)[j] = b[j - (i - 1)]
      <4>1. /\ Len(a) \in Nat /\ Len(b) \in Nat /\ Len(a) = i - 1 /\ Len(b) = n - i
            /\ j \in Nat /\ i \in Nat
        BY <1>3, <1>4, <3>0, <3>5
      <4>2. j \in 1 .. Len(a) + Len(b) /\ j > Len(a) BY <3>0, <3>5, <4>1
      <4>3. (a \o b)[j] = b[j - Len(a)] BY <1>3, <1>4, <4>2, ConcatRight
      <4> QED BY <4>1, <4>3
    <3>3. cache'[j] = (a \o b)[j] BY <1>2, <1>5, <3>1
    <3>4. ~(j < i) BY <1>1, <2>2
    <3> QED BY <1>4, <2>2, <3>1, <3>2, <3>3, <3>4
  <2>3. CASE j >= i /\ j = Len(cache)
    <3>1. cache'[j] = cache[i] BY <1>1, <1>2, <1>5, <2>3
    <3>2. ~(j < i) /\ ~(j < Len(cache)) BY <1>1, <2>3
    <3> QED BY <3>1, <3>2
  <2> QED BY <1>1, <2>1, <2>2, <2>3
<1> QED BY <1>6, <1>7

LEMMA PutCache ==
    ASSUME cache \in Seq(Entry), NEW e \in Entry
    PROVE  LET s == Api!Put(e)
           IN  /\ s \in Seq(Entry)
               /\ \/ s = Append(cache, e) /\ \A j \in 1 .. Len(cache) : cache[j].key # e.key
                  \/ /\ Len(s) = Len(cache) /\ \E j \in 1 .. Len(cache) : cache[j].key = e.key
                     /\ \A j \in 1 .. Len(cache) :
                          s[j] = IF cache[j].key = e.key THEN e ELSE cache[j]
<1> DEFINE s == Api!Put(e)
<1>0. Len(cache) \in Nat /\ DOMAIN cache = 1 .. Len(cache) OBVIOUS
<1>1. CASE Api!At(e.key) = {}
  <2>1. s = Append(cache, e) BY <1>1 DEF Api!Put
  <2>2. \A j \in 1 .. Len(cache) : cache[j].key # e.key BY <1>0, <1>1 DEF Api!At
  <2> HIDE DEF s
  <2> QED BY <2>1, <2>2 DEF s
<1>2. CASE Api!At(e.key) # {}
  <2> DEFINE f == [j \in 1 .. Len(cache) |-> IF cache[j].key = e.key THEN e ELSE cache[j]]
  <2>1. s = f BY <1>0, <1>2 DEF Api!Put, Api!At
  <2>2. \A j \in 1 .. Len(cache) : cache[j] \in Entry BY <1>0
  <2>3. f \in [1 .. Len(cache) -> Entry] BY <2>2
  <2>4. \A j \in 1 .. Len(cache) : f[j] = IF cache[j].key = e.key THEN e ELSE cache[j] OBVIOUS
  <2> HIDE DEF f
  <2>5. f \in Seq(Entry) /\ Len(f) = Len(cache) BY <1>0, <2>3
  <2>6. \E j \in 1 .. Len(cache) : cache[j].key = e.key BY <1>0, <1>2 DEF Api!At
  <2> HIDE DEF s
  <2> QED BY <2>1, <2>4, <2>5, <2>6 DEF s
<1> QED BY <1>1, <1>2

LEMMA TrimmedCache ==
    ASSUME NEW s \in Seq(Entry), NEW size, Api!Trim(s, size)
    PROVE  \E n \in 0 .. Len(s) :
             /\ cache' \in Seq(Entry) /\ Len(cache') = Len(s) - n
             /\ \A j \in 1 .. Len(s) - n : cache'[j] = s[n + j]
             /\ bytes' = size - Api!SizeOf(s, 1 .. n)
             /\ n = Len(s) \/ (Len(s) - n <= MaxEntries /\ bytes' <= MaxBytes)
<1>1. PICK n \in 0 .. Len(s) :
        /\ n = Len(s) \/ (Len(s) - n <= MaxEntries /\ size - Api!SizeOf(s, 1 .. n) <= MaxBytes)
        /\ cache' = SubSeq(s, n + 1, Len(s)) /\ bytes' = size - Api!SizeOf(s, 1 .. n)
  BY DEF Api!Trim
<1>2. /\ cache' \in Seq(Entry) /\ Len(cache') = Len(s) - n
      /\ \A j \in 1 .. Len(s) - n : cache'[j] = s[n + j]
  BY <1>1
<1> QED BY <1>1, <1>2

\* What is stored is what was, and the entry e: it fits if they do.
LEMMA StoredFits ==
    ASSUME ServedInv, NEW e \in Entry, EntryFits(e), NEW size, Api!Trim(Api!Put(e), size)
    PROVE  cache' \in Seq(Entry) /\ \A i \in DOMAIN cache' : EntryFits(cache'[i])
<1> DEFINE s == Api!Put(e)
<1>0. cache \in Seq(Entry) /\ Len(cache) \in Nat BY DEF ServedInv, ApiTypes
<1>1. /\ s \in Seq(Entry)
      /\ \/ s = Append(cache, e)
         \/ /\ Len(s) = Len(cache)
            /\ \A j \in 1 .. Len(cache) : s[j] = IF cache[j].key = e.key THEN e ELSE cache[j]
  BY <1>0, PutCache
<1> HIDE DEF s
<1>2. ASSUME NEW j \in 1 .. Len(s) PROVE EntryFits(s[j])
  <2>1. CASE s = Append(cache, e)
    <3>1. s[j] = e \/ (j \in 1 .. Len(cache) /\ s[j] = cache[j]) BY <1>0, <2>1
    <3> QED BY <1>0, <3>1 DEF ServedInv, CacheFits
  <2>2. CASE j \in 1 .. Len(cache) /\ (s[j] = e \/ s[j] = cache[j])
    BY <1>0, <2>2 DEF ServedInv, CacheFits
  <2> QED BY <1>1, <2>1, <2>2
<1>3. PICK n \in 0 .. Len(s) :
        /\ cache' \in Seq(Entry) /\ Len(cache') = Len(s) - n
        /\ \A j \in 1 .. Len(s) - n : cache'[j] = s[n + j]
  BY <1>1, TrimmedCache DEF s
<1>4. ASSUME NEW j \in DOMAIN cache' PROVE EntryFits(cache'[j])
  <2>1. Len(s) \in Nat /\ j \in 1 .. Len(s) - n BY <1>1, <1>3
  <2>2. n + j \in 1 .. Len(s) BY <2>1
  <2> QED BY <1>2, <1>3, <2>1, <2>2
<1> QED BY <1>3, <1>4

LEMMA TouchedFits ==
    ASSUME ServedInv, NEW i \in DOMAIN cache, Api!Touch(i)
    PROVE  cache' \in Seq(Entry) /\ \A j \in DOMAIN cache' : EntryFits(cache'[j])
<1>0. cache \in Seq(Entry) /\ Len(cache) \in Nat /\ i \in 1 .. Len(cache)
  BY DEF ServedInv, ApiTypes
<1>1. /\ cache' \in Seq(Entry) /\ Len(cache') = Len(cache)
      /\ \A j \in 1 .. Len(cache) :
            cache'[j] = cache[IF j < i THEN j ELSE IF j < Len(cache) THEN j + 1 ELSE i]
  BY <1>0, TouchedCache
<1>2. ASSUME NEW j \in DOMAIN cache' PROVE EntryFits(cache'[j])
  <2>1. j \in 1 .. Len(cache) BY <1>0, <1>1
  <2>2. (IF j < i THEN j ELSE IF j < Len(cache) THEN j + 1 ELSE i) \in DOMAIN cache BY <1>0, <2>1
  <2> QED BY <1>1, <2>1, <2>2 DEF ServedInv, CacheFits
<1> QED BY <1>1, <1>2

\* A step that leaves the session and the generation, and what was processed, where
\* they are: what has to be shown of it.
LEMMA ServedKept ==
    ASSUME ServedInv, UNCHANGED <<token, generation, seen>>, lent \subseteq lent',
           backend' \in Nat, backend <= backend', cache' \in Seq(Entry), \A i \in DOMAIN cache' : EntryFits(cache'[i]),
           requests' \in SUBSET GetRequest, calls' \in [Calls -> Caller],
           \A r \in requests' : RequestRight(r)', WaitsApart',
           \A c \in Calls : CallerFits(calls'[c], backend')
    PROVE  ServedInv'
<1>1. seen <= backend' BY DEF ServedInv, ApiTypes
<1>2. CacheFits' BY DEF CacheFits, EntryFits, UpToDate, OfSession
<1>3. \A c \in Calls : CallerFits(calls[c], backend)' BY DEF CallerFits, OfSession
<1> QED BY <1>1, <1>2, <1>3 DEF ServedInv, ApiTypes

\* A request no caller of which has done anything is as right as it was.
LEMMA RequestKept ==
    ASSUME NEW r, RequestRight(r), UNCHANGED <<token, generation, seen>>,
           lent \subseteq lent', \A c \in r.waiting : calls'[c] = calls[c]
    PROVE  RequestRight(r)'
BY DEF RequestRight, UpToDate, OfSession

\* No request waits for a caller that is free.
LEMMA FreeWaitsNot ==
    ASSUME ServedInv, NEW c \in Calls, calls[c].at # "waiting"
    PROVE  \A r \in requests : c \notin r.waiting
BY DEF ServedInv, RequestRight

LEMMA WaitingCaller ==
    ASSUME ServedInv, NEW u \in Urls
    PROVE  LET w == Api!Waiting(Api!Key(u))
           IN  /\ w \in Caller /\ w.at = "waiting" /\ w.since = seen /\ w.session = token
               /\ w.key = Api!Key(u)
<1>1. PICK k : k = Api!Key(u) OBVIOUS
<1>2. generation \in Nat /\ seen \in Nat /\ token \in Nat BY DEF ServedInv, ApiTypes
<1>3. k \in ApiKey BY <1>1, <1>2 DEF Api!Key, ApiKey
<1>4. /\ Api!Waiting(k) \in Caller /\ Api!Waiting(k).at = "waiting"
      /\ Api!Waiting(k).since = seen /\ Api!Waiting(k).session = token
      /\ Api!Waiting(k).key = k
  <2>1. {k, None} \subseteq ApiKey \cup {None} BY <1>3
  <2> QED BY <1>2, <2>1 DEF Api!Waiting, Api!Idle, Caller
<1> QED BY <1>1, <1>4

LEMMA ServedCaller ==
    ASSUME ServedInv, NEW c \in Calls, NEW u \in Urls, NEW i \in Api!At(Api!Key(u))
    PROVE  LET d == Api!Served(Api!Waiting(Api!Key(u)), cache[i].body)
           IN  d \in Caller /\ d.at = "served" /\ CallerFits(d, backend)
<1> DEFINE w == Api!Waiting(Api!Key(u))
           body == cache[i].body
           d == [w EXCEPT !.at = "served", !.body = body]
<1>0. /\ seen \in Nat /\ token \in Nat /\ backend \in Nat /\ seen <= backend
      /\ cache \in Seq(Entry) /\ i \in DOMAIN cache /\ cache[i].key = <<generation, u>>
      /\ EntryFits(cache[i]) /\ generation \in Nat /\ Api!Key(u) = <<generation, u>>
  BY DEF ServedInv, ApiTypes, CacheFits, Api!At, Api!Key
<1>1. w \in Caller /\ w.since = seen /\ w.session = token /\ w.key = <<generation, u>>
  BY <1>0, WaitingCaller
<1>2. body \in Body
  <2>1. cache[i] \in Entry BY <1>0
  <2> QED BY <2>1 DEF Entry
<1>3. UpToDate(body) /\ OfSession(<<generation, u>>, body.made, body.session)
  BY <1>0 DEF EntryFits
<1> HIDE DEF w, body
<1>4. /\ d \in Caller /\ d.at = "served" /\ d.since = seen /\ d.session = token
      /\ d.body = body /\ d.key = <<generation, u>>
  BY <1>1, <1>2 DEF Caller
<1>5. CallerFits(d, backend) BY <1>0, <1>3, <1>4 DEF CallerFits, UpToDate, OfSession
<1> QED BY <1>4, <1>5 DEF Api!Served, w, body

\* One caller that is free does something that does not make it wait.
LEMMA CallerStep ==
    ASSUME ServedInv, NEW c \in Calls, calls[c].at # "waiting", NEW d \in Caller, CallerFits(d, backend'),
           calls' = [calls EXCEPT ![c] = d], UNCHANGED <<token, generation, seen, lent>>,
           backend' \in Nat, backend <= backend',
           cache' \in Seq(Entry), \A i \in DOMAIN cache' : EntryFits(cache'[i]),
           requests' = requests
    PROVE  ServedInv'
<1>1. /\ calls' \in [Calls -> Caller] /\ calls'[c] = d
      /\ \A b \in Calls : b # c => calls'[b] = calls[b]
  BY DEF ServedInv, ApiTypes
<1>2. ASSUME NEW b \in Calls PROVE CallerFits(calls'[b], backend')
  <2>1. CASE b = c BY <1>1, <2>1
  <2>2. CASE b # c
    <3>1. /\ calls[b] \in Caller /\ calls[b].since \in Nat /\ backend \in Nat
          /\ CallerFits(calls[b], backend) /\ calls'[b] = calls[b]
      BY <1>1, <2>2 DEF ServedInv, ApiTypes, Caller
    <3> QED BY <3>1 DEF CallerFits
  <2> QED BY <2>1, <2>2
<1>3. ASSUME NEW r \in requests PROVE RequestRight(r)'
  <2>1. \A b \in r.waiting : b \in Calls /\ b # c
    BY FreeWaitsNot DEF ServedInv, ApiTypes, GetRequest
  <2> QED BY <1>1, <2>1, RequestKept DEF ServedInv
<1>4. WaitsApart' BY DEF ServedInv, WaitsApart
<1> QED BY <1>1, <1>2, <1>3, <1>4, ServedKept DEF ServedInv, ApiTypes

\* The request that is made, with the token of the session as.
LEMMA RequestMade ==
    ASSUME ApiValues, ServedInv, NEW u \in Urls, NEW shared \in BOOLEAN, NEW W \in SUBSET Calls,
           NEW as \in 0 .. token, Api!Lend(Api!Key(u), as)
    PROVE  LET r == Api!Request(Api!Key(u), shared, W, as)
           IN  /\ r \in GetRequest /\ r.key[1] = generation /\ r.body = None
               /\ r.key = Api!Key(u) /\ r.made = token /\ r.waiting = W
               /\ lent \subseteq lent' /\ (r.session = token \/ r.key \in lent')
<1>1. generation \in Nat /\ token \in Nat BY DEF ServedInv, ApiTypes
<1>2. Api!Key(u) \in ApiKey BY <1>1 DEF Api!Key, ApiKey
<1>3. Api!Key(u)[1] = generation BY DEF Api!Key
<1>4. lent \subseteq lent' /\ (as = token \/ Api!Key(u) \in lent') BY DEF Api!Lend
<1>5. as \in Nat
  <2>1. \A n \in Nat : 0 .. n \subseteq Nat OBVIOUS
  <2> QED BY <1>1, <2>1
<1> QED BY <1>1, <1>2, <1>3, <1>4, <1>5 DEF Api!Request, GetRequest

LEMMA GetCachedStep ==
    ASSUME ApiValues, ServedInv, NEW c \in Calls, NEW u \in Urls,
           Api!GetFresh(c, u) \/ Api!GetStale(c, u)
    PROVE  ServedInv'
<1>0. /\ calls[c].at # "waiting" /\ backend \in Nat /\ calls \in [Calls -> Caller]
      /\ requests \in SUBSET GetRequest /\ UNCHANGED <<backend, token, generation, seen>>
  BY DEF ServedInv, ApiTypes, Api!GetFresh, Api!GetStale, Api!Free
<1>1. PICK i \in Api!At(Api!Key(u)) :
        /\ calls' = [calls EXCEPT ![c] = Api!Served(Api!Waiting(Api!Key(u)), cache[i].body)] /\ Api!Touch(i)
  BY DEF Api!GetFresh, Api!GetStale
<1>2. i \in DOMAIN cache BY DEF Api!At
<1>3. cache' \in Seq(Entry) /\ \A j \in DOMAIN cache' : EntryFits(cache'[j])
  BY <1>1, <1>2, TouchedFits
<1> DEFINE d == Api!Served(Api!Waiting(Api!Key(u)), cache[i].body)
<1>4. d \in Caller /\ CallerFits(d, backend) BY ServedCaller
<1> HIDE DEF d
<1>5. calls' = [calls EXCEPT ![c] = d] BY <1>1 DEF d
<1>9. backend' \in Nat /\ backend <= backend' /\ CallerFits(d, backend') BY <1>0, <1>4
<1>6. CASE UNCHANGED <<requests, lent>> BY <1>0, <1>3, <1>4, <1>5, <1>6, <1>9, CallerStep
<1>7. ASSUME NEW as \in 0 .. token, Api!Lend(Api!Key(u), as),
             requests' = requests \cup {Api!Request(Api!Key(u), TRUE, {}, as)}
      PROVE  ServedInv'
  <2>1. PICK q \in GetRequest :
            /\ q = Api!Request(Api!Key(u), TRUE, {}, as)
            /\ q.body = None /\ q.made = token /\ q.waiting = {} /\ q.key[1] = generation
            /\ lent \subseteq lent' /\ (q.session = token \/ q.key \in lent')
    BY <1>7, RequestMade, TRUE \in BOOLEAN, {} \in SUBSET Calls
  <2>2. /\ calls' \in [Calls -> Caller] /\ \A b \in Calls : b # c => calls'[b] = calls[b]
        /\ \A b \in Calls : CallerFits(calls'[b], backend')
    BY <1>0, <1>4, <1>5 DEF ServedInv
  <2>3. ASSUME NEW r \in requests PROVE RequestRight(r)'
    <3>1. \A b \in r.waiting : b \in Calls /\ b # c
      BY <1>0, FreeWaitsNot DEF GetRequest
    <3> QED BY <1>0, <2>1, <2>2, <3>1, RequestKept DEF ServedInv
  <2>4. RequestRight(q)'
    <3>1. generation \in Nat /\ generation <= generation BY DEF ServedInv, ApiTypes
    <3> QED BY <1>0, <2>1, <3>1 DEF RequestRight, OfSession
  <2>5. WaitsApart' BY <1>7, <2>1 DEF ServedInv, WaitsApart
  <2>6. /\ requests' \in SUBSET GetRequest /\ \A r \in requests' : RequestRight(r)'
    BY <1>0, <1>7, <2>1, <2>3, <2>4
  <2> QED BY <1>0, <1>3, <2>1, <2>2, <2>5, <2>6, ServedKept
<1>8. \/ UNCHANGED <<requests, lent>>
      \/ \E as \in 0 .. token :
            /\ requests' = requests \cup {Api!Request(Api!Key(u), TRUE, {}, as)}
            /\ Api!Lend(Api!Key(u), as)
  BY DEF Api!GetFresh, Api!GetStale
<1> QED BY <1>6, <1>7, <1>8

\* A caller comes to wait for the request q, which is sent or was there already.
LEMMA GetMissingStep ==
    ASSUME ApiValues, ServedInv, NEW c \in Calls, NEW u \in Urls, Api!GetMissing(c, u)
    PROVE  ServedInv'
<1> DEFINE w == Api!Waiting(Api!Key(u))
<1>0. /\ calls[c].at # "waiting" /\ backend \in Nat /\ calls \in [Calls -> Caller]
      /\ token \in Nat /\ seen \in Nat /\ generation \in Nat /\ seen <= backend
      /\ requests \in SUBSET GetRequest /\ UNCHANGED <<backend, token, generation, cache, seen>>
      /\ calls' = [calls EXCEPT ![c] = w] /\ cache \in Seq(Entry)
      /\ \A i \in DOMAIN cache : EntryFits(cache[i])
      /\ lent \subseteq lent' /\ Api!Key(u) = <<generation, u>>
  BY DEF ServedInv, ApiTypes, CacheFits, Api!GetMissing, Api!Free, Api!Lend, Api!Key
<1>1. /\ w \in Caller /\ w.at = "waiting" /\ w.since = seen /\ w.session = token
      /\ w.key = <<generation, u>>
  BY <1>0, WaitingCaller
<1> HIDE DEF w
<1>2. /\ calls' \in [Calls -> Caller] /\ calls'[c] = w
      /\ \A b \in Calls : b # c => calls'[b] = calls[b]
  BY <1>0, <1>1
<1>3. \A b \in Calls : CallerFits(calls'[b], backend')
  <2>1. CallerFits(w, backend) BY <1>0, <1>1 DEF CallerFits
  <2> QED BY <1>0, <1>2, <2>1 DEF ServedInv
<1>4. ASSUME NEW r \in requests PROVE RequestRight(r)' /\ c \notin r.waiting
  <2>1. \A b \in r.waiting : b \in Calls /\ b # c BY <1>0, FreeWaitsNot DEF GetRequest
  <2> QED BY <1>0, <1>2, <2>1, RequestKept DEF ServedInv
<1>5. ASSUME NEW q \in GetRequest, NEW R \in SUBSET requests, requests' = R \cup {q},
             RequestRight(q)', \A r \in R : r.waiting \cap q.waiting = {}
      PROVE  ServedInv'
  <2>1. WaitsApart' BY <1>5 DEF ServedInv, WaitsApart
  <2>2. /\ requests' \in SUBSET GetRequest /\ \A r \in requests' : RequestRight(r)'
    BY <1>0, <1>4, <1>5
  <2> QED BY <1>0, <1>2, <1>3, <2>1, <2>2, ServedKept
<1>6. ASSUME NEW shared \in BOOLEAN, NEW as \in 0 .. token, Api!Lend(Api!Key(u), as),
             requests' = requests \cup {Api!Request(Api!Key(u), shared, {c}, as)}
      PROVE  ServedInv'
  <2>1. PICK q \in GetRequest :
            /\ q = Api!Request(Api!Key(u), shared, {c}, as) /\ q.key = Api!Key(u)
            /\ q.body = None /\ q.made = token /\ q.waiting = {c} /\ q.key[1] = generation
            /\ q.session = token \/ q.key \in lent'
    BY <1>6, RequestMade, {c} \in SUBSET Calls
  <2>2. RequestRight(q)'
    <3>1. generation <= generation BY <1>0
    <3> QED BY <1>0, <1>1, <1>2, <2>1, <3>1 DEF RequestRight, OfSession
  <2>3. requests \in SUBSET requests /\ requests' = requests \cup {q} BY <1>6, <2>1
  <2>4. \A r \in requests : r.waiting \cap q.waiting = {} BY <1>4, <2>1
  <2> QED BY <1>5, <2>2, <2>3, <2>4
<1>7. ASSUME NEW r \in Api!Listed(Api!Key(u)),
             requests' = (requests \ {r}) \cup {[r EXCEPT !.waiting = @ \cup {c}]}
      PROVE  ServedInv'
  <2>0. PICK q : q = [r EXCEPT !.waiting = r.waiting \cup {c}] OBVIOUS
  <2>1. r \in requests /\ r.key = <<generation, u>> BY DEF Api!Listed, Api!Key
  <2>2. r \in GetRequest /\ RequestRight(r) /\ r.waiting \in SUBSET Calls
    BY <1>0, <2>1 DEF ServedInv, GetRequest
  <2>3. /\ q \in GetRequest /\ q.body = r.body /\ q.session = r.session /\ q.key = r.key
        /\ q.made = r.made /\ q.waiting = r.waiting \cup {c}
    BY <2>0, <2>2 DEF GetRequest
  <2>4. r.made = token /\ (r.body # None => UpToDate(r.body)) /\ generation <= generation
    BY <1>0, <2>1, <2>2 DEF RequestRight
  <2>5. RequestRight(r)' BY <1>4, <2>1
  <2>6. RequestRight(q)'
    BY <1>0, <1>1, <1>2, <2>1, <2>3, <2>4, <2>5 DEF RequestRight, UpToDate
  <2>7. \A p \in requests \ {r} : p.waiting \cap q.waiting = {}
    BY <1>4, <2>1, <2>3 DEF ServedInv, WaitsApart
  <2>8. requests' = (requests \ {r}) \cup {q} BY <1>7, <2>0
  <2> QED BY <1>5, <2>3, <2>6, <2>7, <2>8
<1> QED BY <1>6, <1>7 DEF Api!GetMissing

LEMMA ApiAnswerStep ==
    ASSUME ApiValues, ServedInv, NEW r \in requests, Api!Answer(r)
    PROVE  ServedInv'
<1>a. PICK body : body = [version |-> backend, made |-> r.made, session |-> r.session] OBVIOUS
<1>b. PICK q : q = [r EXCEPT !.body = body] OBVIOUS
<1>0. /\ backend \in Nat /\ seen <= backend /\ r \in GetRequest /\ RequestRight(r)
      /\ r.made \in Nat /\ r.session \in Nat /\ r.waiting \in SUBSET Calls
      /\ requests \in SUBSET GetRequest /\ cache \in Seq(Entry) /\ calls \in [Calls -> Caller]
      /\ UNCHANGED <<backend, token, generation, cache, calls, seen, lent>>
      /\ requests' = (requests \ {r}) \cup {q}
      /\ \A i \in DOMAIN cache : EntryFits(cache[i])
  BY <1>a, <1>b DEF ServedInv, ApiTypes, CacheFits, GetRequest, Api!Answer
<1>1. /\ body \in Body /\ body.version = backend /\ body.made = r.made
      /\ body.session = r.session
  BY <1>0, <1>a DEF Body
<1>2. /\ q \in GetRequest /\ q.body = body /\ q.session = r.session /\ q.key = r.key
      /\ q.made = r.made /\ q.waiting = r.waiting
  BY <1>0, <1>1, <1>b DEF GetRequest
<1>3. ASSUME NEW p \in requests PROVE RequestRight(p)'
  BY <1>0, RequestKept DEF ServedInv
<1>4. \A c \in r.waiting : body.version >= calls[c].since
  <2>1. ASSUME NEW c \in Calls PROVE calls[c].since \in Nat /\ calls[c].since <= backend
    BY <1>0 DEF ServedInv, Caller, CallerFits
  <2> QED BY <1>0, <1>1, <2>1
<1>5. r.key[1] = generation => UpToDate(body)
  <2>1. seen \in Nat BY DEF ServedInv, ApiTypes
  <2> QED BY <1>0, <1>1, <2>1 DEF RequestRight, UpToDate
<1>6. RequestRight(q)' BY <1>0, <1>1, <1>2, <1>4, <1>5 DEF RequestRight, UpToDate, OfSession
<1>7. WaitsApart' BY <1>0, <1>2 DEF ServedInv, WaitsApart
<1>8. requests' \in SUBSET GetRequest /\ \A p \in requests' : RequestRight(p)'
  BY <1>0, <1>2, <1>3, <1>6
<1> QED BY <1>0, <1>7, <1>8, ServedKept DEF ServedInv

\* A request ends: those who wait for it are the callers D, which it serves or not.
LEMMA EndedStep ==
    ASSUME ServedInv, NEW r \in requests, requests' = Api!Ended(r),
           NEW d, calls' = [c \in Calls |-> IF c \in r.waiting THEN d[c] ELSE calls[c]],
           \A c \in Calls : c \in r.waiting => d[c] \in Caller /\ CallerFits(d[c], backend),
           cache' \in Seq(Entry), \A i \in DOMAIN cache' : EntryFits(cache'[i]),
           UNCHANGED <<backend, token, generation, seen, lent>>
    PROVE  ServedInv'
<1>0. requests \in SUBSET GetRequest /\ calls \in [Calls -> Caller] /\ backend \in Nat
  BY DEF ServedInv, ApiTypes
<1>1. /\ calls' \in [Calls -> Caller]
      /\ \A c \in Calls : CallerFits(calls'[c], backend')
      /\ \A c \in Calls : c \notin r.waiting => calls'[c] = calls[c]
  BY <1>0 DEF ServedInv
<1>2. ASSUME NEW p \in requests'
      PROVE  /\ p \in GetRequest /\ RequestRight(p)'
             /\ \E q \in requests : q # r /\ p.waiting = q.waiting
                    /\ p = [q EXCEPT !.listed = q.listed /\ ~(r.shared /\ q.key = r.key)]
  <2>1. PICK q \in requests \ {r} :
            p = [q EXCEPT !.listed = q.listed /\ ~(r.shared /\ q.key = r.key)]
    BY DEF Api!Ended
  <2>2. q \in GetRequest /\ RequestRight(q) BY <1>0, <2>1 DEF ServedInv
  <2>3. /\ p \in GetRequest /\ p.key = q.key /\ p.session = q.session /\ p.body = q.body
        /\ p.made = q.made /\ p.waiting = q.waiting
    BY <2>1, <2>2 DEF GetRequest
  <2>4. RequestRight(p) BY <2>2, <2>3 DEF RequestRight
  <2>5. \A c \in p.waiting : c \in Calls /\ c \notin r.waiting
    BY <2>1, <2>2, <2>3 DEF ServedInv, WaitsApart, GetRequest
  <2> QED BY <1>1, <2>1, <2>3, <2>4, <2>5, RequestKept
<1>3. WaitsApart'
  <2>1. ASSUME NEW p \in requests', NEW o \in requests', p.waiting \cap o.waiting # {}
        PROVE  p = o
    BY <1>2, <2>1 DEF ServedInv, WaitsApart
  <2> QED BY <2>1 DEF WaitsApart
<1> QED BY <1>0, <1>1, <1>2, <1>3, ServedKept

LEMMA ArrivesStep ==
    ASSUME ApiValues, ServedInv, NEW r \in requests, Api!Arrives(r)
    PROVE  ServedInv'
<1> DEFINE e == [key |-> r.key, body |-> r.body, age |-> "fresh"]
           d == [c \in Calls |-> Api!Served(calls[c], r.body)]
<1>0. /\ r \in GetRequest /\ RequestRight(r) /\ r.body \in Body /\ r.body # None
      /\ r.waiting \in SUBSET Calls /\ calls \in [Calls -> Caller]
      /\ requests' = Api!Ended(r) /\ UNCHANGED <<backend, token, generation, seen, lent>>
      /\ calls' = [c \in Calls |-> IF c \in r.waiting THEN Api!Served(calls[c], r.body) ELSE calls[c]]
  BY DEF ServedInv, ApiTypes, GetRequest, Api!Arrives
<1>1. e \in Entry /\ EntryFits(e)
  BY <1>0 DEF GetRequest, Entry, EntryFits, RequestRight, OfSession
<1>2. PICK size : Api!Trim(Api!Put(e), size) BY DEF Api!Arrives, Api!Store
<1> HIDE DEF e
<1>3. cache' \in Seq(Entry) /\ \A i \in DOMAIN cache' : EntryFits(cache'[i])
  BY <1>1, <1>2, StoredFits
<1>4. ASSUME NEW c \in Calls, c \in r.waiting
      PROVE  d[c] \in Caller /\ CallerFits(d[c], backend)
  <2>1. /\ calls[c] \in Caller /\ CallerFits(calls[c], backend) /\ calls[c].session = r.made
        /\ r.body.version >= calls[c].since /\ r.body.made = r.made /\ calls[c].key = r.key
        /\ OfSession(r.key, r.made, r.body.session)
    BY <1>0, <1>4 DEF ServedInv, RequestRight
  <2>2. d[c] = [calls[c] EXCEPT !.at = "served", !.body = r.body] BY DEF Api!Served
  <2> HIDE DEF d
  <2>3. /\ d[c] \in Caller /\ d[c].since = calls[c].since /\ d[c].session = calls[c].session
        /\ d[c].body = r.body /\ d[c].key = calls[c].key
    BY <1>0, <2>1, <2>2 DEF Caller
  <2> QED BY <2>1, <2>3 DEF CallerFits
<1>5. calls' = [c \in Calls |-> IF c \in r.waiting THEN d[c] ELSE calls[c]] BY <1>0
<1> HIDE DEF d
<1> QED BY <1>0, <1>3, <1>4, <1>5, EndedStep

LEMMA ApiFailsStep ==
    ASSUME ApiValues, ServedInv, NEW r \in requests, Api!Fails(r)
    PROVE  ServedInv'
<1> DEFINE d == [c \in Calls |-> Api!Idle]
<1>1. /\ requests' = Api!Ended(r) /\ UNCHANGED <<backend, token, generation, seen, lent>>
      /\ calls' = [c \in Calls |-> IF c \in r.waiting THEN d[c] ELSE calls[c]]
      /\ cache' \in Seq(Entry) /\ \A i \in DOMAIN cache' : EntryFits(cache'[i])
      /\ backend \in Nat
  BY DEF ServedInv, ApiTypes, CacheFits, Api!Fails
<1>2. \A c \in Calls : d[c] \in Caller /\ CallerFits(d[c], backend)
  BY <1>1 DEF Api!Idle, Caller, CallerFits
<1> HIDE DEF d
<1> QED BY <1>1, <1>2, EndedStep

LEMMA ChangeSteps ==
    ASSUME ApiValues, ServedInv, NEW c \in Calls,
           Api!Change(c) \/ Api!Changes(c) \/ Api!ChangeFails(c)
    PROVE  ServedInv'
<1>0. /\ calls[c].at # "waiting" /\ calls[c] \in Caller /\ backend \in Nat /\ cache' \in Seq(Entry)
      /\ \A i \in DOMAIN cache' : EntryFits(cache'[i])
      /\ UNCHANGED <<token, generation, seen, requests, lent>>
  BY DEF ServedInv, ApiTypes, CacheFits, Api!Change, Api!Changes, Api!ChangeFails, Api!Free
<1>1. ASSUME NEW d \in Caller, calls' = [calls EXCEPT ![c] = d], CallerFits(d, backend'),
             backend' = backend \/ backend' = backend + 1
      PROVE  ServedInv'
  <2>1. backend' \in Nat /\ backend <= backend' BY <1>0, <1>1
  <2> QED BY <1>0, <1>1, <2>1, CallerStep
<1>2. CASE Api!Change(c)
  <2> DEFINE d == [Api!Idle EXCEPT !.at = "changing"]
  <2>1. d \in Caller /\ CallerFits(d, backend) BY <1>0 DEF Api!Idle, Caller, CallerFits
  <2>2. calls' = [calls EXCEPT ![c] = d] /\ backend' = backend BY <1>2 DEF Api!Change
  <2> HIDE DEF d
  <2> QED BY <1>1, <2>1, <2>2
<1>3. CASE Api!Changes(c)
  <2> DEFINE d == [calls[c] EXCEPT !.at = "changed", !.since = backend']
  <2>1. calls' = [calls EXCEPT ![c].at = "changed", ![c].since = backend'] /\ backend' = backend + 1
    BY <1>3 DEF Api!Changes
  <2>2. calls' = [calls EXCEPT ![c] = d] BY <1>0, <2>1 DEF ServedInv, ApiTypes
  <2>3. backend' \in Nat /\ backend' <= backend' BY <1>0, <2>1
  <2>4. d \in Caller /\ d.at = "changed" /\ d.since = backend' BY <1>0, <2>3 DEF Caller
  <2> HIDE DEF d
  <2>5. CallerFits(d, backend') BY <2>3, <2>4 DEF CallerFits
  <2> QED BY <1>1, <2>1, <2>2, <2>4, <2>5
<1>4. CASE Api!ChangeFails(c)
  <2> DEFINE d == Api!Idle
  <2>1. d \in Caller /\ CallerFits(d, backend) BY <1>0 DEF Api!Idle, Caller, CallerFits
  <2>2. calls' = [calls EXCEPT ![c] = d] /\ backend' = backend BY <1>4 DEF Api!ChangeFails
  <2> HIDE DEF d
  <2> QED BY <1>1, <2>1, <2>2
<1> QED BY <1>2, <1>3, <1>4

\* The generation goes on: whatever was under way is of an earlier one.
LEMMA ClearsStep ==
    ASSUME ServedInv, Api!Clear, backend' = backend, lent' = lent, token' \in Nat,
           seen' \in Nat, seen' <= backend,
           calls' = calls \/ \E c \in Calls :
                calls[c].at # "waiting" /\ calls' = [calls EXCEPT ![c] = Api!Idle]
    PROVE  ServedInv'
<1>0. /\ generation \in Nat /\ generation' = generation + 1 /\ cache' = <<>> /\ backend \in Nat
      /\ requests' = {[r EXCEPT !.listed = FALSE] : r \in requests}
      /\ requests \in SUBSET GetRequest /\ calls \in [Calls -> Caller]
  BY DEF ServedInv, ApiTypes, Api!Clear
<1>1. Api!Idle \in Caller /\ CallerFits(Api!Idle, backend)
  BY <1>0 DEF Api!Idle, Caller, CallerFits
<1>2. /\ calls' \in [Calls -> Caller] /\ \A c \in Calls : CallerFits(calls'[c], backend)
      /\ \A c \in Calls : calls[c].at = "waiting" => calls'[c] = calls[c]
  BY <1>0, <1>1 DEF ServedInv
<1>3. ASSUME NEW p \in requests'
      PROVE  /\ p \in GetRequest /\ RequestRight(p)'
             /\ \E q \in requests : p.waiting = q.waiting /\ p = [q EXCEPT !.listed = FALSE]
  <2>1. PICK q \in requests : p = [q EXCEPT !.listed = FALSE] BY <1>0
  <2>2. /\ q \in GetRequest /\ RequestRight(q) /\ q.waiting \in SUBSET Calls /\ q.key \in ApiKey
    BY <1>0 DEF ServedInv, GetRequest
  <2>3. /\ p \in GetRequest /\ p.key = q.key /\ p.session = q.session /\ p.body = q.body
        /\ p.made = q.made /\ p.waiting = q.waiting
    BY <2>1, <2>2 DEF GetRequest
  <2>4. q.key[1] \in Nat /\ q.key[1] <= generation BY <2>2 DEF ApiKey, RequestRight
  <2>5. p.key[1] <= generation' /\ p.key[1] # generation' BY <1>0, <2>3, <2>4
  <2>6. \A c \in p.waiting : calls'[c] = calls[c] BY <1>2, <2>2, <2>3 DEF RequestRight
  <2>7. RequestRight(p)' BY <2>2, <2>3, <2>5, <2>6 DEF RequestRight, OfSession
  <2> QED BY <2>1, <2>3, <2>7
<1>4. WaitsApart'
  <2>1. ASSUME NEW p \in requests', NEW o \in requests', p.waiting \cap o.waiting # {}
        PROVE  p = o
    BY <1>3, <2>1 DEF ServedInv, WaitsApart
  <2> QED BY <2>1 DEF WaitsApart
<1>5. cache' \in Seq(Entry) /\ CacheFits' BY <1>0 DEF CacheFits
<1>6. \A c \in Calls : CallerFits(calls[c], backend)' BY <1>2 DEF CallerFits, OfSession
<1> QED BY <1>0, <1>2, <1>3, <1>4, <1>5, <1>6 DEF ServedInv, ApiTypes

LEMMA AgesStep ==
    ASSUME ServedInv, NEW i \in DOMAIN cache, Api!Ages(i)
    PROVE  ServedInv'
<1> DEFINE e == [cache[i] EXCEPT !.age = IF @ = "fresh" THEN "stale" ELSE "expired"]
<1>0. /\ cache \in Seq(Entry) /\ Len(cache) \in Nat /\ i \in 1 .. Len(cache)
      /\ UNCHANGED <<backend, token, generation, requests, calls, seen, lent>>
      /\ cache' = [cache EXCEPT ![i] = e]
  BY DEF ServedInv, ApiTypes, Api!Ages
<1>1. cache[i] \in Entry /\ EntryFits(cache[i]) BY <1>0 DEF ServedInv, CacheFits
<1>2. e \in Entry /\ e.key = cache[i].key /\ e.body = cache[i].body BY <1>1 DEF Entry
<1> HIDE DEF e
<1>3. /\ cache' \in Seq(Entry) /\ cache'[i] = e /\ DOMAIN cache' = 1 .. Len(cache)
      /\ \A j \in 1 .. Len(cache) : j # i => cache'[j] = cache[j]
  BY <1>0, <1>2
<1>4. EntryFits(e) BY <1>1, <1>2 DEF EntryFits
<1>5. \A j \in DOMAIN cache' : EntryFits(cache'[j])
  BY <1>0, <1>3, <1>4 DEF ServedInv, CacheFits
<1>6. \A r \in requests : RequestRight(r)' BY <1>0, RequestKept DEF ServedInv
<1>7. WaitsApart' BY <1>0 DEF ServedInv, WaitsApart
<1>8. backend' \in Nat /\ backend <= backend' BY <1>0 DEF ServedInv, ApiTypes
<1> QED BY <1>0, <1>3, <1>5, <1>6, <1>7, <1>8, ServedKept DEF ServedInv, ApiTypes

LEMMA ServedNext ==
    ASSUME ApiValues, ServedInv, [Api!Next]_(Api!vars)
    PROVE  ServedInv'
<1>1. ASSUME NEW c \in Calls, NEW u \in Urls,
             Api!GetFresh(c, u) \/ Api!GetStale(c, u) \/ Api!GetMissing(c, u)
      PROVE  ServedInv'
  BY <1>1, GetCachedStep, GetMissingStep
<1>2. ASSUME NEW r \in requests, Api!Answer(r) \/ Api!Arrives(r) \/ Api!Fails(r) PROVE ServedInv'
  BY <1>2, ApiAnswerStep, ArrivesStep, ApiFailsStep
<1>3. ASSUME NEW c \in Calls, Api!Change(c) \/ Api!Changes(c) \/ Api!ChangeFails(c) PROVE ServedInv'
  BY <1>3, ChangeSteps
<1>4. ASSUME NEW c \in Calls, Api!Changed(c) PROVE ServedInv'
  <2>1. /\ Api!Clear /\ calls[c].at # "waiting" /\ calls' = [calls EXCEPT ![c] = Api!Idle]
        /\ UNCHANGED <<backend, token, lent>>
        /\ seen' = IF calls[c].since > seen THEN calls[c].since ELSE seen
    BY <1>4 DEF Api!Changed
  <2>2. /\ seen \in Nat /\ token \in Nat /\ seen <= backend
        /\ calls[c] \in Caller /\ CallerFits(calls[c], backend)
    BY DEF ServedInv, ApiTypes
  <2>3. calls[c].since \in Nat /\ calls[c].since <= backend BY <2>2 DEF Caller, CallerFits
  <2>4. seen' \in Nat /\ seen' <= backend BY <2>1, <2>2, <2>3
  <2> QED BY <2>1, <2>2, <2>4, ClearsStep
<1>5. CASE Api!SetSession
  <2>1. Api!Clear /\ token' = token + 1 /\ UNCHANGED <<backend, calls, seen, lent>>
    BY <1>5 DEF Api!SetSession
  <2>2. token' \in Nat /\ seen' \in Nat /\ seen' <= backend
    BY <2>1 DEF ServedInv, ApiTypes
  <2> QED BY <2>1, <2>2, ClearsStep
<1>6. ASSUME NEW i \in DOMAIN cache, Api!Ages(i) PROVE ServedInv' BY <1>6, AgesStep
<1>7. CASE UNCHANGED Api!vars
  <2>1. UNCHANGED <<backend, token, generation, cache, requests, calls, seen, lent>>
    BY <1>7 DEF Api!vars
  <2> QED BY <2>1
      DEF ServedInv, ApiTypes, CacheFits, EntryFits, UpToDate, OfSession, RequestRight,
          CallerFits, WaitsApart
<1> QED BY <1>1, <1>2, <1>3, <1>4, <1>5, <1>6, <1>7 DEF Api!Next

LEMMA ServedInit == ASSUME Api!Init PROVE ServedInv
<1>1. Api!Idle \in Caller /\ CallerFits(Api!Idle, 0) BY DEF Api!Idle, Caller, CallerFits
<1>2. cache \in Seq(Entry) /\ CacheFits BY DEF Api!Init, CacheFits
<1> QED BY <1>1, <1>2 DEF Api!Init, ServedInv, ApiTypes, WaitsApart

LEMMA ServedRight == ApiValues => (Api!Spec => []ServedInv)
<1> SUFFICES ASSUME ApiValues PROVE Api!Spec => []ServedInv OBVIOUS
<1>1. Api!Init => ServedInv BY ServedInit
<1>2. ServedInv /\ [Api!Next]_(Api!vars) => ServedInv' BY ServedNext
<1> QED BY <1>1, <1>2, PTL DEF Api!Spec

\* What a call is served was asked for in the session the call was made in, answered
\* after every change whose answer the client had processed by then, and is for that
\* session unless a request under the call's key sent another's token, however late
\* the answers come and whoever shares them (apiFetch, clearApiGetCache,
\* performApiFetch).
THEOREM ServedIsFresh == ApiValues => (Api!Spec => []Api!ServedFresh)
<1> SUFFICES ASSUME ApiValues PROVE Api!Spec => []Api!ServedFresh OBVIOUS
<1>1. ServedInv => Api!ServedFresh BY DEF ServedInv, CallerFits, OfSession, Api!ServedFresh
<1> QED BY <1>1, ServedRight, PTL

-----------------------------------------------------------------------------
(* The size of what the cache holds *)

LEMMA ApiCardinality == ASSUME NEW S PROVE Api!Cardinality(S) = Cardinality(S)
BY DEF Api!Cardinality, Cardinality

\* What Api!SizeOf counts.
Units(s, I) == UNION {{i} \X (1 .. Api!Size(s[i].body)) : i \in I}

LEMMA SizeIsUnits == ASSUME NEW s, NEW I PROVE Api!SizeOf(s, I) = Cardinality(Units(s, I))
BY ApiCardinality DEF Api!SizeOf, Units

LEMMA EntrySize ==
    ASSUME NEW s \in Seq(Entry), NEW i \in DOMAIN s
    PROVE  s[i].body \in Body /\ Api!Size(s[i].body) \in Nat
<1>1. s[i] \in Entry OBVIOUS
<1> QED BY <1>1 DEF Entry, Body, Api!Size

LEMMA UnitsOf ==
    ASSUME NEW s, NEW I, NEW x
    PROVE  x \in Units(s, I) <=> \E i \in I : \E n \in 1 .. Api!Size(s[i].body) : x = <<i, n>>
BY DEF Units

LEMMA UnitsFinite ==
    ASSUME NEW s \in Seq(Entry), NEW I \in SUBSET DOMAIN s
    PROVE  /\ IsFiniteSet(I) /\ IsFiniteSet(Units(s, I))
           /\ Cardinality(Units(s, I)) \in Nat
<1> DEFINE f == [i \in I |-> {i} \X (1 .. Api!Size(s[i].body))]
           T == {{i} \X (1 .. Api!Size(s[i].body)) : i \in I}
<1>1. IsFiniteSet(I)
  <2>1. IsFiniteSet(1 .. Len(s)) BY FS_Interval
  <2>2. DOMAIN s = 1 .. Len(s) OBVIOUS
  <2> QED BY <2>1, <2>2, FS_Subset
<1>2. f \in Surjection(I, T) BY DEF Surjection
<1>3. IsFiniteSet(T) BY <1>1, <1>2, FS_Surjection
<1>4. ASSUME NEW t \in T PROVE IsFiniteSet(t)
  <2>1. PICK i \in I : t = {i} \X (1 .. Api!Size(s[i].body)) BY <1>4
  <2>2. Api!Size(s[i].body) \in Nat BY EntrySize
  <2>3. IsFiniteSet(1 .. Api!Size(s[i].body)) BY <2>2, FS_Interval
  <2>4. IsFiniteSet({i}) BY FS_Singleton
  <2> QED BY <2>1, <2>3, <2>4, FS_Product
<1>5. IsFiniteSet(UNION T)
  <2> HIDE DEF T
  <2> QED BY <1>3, <1>4, FS_UNION
<1> QED BY <1>1, <1>5, FS_CardinalityType DEF Units

LEMMA SizeNat ==
    ASSUME NEW s \in Seq(Entry), NEW I \in SUBSET DOMAIN s
    PROVE  Api!SizeOf(s, I) \in Nat
BY UnitsFinite, SizeIsUnits

\* The size of nothing, of one entry, and of two sets of entries that are apart.
LEMMA SizeOfNone == ASSUME NEW s PROVE Api!SizeOf(s, {}) = 0
<1>1. Units(s, {}) = {} BY DEF Units
<1> QED BY <1>1, SizeIsUnits, FS_EmptySet

LEMMA SizeOfOne ==
    ASSUME NEW s \in Seq(Entry), NEW i \in DOMAIN s
    PROVE  Api!SizeOf(s, {i}) = Api!Size(s[i].body)
<1> DEFINE n == Api!Size(s[i].body)
<1>1. n \in Nat BY EntrySize
<1>2. Units(s, {i}) = {i} \X (1 .. n) BY DEF Units
<1> HIDE DEF n
<1>3. IsFiniteSet(1 .. n) /\ Cardinality(1 .. n) = n BY <1>1, FS_Interval
<1>4. IsFiniteSet({i}) /\ Cardinality({i}) = 1 BY FS_Singleton
<1>5. Cardinality({i} \X (1 .. n)) = 1 * n BY <1>3, <1>4, FS_Product
<1>6. Api!SizeOf(s, {i}) = Cardinality(Units(s, {i})) BY SizeIsUnits
<1>7. 1 * n = n BY <1>1
<1>8. Api!SizeOf(s, {i}) = n BY <1>2, <1>5, <1>6, <1>7
<1> QED BY <1>8 DEF n

LEMMA SizeOfBoth ==
    ASSUME NEW s \in Seq(Entry), NEW I \in SUBSET DOMAIN s, NEW J \in SUBSET DOMAIN s, I \cap J = {}
    PROVE  Api!SizeOf(s, I \cup J) = Api!SizeOf(s, I) + Api!SizeOf(s, J)
<1>1. Units(s, I \cup J) = Units(s, I) \cup Units(s, J) BY DEF Units
<1>2. Units(s, I) \cap Units(s, J) = {} BY UnitsOf
<1>3. /\ IsFiniteSet(Units(s, I)) /\ IsFiniteSet(Units(s, J))
      /\ Cardinality(Units(s, I)) \in Nat /\ Cardinality(Units(s, J)) \in Nat
  BY UnitsFinite
<1>4. Cardinality(Units(s, I) \cup Units(s, J))
        = Cardinality(Units(s, I)) + Cardinality(Units(s, J)) - Cardinality({})
  BY <1>2, <1>3, FS_Union
<1>5. /\ Api!SizeOf(s, I) = Cardinality(Units(s, I)) /\ Api!SizeOf(s, J) = Cardinality(Units(s, J))
      /\ Api!SizeOf(s, I \cup J) = Cardinality(Units(s, I \cup J))
  BY SizeIsUnits
<1>6. PICK m \in Nat, n \in Nat :
        m = Cardinality(Units(s, I)) /\ n = Cardinality(Units(s, J))
  BY <1>3
<1>7. Cardinality(Units(s, I) \cup Units(s, J)) = m + n - 0 BY <1>4, <1>6, FS_EmptySet
<1>8. m + n - 0 = m + n OBVIOUS
<1> QED BY <1>1, <1>5, <1>6, <1>7, <1>8

\* Two sets of entries that have the same bodies, one by one, have one size.
LEMMA SizeMoved ==
    ASSUME NEW s \in Seq(Entry), NEW I \in SUBSET DOMAIN s,
           NEW t, NEW J, NEW f \in Bijection(I, J),
           \A i \in I : t[f[i]].body = s[i].body
    PROVE  Api!SizeOf(t, J) = Api!SizeOf(s, I)
<1> DEFINE U == Units(s, I)
           V == Units(t, J)
           g == [x \in U |-> <<f[x[1]], x[2]>>]
<1>0. /\ f \in [I -> J] /\ \A i, j \in I : f[i] = f[j] => i = j
      /\ \A j \in J : \E i \in I : f[i] = j
  BY DEF Bijection, Injection, Surjection, IsInjective
<1>1. \A x \in U : x[1] \in I /\ x[2] \in 1 .. Api!Size(s[x[1]].body) /\ x = <<x[1], x[2]>>
  BY UnitsOf
<1>2. ASSUME NEW i \in I, NEW n \in 1 .. Api!Size(s[i].body)
      PROVE  /\ <<i, n>> \in U /\ g[<<i, n>>] = <<f[i], n>>
             /\ <<f[i], n>> \in V
  <2>1. <<i, n>> \in U BY UnitsOf
  <2>2. f[i] \in J /\ n \in 1 .. Api!Size(t[f[i]].body) BY <1>0
  <2>3. <<f[i], n>> \in V BY <2>2, UnitsOf
  <2> QED BY <2>1, <2>3
<1>3. g \in [U -> V]
  <2>1. ASSUME NEW x \in U PROVE <<f[x[1]], x[2]>> \in V BY <1>1, <1>2
  <2> QED BY <2>1
<1>4. ASSUME NEW x \in U, NEW y \in U, g[x] = g[y] PROVE x = y
  <2>1. x[1] \in I /\ y[1] \in I /\ x = <<x[1], x[2]>> /\ y = <<y[1], y[2]>> BY <1>1
  <2>2. <<f[x[1]], x[2]>> = <<f[y[1]], y[2]>> BY <1>4
  <2>3. f[x[1]] = f[y[1]] /\ x[2] = y[2] BY <2>2
  <2> QED BY <1>0, <2>1, <2>3
<1>5. ASSUME NEW y \in V PROVE \E x \in U : g[x] = y
  <2>0. PICK j \in J : \E n \in 1 .. Api!Size(t[j].body) : y = <<j, n>> BY UnitsOf
  <2>1. PICK n \in 1 .. Api!Size(t[j].body) : y = <<j, n>> BY <2>0
  <2>2. PICK i \in I : f[i] = j BY <1>0
  <2>3. n \in 1 .. Api!Size(s[i].body) BY <2>1, <2>2
  <2> QED BY <1>2, <2>1, <2>2, <2>3
<1> HIDE DEF g, U, V
<1>6. g \in Bijection(U, V) BY <1>3, <1>4, <1>5 DEF Bijection, Injection, Surjection, IsInjective
<1>7. ExistsBijection(U, V) BY <1>6 DEF ExistsBijection
<1>8. IsFiniteSet(U) BY UnitsFinite DEF U
<1>9. Cardinality(V) = Cardinality(U) BY <1>7, <1>8, FS_Bijection
<1> QED BY <1>9, SizeIsUnits DEF U, V

LEMMA SizeSame ==
    ASSUME NEW s, NEW t, NEW I, \A i \in I : t[i].body = s[i].body
    PROVE  Api!SizeOf(t, I) = Api!SizeOf(s, I)
<1>1. \A i \in I : {i} \X (1 .. Api!Size(t[i].body)) = {i} \X (1 .. Api!Size(s[i].body)) OBVIOUS
<1>2. Units(t, I) = Units(s, I) BY <1>1 DEF Units
<1> QED BY <1>2, SizeIsUnits

\* The Map holds one entry of a key.
KeysApart == \A i, j \in DOMAIN cache : cache[i].key = cache[j].key => i = j

SizeInv == KeysApart /\ Api!SizeFits

LEMMA TouchedSize ==
    ASSUME ServedInv, SizeInv, NEW i \in DOMAIN cache, Api!Touch(i), bytes' = bytes
    PROVE  SizeInv'
<1> DEFINE n == Len(cache)
           f == [j \in 1 .. n |-> IF j < i THEN j ELSE IF j < n THEN j + 1 ELSE i]
<1>0. cache \in Seq(Entry) /\ n \in Nat /\ DOMAIN cache = 1 .. n /\ i \in 1 .. n
  BY DEF ServedInv, ApiTypes
<1>1. /\ cache' \in Seq(Entry) /\ Len(cache') = n
      /\ \A j \in 1 .. n :
            cache'[j] = cache[IF j < i THEN j ELSE IF j < n THEN j + 1 ELSE i]
  BY <1>0, TouchedCache
<1>2. f \in [1 .. n -> 1 .. n] /\ \A j \in 1 .. n : cache'[j] = cache[f[j]]
  BY <1>0, <1>1
<1>3. ASSUME NEW j \in 1 .. n, NEW k \in 1 .. n, f[j] = f[k] PROVE j = k
  <2>1. /\ f[j] = IF j < i THEN j ELSE IF j < n THEN j + 1 ELSE i
        /\ f[k] = IF k < i THEN k ELSE IF k < n THEN k + 1 ELSE i
    OBVIOUS
  <2>2. j \in Nat /\ k \in Nat /\ i \in Nat /\ j <= n /\ k <= n BY <1>0
  <2>3. (IF j < i THEN j ELSE IF j < n THEN j + 1 ELSE i)
          = (IF k < i THEN k ELSE IF k < n THEN k + 1 ELSE i)
    BY <1>3, <2>1
  <2> HIDE DEF f, n
  <2>4. CASE j < i BY <1>0, <2>2, <2>3, <2>4
  <2>5. CASE ~(j < i) /\ j < n
    <3>1. CASE k < i BY <1>0, <2>2, <2>3, <2>5, <3>1
    <3>2. CASE ~(k < i) /\ k < n BY <1>0, <2>2, <2>3, <2>5, <3>2
    <3>3. CASE ~(k < i) /\ ~(k < n) BY <1>0, <2>2, <2>3, <2>5, <3>3
    <3> QED BY <3>1, <3>2, <3>3
  <2>6. CASE ~(j < i) /\ ~(j < n) BY <1>0, <2>2, <2>3, <2>6
  <2> QED BY <2>4, <2>5, <2>6
<1>4. ASSUME NEW k \in 1 .. n PROVE \E j \in 1 .. n : f[j] = k
  <2>1. CASE k < i
    <3>1. f[k] = k BY <2>1
    <3> QED BY <3>1
  <2>2. CASE k = i
    <3>1. n \in 1 .. n /\ ~(n < i) /\ ~(n < n) BY <1>0
    <3>2. f[n] = k BY <2>2, <3>1
    <3> QED BY <3>1, <3>2
  <2>3. CASE k > i
    <3>1. k - 1 \in 1 .. n /\ ~(k - 1 < i) /\ k - 1 < n /\ (k - 1) + 1 = k BY <1>0, <2>3
    <3>2. f[k - 1] = k BY <3>1
    <3> QED BY <3>1, <3>2
  <2> QED BY <1>0, <2>1, <2>2, <2>3
<1> HIDE DEF f
<1>5. f \in Bijection(1 .. n, 1 .. n)
  BY <1>2, <1>3, <1>4 DEF Bijection, Injection, Surjection, IsInjective
<1>6. DOMAIN cache' = 1 .. n BY <1>1
<1>7. Api!SizeOf(cache, 1 .. n) = Api!SizeOf(cache', 1 .. n)
  <2>1. 1 .. n \in SUBSET DOMAIN cache' BY <1>6
  <2>2. \A j \in 1 .. n : cache[f[j]].body = cache'[j].body BY <1>2
  <2> QED BY <1>1, <1>5, <2>1, <2>2, SizeMoved
<1>8. KeysApart'
  <2>1. ASSUME NEW j \in 1 .. n, NEW k \in 1 .. n, cache'[j].key = cache'[k].key PROVE j = k
    BY <1>0, <1>2, <1>3, <2>1 DEF SizeInv, KeysApart
  <2> QED BY <1>6, <2>1 DEF KeysApart
<1>9. Api!SizeFits' BY <1>0, <1>1, <1>6, <1>7 DEF SizeInv, Api!SizeFits
<1> QED BY <1>8, <1>9 DEF SizeInv

\* The size the cache would have with e in it.
LEMMA PutSize ==
    ASSUME ServedInv, SizeInv, NEW e \in Entry
    PROVE  LET s == Api!Put(e)
           IN  /\ \A i, j \in DOMAIN s : s[i].key = s[j].key => i = j
               /\ bytes - Api!SizeOf(cache, Api!At(e.key)) + Api!Size(e.body)
                    = Api!SizeOf(s, DOMAIN s)
<1> DEFINE n == Len(cache)
           s == Api!Put(e)
           b == Api!Size(e.body)
<1>0. /\ cache \in Seq(Entry) /\ n \in Nat /\ DOMAIN cache = 1 .. n
      /\ KeysApart /\ bytes = Api!SizeOf(cache, 1 .. n)
  BY DEF ServedInv, ApiTypes, SizeInv, Api!SizeFits
<1>1. /\ s \in Seq(Entry)
      /\ \/ s = Append(cache, e) /\ \A j \in 1 .. n : cache[j].key # e.key
         \/ /\ Len(s) = n /\ \E j \in 1 .. n : cache[j].key = e.key
            /\ \A j \in 1 .. n : s[j] = IF cache[j].key = e.key THEN e ELSE cache[j]
  BY <1>0, PutCache
<1> HIDE DEF s
<1>2. b \in Nat /\ bytes \in Nat
  <2>1. b \in Nat BY DEF Entry, Body, Api!Size
  <2>2. 1 .. n \in SUBSET DOMAIN cache BY <1>0
  <2> QED BY <1>0, <2>1, <2>2, SizeNat
<1> HIDE DEF b
<1>3. CASE s = Append(cache, e) /\ \A j \in 1 .. n : cache[j].key # e.key
  <2>1. /\ DOMAIN s = (1 .. n) \cup {n + 1} /\ s[n + 1] = e /\ \A j \in 1 .. n : s[j] = cache[j]
        /\ (1 .. n) \cap {n + 1} = {}
    BY <1>0, <1>3
  <2>2. Api!SizeOf(s, 1 .. n) = bytes BY <1>0, <2>1, SizeSame
  <2>3. Api!SizeOf(s, {n + 1}) = b BY <1>1, <2>1, SizeOfOne DEF b
  <2>4. 1 .. n \in SUBSET DOMAIN s /\ {n + 1} \in SUBSET DOMAIN s BY <2>1
  <2>5. Api!SizeOf(s, DOMAIN s) = bytes + b BY <1>1, <2>1, <2>2, <2>3, <2>4, SizeOfBoth
  <2>6. Api!At(e.key) = {} BY <1>0, <1>3 DEF Api!At
  <2>7. bytes - Api!SizeOf(cache, Api!At(e.key)) + b = bytes + b
    <3>1. Api!SizeOf(cache, Api!At(e.key)) = 0 BY <2>6, SizeOfNone
    <3> QED BY <1>2, <3>1
  <2>8. ASSUME NEW i \in DOMAIN s, NEW j \in DOMAIN s, s[i].key = s[j].key PROVE i = j
    BY <1>0, <1>3, <2>1, <2>8 DEF KeysApart
  <2> QED BY <2>5, <2>7, <2>8 DEF s, b
<1>4. CASE /\ Len(s) = n /\ \E j \in 1 .. n : cache[j].key = e.key
           /\ \A j \in 1 .. n : s[j] = IF cache[j].key = e.key THEN e ELSE cache[j]
  <2>1. PICK k \in 1 .. n : cache[k].key = e.key BY <1>4
  <2>2. \A j \in 1 .. n : cache[j].key = e.key <=> j = k BY <1>0, <2>1 DEF KeysApart
  <2> DEFINE R == (1 .. n) \ {k}
  <2>3. /\ DOMAIN s = R \cup {k} /\ DOMAIN cache = R \cup {k} /\ R \cap {k} = {}
        /\ R \in SUBSET DOMAIN s /\ {k} \in SUBSET DOMAIN s
        /\ R \in SUBSET DOMAIN cache /\ {k} \in SUBSET DOMAIN cache
    <3>1. DOMAIN s = 1 .. Len(s) BY <1>1
    <3>2. DOMAIN s = 1 .. n BY <1>4, <3>1
    <3>3. R \cup {k} = 1 .. n OBVIOUS
    <3> QED BY <1>0, <3>2, <3>3
  <2>4. s[k] = e /\ \A j \in R : s[j] = cache[j] BY <1>4, <2>2
  <2> HIDE DEF R
  <2>5. Api!SizeOf(s, R) = Api!SizeOf(cache, R) BY <2>4, SizeSame
  <2>6. Api!SizeOf(s, {k}) = b BY <1>1, <2>3, <2>4, SizeOfOne DEF b
  <2>7. PICK p \in Nat, q \in Nat : p = Api!SizeOf(cache, R) /\ q = Api!SizeOf(cache, {k})
    BY <1>0, <2>3, SizeNat
  <2>8. Api!SizeOf(s, DOMAIN s) = p + b BY <1>1, <2>3, <2>5, <2>6, <2>7, SizeOfBoth
  <2>9. bytes = p + q
    <3>1. Api!SizeOf(cache, R \cup {k}) = p + q BY <1>0, <2>3, <2>7, SizeOfBoth
    <3>2. R \cup {k} = 1 .. n BY <1>0, <2>3
    <3> QED BY <1>0, <3>1, <3>2
  <2>10. Api!At(e.key) = {k} BY <1>0, <2>2 DEF Api!At
  <2>11. bytes - Api!SizeOf(cache, Api!At(e.key)) + b = p + b
    <3>1. Api!SizeOf(cache, Api!At(e.key)) = q BY <2>7, <2>10
    <3>2. (p + q) - q + b = p + b BY <1>2, <2>7
    <3> QED BY <2>9, <3>1, <3>2
  <2>12. ASSUME NEW i \in DOMAIN s, NEW j \in DOMAIN s, s[i].key = s[j].key PROVE i = j
    <3>1. i \in 1 .. n /\ j \in 1 .. n BY <1>0, <2>3
    <3>2. s[i].key = cache[i].key /\ s[j].key = cache[j].key BY <1>4, <3>1
    <3> QED BY <1>0, <2>12, <3>1, <3>2 DEF KeysApart
  <2> QED BY <2>8, <2>11, <2>12 DEF s, b
<1> QED BY <1>1, <1>3, <1>4

LEMMA StoredSize ==
    ASSUME ApiValues, ServedInv, SizeInv, NEW e \in Entry,
           Api!Trim(Api!Put(e), bytes - Api!SizeOf(cache, Api!At(e.key)) + Api!Size(e.body))
    PROVE  SizeInv'
<1> DEFINE s == Api!Put(e)
           size == bytes - Api!SizeOf(cache, Api!At(e.key)) + Api!Size(e.body)
<1>1. s \in Seq(Entry) BY PutCache DEF ServedInv, ApiTypes
<1>2. size = Api!SizeOf(s, DOMAIN s) /\ \A i, j \in DOMAIN s : s[i].key = s[j].key => i = j
  BY PutSize
<1>3. Api!Trim(s, size) OBVIOUS
<1> HIDE DEF s, size
<1>4. PICK n \in 0 .. Len(s) :
        /\ cache' \in Seq(Entry) /\ Len(cache') = Len(s) - n
        /\ \A j \in 1 .. Len(s) - n : cache'[j] = s[n + j]
        /\ bytes' = size - Api!SizeOf(s, 1 .. n)
        /\ n = Len(s) \/ (Len(s) - n <= MaxEntries /\ bytes' <= MaxBytes)
  BY <1>1, <1>3, TrimmedCache
<1> DEFINE I == 1 .. Len(s) - n
           J == n + 1 .. Len(s)
           f == [j \in I |-> n + j]
<1>5. /\ Len(s) \in Nat /\ n \in Nat /\ DOMAIN s = (1 .. n) \cup J /\ (1 .. n) \cap J = {}
      /\ 1 .. n \in SUBSET DOMAIN s /\ J \in SUBSET DOMAIN s /\ DOMAIN cache' = I
  <2>1. Len(s) \in Nat /\ DOMAIN s = 1 .. Len(s) BY <1>1
  <2>2. n \in Nat /\ n <= Len(s) BY <1>4, <2>1
  <2>3. 1 .. Len(s) = (1 .. n) \cup J /\ (1 .. n) \cap J = {} BY <2>1, <2>2
  <2>4. DOMAIN cache' = I BY <1>4
  <2> HIDE DEF I, J
  <2> QED BY <2>1, <2>2, <2>3, <2>4
<1>6. f \in Bijection(I, J)
  <2>1. f \in [I -> J] /\ \A i, j \in I : f[i] = f[j] => i = j BY <1>5
  <2>2. ASSUME NEW k \in J PROVE \E j \in I : f[j] = k
    <3>1. k - n \in I /\ n + (k - n) = k BY <1>5
    <3>2. f[k - n] = k BY <3>1
    <3> QED BY <3>1, <3>2
  <2> HIDE DEF f, I, J
  <2> QED BY <2>1, <2>2 DEF Bijection, Injection, Surjection, IsInjective
<1>7. \A j \in I : cache'[j] = s[f[j]] /\ f[j] \in DOMAIN s BY <1>1, <1>4, <1>5
<1>8. \A i, j \in I : f[i] = f[j] => i = j BY <1>5
<1> HIDE DEF f, I, J
<1>9. Api!SizeOf(s, J) = Api!SizeOf(cache', I) BY <1>4, <1>5, <1>6, <1>7, SizeMoved
<1>10. bytes' = Api!SizeOf(cache', I)
  <2>1. PICK p \in Nat, q \in Nat : p = Api!SizeOf(s, 1 .. n) /\ q = Api!SizeOf(s, J)
    BY <1>1, <1>5, SizeNat
  <2>2. Api!SizeOf(s, (1 .. n) \cup J) = p + q BY <1>1, <1>5, <2>1, SizeOfBoth
  <2>3. size = p + q BY <1>2, <1>5, <2>2
  <2>4. (p + q) - p = q OBVIOUS
  <2>5. bytes' = (p + q) - p BY <1>4, <2>1, <2>3
  <2> QED BY <1>9, <2>1, <2>4, <2>5
<1>11. KeysApart' BY <1>2, <1>5, <1>7, <1>8 DEF KeysApart
<1>12. Len(cache') <= MaxEntries /\ bytes' <= MaxBytes
  <2>1. CASE n = Len(s)
    <3>1. Len(cache') = 0 /\ I = {} BY <1>4, <1>5, <2>1 DEF I
    <3>2. bytes' = 0 BY <1>10, <3>1, SizeOfNone
    <3> QED BY <3>1, <3>2 DEF ApiValues
  <2>2. CASE Len(s) - n <= MaxEntries /\ bytes' <= MaxBytes BY <1>4, <2>2
  <2> QED BY <1>4, <2>1, <2>2
<1>13. Api!SizeFits' BY <1>5, <1>10, <1>12 DEF Api!SizeFits
<1> QED BY <1>11, <1>13 DEF SizeInv

LEMMA SizeNext ==
    ASSUME ApiValues, ServedInv, SizeInv, [Api!Next]_(Api!vars)
    PROVE  SizeInv'
<1>0. cache \in Seq(Entry) BY DEF ServedInv, ApiTypes
<1>1. ASSUME UNCHANGED <<cache, bytes>> PROVE SizeInv'
  BY <1>1 DEF SizeInv, KeysApart, Api!SizeFits
<1>2. ASSUME NEW c \in Calls, NEW u \in Urls, Api!GetFresh(c, u) \/ Api!GetStale(c, u)
      PROVE  SizeInv'
  <2>1. PICK i \in Api!At(Api!Key(u)) : Api!Touch(i) BY <1>2 DEF Api!GetFresh, Api!GetStale
  <2>2. i \in DOMAIN cache BY DEF Api!At
  <2>3. bytes' = bytes BY <1>2 DEF Api!GetFresh, Api!GetStale
  <2> QED BY <2>1, <2>2, <2>3, TouchedSize
<1>3. ASSUME NEW c \in Calls, NEW u \in Urls, Api!GetMissing(c, u) PROVE SizeInv'
  BY <1>1, <1>3 DEF Api!GetMissing
<1>4. ASSUME NEW r \in requests, Api!Answer(r) \/ Api!Fails(r) PROVE SizeInv'
  BY <1>1, <1>4 DEF Api!Answer, Api!Fails
<1>5. ASSUME NEW r \in requests, Api!Arrives(r) PROVE SizeInv'
  <2>1. PICK e : e = [key |-> r.key, body |-> r.body, age |-> "fresh"] OBVIOUS
  <2>2. r \in GetRequest /\ r.body \in Body BY <1>5 DEF ServedInv, ApiTypes, GetRequest, Api!Arrives
  <2>3. e \in Entry /\ e.key = r.key /\ e.body = r.body BY <2>1, <2>2 DEF GetRequest, Entry
  <2>4. Api!Trim(Api!Put(e), bytes - Api!SizeOf(cache, Api!At(e.key)) + Api!Size(e.body))
    BY <1>5, <2>1, <2>3 DEF Api!Arrives, Api!Store
  <2> QED BY <2>3, <2>4, StoredSize
<1>6. ASSUME NEW c \in Calls, Api!Change(c) \/ Api!Changes(c) \/ Api!ChangeFails(c) PROVE SizeInv'
  BY <1>1, <1>6 DEF Api!Change, Api!Changes, Api!ChangeFails
<1>7. ASSUME Api!Clear PROVE SizeInv'
  <2>1. cache' = <<>> /\ bytes' = 0 BY <1>7 DEF Api!Clear
  <2>2. DOMAIN cache' = {} /\ Len(cache') = 0 BY <2>1
  <2>3. Api!SizeOf(cache', DOMAIN cache') = 0 BY <2>2, SizeOfNone
  <2> QED BY <2>1, <2>2, <2>3 DEF SizeInv, KeysApart, ApiValues, Api!SizeFits
<1>8. ASSUME NEW i \in DOMAIN cache, Api!Ages(i) PROVE SizeInv'
  <2>1. cache' = [cache EXCEPT ![i].age = IF @ = "fresh" THEN "stale" ELSE "expired"] /\ bytes' = bytes
    BY <1>8 DEF Api!Ages
  <2>2. DOMAIN cache' = DOMAIN cache /\ Len(cache') = Len(cache) BY <1>0, <2>1
  <2>3. ASSUME NEW j \in DOMAIN cache
        PROVE  cache'[j].key = cache[j].key /\ cache'[j].body = cache[j].body
    <3>1. cache[j] \in Entry BY <1>0
    <3> QED BY <2>1, <3>1 DEF Entry
  <2>4. Api!SizeOf(cache', DOMAIN cache) = Api!SizeOf(cache, DOMAIN cache) BY <2>3, SizeSame
  <2> QED BY <2>1, <2>2, <2>3, <2>4 DEF SizeInv, KeysApart, Api!SizeFits
<1>9. CASE UNCHANGED Api!vars BY <1>1, <1>9 DEF Api!vars
<1> QED BY <1>2, <1>3, <1>4, <1>5, <1>6, <1>7, <1>8, <1>9
    DEF Api!Next, Api!Changed, Api!SetSession

LEMMA SizeInit == ASSUME ApiValues, Api!Init PROVE SizeInv
<1>1. cache = <<>> /\ bytes = 0 BY DEF Api!Init
<1>2. DOMAIN cache = {} /\ Len(cache) = 0 BY <1>1
<1>3. Api!SizeOf(cache, DOMAIN cache) = 0 BY <1>2, SizeOfNone
<1> QED BY <1>1, <1>2, <1>3 DEF SizeInv, KeysApart, ApiValues, Api!SizeFits

\* The size the cache trims by is the size of what it holds, whatever was cleared under
\* an answer on its way, and it fits the bounds (storeApiCacheEntry, trimApiGetCache).
THEOREM CacheFitsItsBounds == ApiValues => (Api!Spec => []Api!SizeFits)
<1> SUFFICES ASSUME ApiValues PROVE Api!Spec => []Api!SizeFits OBVIOUS
<1>1. Api!Init => ServedInv /\ SizeInv BY ServedInit, SizeInit
<1>2. ServedInv /\ SizeInv /\ [Api!Next]_(Api!vars) => (ServedInv /\ SizeInv)'
  BY ServedNext, SizeNext
<1>3. SizeInv => Api!SizeFits BY DEF SizeInv
<1> QED BY <1>1, <1>2, <1>3, PTL DEF Api!Spec
=============================================================================
