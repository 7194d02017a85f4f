---------------------------- MODULE ClientProofs ----------------------------
(***************************************************************************)
(* Proofs about MatrixSession, for any number of pages and any bounds,     *)
(* with and without faults.  Most steps change one page's memory only:     *)
(* what is invariant about a page is an operator on its record, on the     *)
(* marker, the records in storage and the server.                          *)
(*                                                                         *)
(* Then, from the proofs about the other components, that the behaviours   *)
(* of MCClient, whose pages and records are any, have their properties.    *)
(***************************************************************************)
EXTENDS MCClient, Sequences, FiniteSets, TLAPS

Early == {"clean", "removing", "acknowledging", "cleaned"}
Keyed == {"load", "whoami", "refreshing", "login", "save", "saving", "start", "ready"}
Ending == {"failing", "draining"}
Late == {"revoke", "clean", "removing", "acknowledging", "cleaned"}

\* Where the code of a page is, and what it holds there.
Places(s) ==
    /\ s.stage # "begin" => s.chain # <<>> /\ ~s.shared
    /\ s.stage = "begin" => s.opening # "failed" /\ (s.shared <=> s.opening # "none")
    /\ s.stage = "acquire" => s.opening = "none" /\ ~s.held
    /\ s.stage = "check" => s.opening = "none" /\ s.held /\ ~s.key
    /\ s.stage = "drain" => s.opening = "ready" /\ s.closed
    /\ s.stage \in Late => /\ s.held /\ s.writes = {}
                           /\ \/ s.opening = "ready" /\ s.closed
                              \/ s.opening = "none" /\ ~s.key
    /\ s.opening \in {"none", "asked", "failed"} => s.stage \in Late \cup {"check"} \/ ~s.held
    /\ s.opening \in Early => s.held /\ ~s.key
    /\ s.opening \in Keyed => s.held /\ s.key
    /\ s.key => s.held /\ s.opening \in Keyed \cup Ending

\* What a page has in memory at these places.
Holdings(s) ==
    /\ ~s.key => /\ s.writes = {} /\ s.refresh = "idle" /\ s.unsaved = None /\ s.spent = {}
                 /\ s.creds # None => s.held /\ s.opening = "none"
    /\ s.opening \in {"load", "login"} => s.creds = None
    /\ s.opening \in {"whoami", "refreshing", "save", "saving", "start", "ready"} => s.creds # None
    /\ s.refresh # "idle" => s.creds # None
    /\ s.refresh # "idle" \/ s.unsaved # None \/ s.spent # {}
           => s.opening \in {"refreshing", "start", "ready"} \cup Ending
    /\ s.refresh \in {"persist", "persisting", "persisted"} => s.unsaved # None
    /\ s.refresh = "rotate" => s.unsaved = None

\* A page has at most one write of the credentials, of what it waits to save.
Saves(s) ==
    /\ \A w \in s.writes : w.kind = "credentials" =>
          \/ s.opening = "saving" /\ s.refresh = "idle" /\ w.rec.token = s.creds.token
          \/ s.refresh = "persisting" /\ w.rec.token = s.unsaved.token
    /\ \A v, w \in s.writes : v.kind = w.kind => v = w

\* The generations of what a page holds, and what a clean-up has done.
Generations(s, m, d) ==
    /\ s.held => s.gen <= m.gen
    /\ \A w \in s.writes : w.rec.gen = s.gen
    /\ s.key /\ s.creds # None => s.creds.gen = s.gen
    /\ s.key /\ s.unsaved # None => s.unsaved.gen = s.gen
    /\ s.writes # {} /\ s.gen # m.gen => m.pending
    /\ s.opening \in {"cleaned", "load"} /\ s.gen = m.gen => ~m.pending
    /\ s.opening \in {"removing", "acknowledging"} =>
          s.clean # None /\ s.gen <= s.clean /\ s.clean <= m.gen
    /\ s.opening = "acknowledging" \/ s.stage = "acknowledging" => \A k \in Kinds : d[k] = None

\* The credentials in storage are those in use, or refreshed ones to come.
Stored(s, d) ==
    /\ s.opening \in {"whoami", "refreshing", "start", "ready"} /\ s.stage \in {"begin", "wait", "drain", "revoke"}
          => /\ d.credentials # None
             /\ \/ d.credentials.token = s.creds.token /\ s.refresh # "persisted"
                \/ s.unsaved # None /\ d.credentials.token = s.unsaved.token

\* The tokens that were replaced are older than those to be used.
Tokens(s, v) ==
    /\ \A t \in s.spent : t < v.token
    /\ s.unsaved = None /\ s.creds # None => s.creds.token \notin s.spent
    /\ s.unsaved # None => \A t \in s.spent : t < s.unsaved.token

PageInv(s, m, d, v) ==
    /\ Places(s) /\ Holdings(s) /\ Saves(s)
    /\ Generations(s, m, d) /\ Stored(s, d) /\ Tokens(s, v)

Owners == \A p \in Pages : page[p].held <=> lock = p

IInv ==
    /\ TypeOK
    /\ Owners
    /\ NothingOutlivesLogout
    /\ \A p \in Pages : PageInv(page[p], marker, disk, server)

-----------------------------------------------------------------------------
(* What holds of a page that does not own the store, and of one step.      *)

LEMMA Strangers ==
    ASSUME NEW s \in PageRecords, NEW m, NEW d, NEW v,
           Places(s), Holdings(s), ~s.held
    PROVE  PageInv(s, m, d, v)
<1>1. /\ ~s.key /\ s.writes = {} /\ s.refresh = "idle" /\ s.spent = {}
      /\ s.unsaved = None /\ s.creds = None
  BY DEF Places, Holdings, PageRecords
<1>2. Saves(s)
  BY <1>1 DEF Saves
<1>3. s.opening \notin Early \cup Keyed /\ s.stage \notin Late
  BY DEF Places
<1>4. Generations(s, m, d)
  BY <1>1, <1>3 DEF Generations, Early, Keyed, Late
<1>5. Stored(s, d)
  BY <1>3 DEF Stored, Keyed
<1>6. Tokens(s, v)
  BY <1>1 DEF Tokens
<1> QED
  BY <1>2, <1>4, <1>5, <1>6 DEF PageInv

LEMMA PageStep ==
    ASSUME IInv, NEW p \in Pages, NEW s \in PageRecords, Become(p, s),
           marker' \in [gen : Nat, pending : BOOLEAN],
           lock' \in Pages \cup {None},
           disk' \in [Kinds -> Records \cup {None}],
           server' \in [session : Nat, logins : Nat, token : Nat],
           NothingOutlivesLogout',
           s.held <=> lock' = p,
           PageInv(s, marker', disk', server'),
           \A q \in Pages \ {p} : (page[q].held <=> lock' = q) /\ PageInv(page[q], marker', disk', server')
    PROVE  IInv'
<1>1. page \in [Pages -> PageRecords]
  BY DEF IInv, TypeOK
<1>2. page' \in [Pages -> PageRecords] /\ page'[p] = s /\ \A q \in Pages \ {p} : page'[q] = page[q]
  BY <1>1 DEF Become
<1>3. \A q \in Pages : (page'[q].held <=> lock' = q) /\ PageInv(page'[q], marker', disk', server')
  BY <1>2
<1> QED
  BY <1>2, <1>3 DEF IInv, TypeOK, Owners

\* A step of one page that keeps the store or is without it.
LEMMA LocalStep ==
    ASSUME IInv, NEW p \in Pages, NEW s \in PageRecords, Become(p, s),
           UNCHANGED <<marker, lock, disk, server>>,
           s.held = page[p].held,
           PageInv(s, marker, disk, server)
    PROVE  IInv'
<1>1. marker' = marker /\ lock' = lock /\ disk' = disk /\ server' = server
  OBVIOUS
<1>2. NothingOutlivesLogout'
  BY <1>1 DEF IInv, NothingOutlivesLogout
<1>3. \A q \in Pages : (page[q].held <=> lock' = q) /\ PageInv(page[q], marker', disk', server')
  BY <1>1 DEF IInv, Owners
<1> QED
  BY <1>1, <1>2, <1>3, PageStep DEF IInv, TypeOK

LEMMA InvalidateKeeps ==
    ASSUME NEW s \in PageRecords, NEW m, NEW d, NEW v, PageInv(s, m, d, v)
    PROVE  LET t == Invalidate(s)
           IN  t \in PageRecords /\ PageInv(t, m, d, v) /\ t.held = s.held
               /\ t.opening = s.opening /\ t.refresh = s.refresh /\ t.writes = s.writes
<1> DEFINE t == Invalidate(s)
<1>1. t \in PageRecords
  <2> DEFINE closed == s.closed \/ (s.calls /\ s.key)
             chain == IF s.calls THEN Append(s.chain, "release") ELSE s.chain
  <2>1. closed \in BOOLEAN
    OBVIOUS
  <2>2. s.chain \in Seq({"release", "logout"})
    BY DEF PageRecords
  <2>3. chain \in Seq({"release", "logout"})
    BY <2>2
  <2>4. t = s \/ t = [s EXCEPT !.retired = TRUE, !.closed = closed, !.chain = chain]
    BY DEF Invalidate
  <2> HIDE DEF closed, chain, t
  <2> QED
    BY <2>1, <2>3, <2>4 DEF PageRecords
<1>2. /\ t.opening = s.opening /\ t.stage = s.stage /\ t.refresh = s.refresh
      /\ t.shared = s.shared /\ t.held = s.held /\ t.key = s.key /\ t.gen = s.gen
      /\ t.clean = s.clean /\ t.writes = s.writes /\ t.spent = s.spent
      /\ t.creds = s.creds /\ t.unsaved = s.unsaved
      /\ (s.closed => t.closed) /\ (s.chain # <<>> => t.chain # <<>>)
  BY DEF Invalidate, PageRecords
<1>3. Places(t)
  BY <1>2 DEF PageInv, Places
<1>4. Holdings(t)
  BY <1>2 DEF PageInv, Holdings
<1>5. Saves(t) /\ Generations(t, m, d) /\ Stored(t, d) /\ Tokens(t, v)
  BY <1>2 DEF PageInv, Saves, Generations, Stored, Tokens
<1> QED
  BY <1>1, <1>2, <1>3, <1>4, <1>5 DEF PageInv

LEMMA FailOpening ==
    ASSUME NEW s \in PageRecords, NEW m, NEW d, NEW v, PageInv(s, m, d, v),
           s.opening \notin {"none", "saving", "ready", "failed"}
    PROVE  LET t == [s EXCEPT !.opening = "failing"]
           IN  t \in PageRecords /\ PageInv(t, m, d, v) /\ t.held = s.held
<1> DEFINE t == [s EXCEPT !.opening = "failing"]
<1>1. t \in PageRecords
  BY DEF PageRecords, Phases
<1>2. t.opening = "failing" /\ t.stage = s.stage /\ t.refresh = s.refresh
      /\ t.shared = s.shared /\ t.held = s.held /\ t.key = s.key /\ t.gen = s.gen
      /\ t.clean = s.clean /\ t.writes = s.writes /\ t.spent = s.spent
      /\ t.creds = s.creds /\ t.unsaved = s.unsaved
      /\ t.closed = s.closed /\ t.chain = s.chain
  BY DEF PageRecords
<1>3. s.stage \in {"begin", "wait"}
  BY DEF PageInv, Places, PageRecords, Stages, Late
<1>4. Places(t)
  BY <1>2, <1>3 DEF PageInv, Places, Early, Keyed, Ending, Late
<1>5. Holdings(t)
  BY <1>2 DEF PageInv, Holdings, Ending
<1>6. Saves(t)
  BY <1>2 DEF PageInv, Saves
<1>7. Generations(t, m, d)
  BY <1>2 DEF PageInv, Generations
<1>8. Stored(t, d) /\ Tokens(t, v)
  BY <1>2 DEF PageInv, Stored, Tokens
<1> QED
  BY <1>1, <1>2, <1>4, <1>5, <1>6, <1>7, <1>8 DEF PageInv

LEMMA NoticedKeeps ==
    ASSUME IInv, NEW p \in Pages
    PROVE  LET t == Noticed(p)
           IN  /\ t \in PageRecords /\ PageInv(t, marker, disk, server)
               /\ t.held = page[p].held /\ t.opening = page[p].opening
               /\ t.refresh = page[p].refresh /\ t.writes = page[p].writes
<1>1. page[p] \in PageRecords /\ PageInv(page[p], marker, disk, server)
  BY DEF IInv, TypeOK
<1>2. Noticed(p) \in {page[p], Invalidate(page[p])}
  BY DEF Noticed
<1> QED
  BY <1>1, <1>2, InvalidateKeeps

\* A later token at the server changes nothing for a page.
LEMMA ServerUp ==
    ASSUME NEW s \in PageRecords, NEW m, NEW d,
           NEW v \in [session : Nat, logins : Nat, token : Nat],
           NEW w \in [session : Nat, logins : Nat, token : Nat],
           PageInv(s, m, d, v), v.token <= w.token
    PROVE  PageInv(s, m, d, w)
<1>1. s.spent \subseteq Nat
  BY DEF PageRecords
<1>2. Tokens(s, w)
  BY <1>1 DEF PageInv, Tokens
<1> QED
  BY <1>2 DEF PageInv

-----------------------------------------------------------------------------
(* getHandle *)

LEMMA StartOpeningKeeps ==
    ASSUME IInv, NEW p \in Pages, StartOpening(p)
    PROVE  IInv'
<1> DEFINE s == page[p]
           t == [s EXCEPT !.opening = "asked", !.shared = TRUE]
<1>1. s \in PageRecords /\ PageInv(s, marker, disk, server)
  BY DEF IInv, TypeOK
<1>2. Become(p, t) /\ UNCHANGED <<marker, lock, disk, server>> /\ s.opening = "none" /\ s.chain = <<>>
  BY DEF StartOpening
<1> HIDE DEF s
<1>3. t \in PageRecords /\ t.held = s.held
  BY <1>1 DEF PageRecords, Phases
<1>4. s.stage = "begin"
  BY <1>1, <1>2 DEF PageInv, Places
<1>5. Places(t) /\ Holdings(t)
  BY <1>1, <1>2, <1>4 DEF PageInv, Places, Holdings, PageRecords, Early, Keyed, Ending, Late
<1>6. Saves(t) /\ Generations(t, marker, disk) /\ Stored(t, disk) /\ Tokens(t, server)
  BY <1>1, <1>2, <1>4 DEF PageInv, Saves, Generations, Stored, Tokens, PageRecords
<1>7. PageInv(t, marker, disk, server)
  BY <1>5, <1>6 DEF PageInv
<1> QED
  BY <1>2, <1>3, <1>7, LocalStep DEF s

LEMMA AcquireToOpenKeeps ==
    ASSUME IInv, NEW p \in Pages, AcquireToOpen(p)
    PROVE  IInv'
<1> DEFINE s == page[p]
<1>1. s \in PageRecords /\ PageInv(s, marker, disk, server) /\ s.opening = "asked"
  BY DEF IInv, TypeOK, AcquireToOpen
<1>2. CASE lock = None /\ lock' = p /\ Become(p, [Lease(p, TRUE) EXCEPT !.opening = "clean"])
  <2> DEFINE t == [Lease(p, TRUE) EXCEPT !.opening = "clean"]
  <2>1. UNCHANGED <<marker, disk, server>>
    BY DEF AcquireToOpen
  <2>2. t = [s EXCEPT !.held = TRUE, !.retired = FALSE, !.calls = TRUE, !.gen = marker.gen, !.opening = "clean"]
    BY <1>1 DEF Lease, PageRecords
  <2>3. \A q \in Pages : ~page[q].held
    BY <1>2, NonePages DEF IInv, Owners
  <2>4. marker.gen \in Nat
    BY DEF IInv, TypeOK
  <2> HIDE DEF s, t
  <2>5. t \in PageRecords /\ t.held
    BY <1>1, <2>2, <2>4 DEF PageRecords, Phases
  <2>6. ~s.held
    BY <2>3 DEF s
  <2>7. /\ ~s.key /\ s.writes = {} /\ s.refresh = "idle" /\ s.spent = {}
        /\ s.unsaved = None /\ s.creds = None /\ s.stage \in {"begin", "wait"}
    BY <1>1, <2>6 DEF PageInv, Places, Holdings, PageRecords, Stages, Late
  <2>8. Places(t) /\ Holdings(t)
    BY <1>1, <2>2, <2>7 DEF PageInv, Places, Holdings, PageRecords, Early, Keyed, Ending, Late
  <2>9. Saves(t) /\ Generations(t, marker, disk) /\ Stored(t, disk) /\ Tokens(t, server)
    BY <1>1, <2>2, <2>4, <2>7 DEF Saves, Generations, Stored, Tokens, PageRecords
  <2>10. PageInv(t, marker', disk', server')
    BY <2>1, <2>8, <2>9 DEF PageInv
  <2>11. \A q \in Pages \ {p} : (page[q].held <=> lock' = q) /\ PageInv(page[q], marker', disk', server')
    BY <1>2, <2>1, <2>3 DEF IInv
  <2>12. NothingOutlivesLogout'
    BY <2>1 DEF IInv, NothingOutlivesLogout
  <2>13. Become(p, t)
    BY <1>2 DEF t
  <2> QED
    BY <1>2, <2>1, <2>5, <2>10, <2>11, <2>12, <2>13, PageStep DEF IInv, TypeOK
<1>3. CASE Become(p, [s EXCEPT !.opening = "failing"]) /\ UNCHANGED lock
  <2>1. UNCHANGED <<marker, lock, disk, server>>
    BY <1>3 DEF AcquireToOpen
  <2> QED
    BY <1>1, <1>3, <2>1, FailOpening, LocalStep
<1> QED
  BY <1>2, <1>3 DEF AcquireToOpen

LEMMA OpensKeeps ==
    ASSUME IInv, NEW p \in Pages, NEW from \in {"cleaned", "load", "start"}, NEW next \in PageRecords,
           Opens(p, from, next), next.held = page[p].held,
           Active(p) => PageInv(next, marker, disk, server)
    PROVE  IInv'
<1>1. UNCHANGED <<marker, lock, disk, server>> /\ page[p].opening = from
  BY DEF Opens
<1>2. CASE Active(p) /\ Become(p, next)
  BY <1>1, <1>2, LocalStep
<1>3. CASE Become(p, [Noticed(p) EXCEPT !.opening = "failing"])
  <2> DEFINE s == Noticed(p)
             t == [s EXCEPT !.opening = "failing"]
  <2>1. s \in PageRecords /\ PageInv(s, marker, disk, server) /\ s.held = page[p].held /\ s.opening = from
    BY <1>1, NoticedKeeps
  <2>2. Become(p, t)
    BY <1>3
  <2> HIDE DEF s
  <2>3. t \in PageRecords /\ PageInv(t, marker, disk, server) /\ t.held = page[p].held
    BY <2>1, FailOpening
  <2> QED
    BY <1>1, <2>2, <2>3, LocalStep
<1> QED
  BY <1>2, <1>3 DEF Opens

LEMMA OpenKeyKeeps ==
    ASSUME IInv, NEW p \in Pages, OpenKey(p)
    PROVE  IInv'
<1> DEFINE s == page[p]
           t == [s EXCEPT !.key = TRUE, !.closed = FALSE, !.opening = "load"]
<1>1. s \in PageRecords /\ PageInv(s, marker, disk, server)
  BY DEF IInv, TypeOK
<1>2. Opens(p, "cleaned", t) /\ s.opening = "cleaned"
  BY DEF OpenKey, Opens
<1> HIDE DEF s
<1>3. t \in PageRecords /\ t.held = s.held
  BY <1>1 DEF PageRecords, Phases
<1>4. /\ s.held /\ ~s.key /\ s.writes = {} /\ s.refresh = "idle" /\ s.unsaved = None
      /\ s.spent = {} /\ s.creds = None /\ s.stage \in {"begin", "wait"}
  BY <1>1, <1>2 DEF PageInv, Places, Holdings, PageRecords, Stages, Early, Late
<1>5. Places(t) /\ Holdings(t)
  BY <1>1, <1>2, <1>4 DEF PageInv, Places, Holdings, PageRecords, Early, Keyed, Ending, Late
<1>6. Saves(t) /\ Generations(t, marker, disk) /\ Stored(t, disk) /\ Tokens(t, server)
  BY <1>1, <1>2, <1>4 DEF PageInv, Saves, Generations, Stored, Tokens, PageRecords
<1>7. PageInv(t, marker, disk, server)
  BY <1>5, <1>6 DEF PageInv
<1> QED
  BY <1>2, <1>3, <1>7, OpensKeeps DEF s

\* What an owner finds in storage after the clean-up is of its own generation.
LEMMA LoadCredentialsKeeps ==
    ASSUME IInv, NEW p \in Pages, LoadCredentials(p)
    PROVE  IInv'
<1> DEFINE s == page[p]
           c == disk.credentials
           t == [s EXCEPT !.creds = c, !.opening = IF c = None THEN "login" ELSE "whoami"]
<1>1. s \in PageRecords /\ PageInv(s, marker, disk, server) /\ c \in Records \cup {None}
  BY DEF IInv, TypeOK, Kinds
<1>2. Opens(p, "load", t) /\ s.opening = "load"
  BY DEF LoadCredentials, Opens
<1> HIDE DEF s
<1>3. t \in PageRecords /\ t.held = s.held
  BY <1>1 DEF PageRecords, Phases
<1>4. /\ s.held /\ s.key /\ s.refresh = "idle" /\ s.unsaved = None
      /\ s.spent = {} /\ s.creds = None /\ s.stage \in {"begin", "wait"}
  BY <1>1, <1>2 DEF PageInv, Places, Holdings, PageRecords, Stages, Early, Keyed, Ending, Late
<1>5. Places(t) /\ Holdings(t)
  BY <1>1, <1>2, <1>4 DEF PageInv, Places, Holdings, PageRecords, Early, Keyed, Ending, Late
<1>6. Active(p) /\ c # None => c.gen = s.gen
  <2>1. Active(p) => ~marker.pending /\ s.gen = marker.gen
    BY <1>1, <1>2 DEF Active, PageInv, Generations, s
  <2>2. ~marker.pending /\ c # None => c.gen = marker.gen
    BY DEF IInv, NothingOutlivesLogout, Kinds
  <2> QED
    BY <2>1, <2>2
<1>7. Saves(t)
  BY <1>1, <1>2, <1>4 DEF PageInv, Saves, PageRecords
<1>8. Active(p) => Generations(t, marker, disk)
  BY <1>1, <1>2, <1>4, <1>6 DEF PageInv, Generations, PageRecords
<1>9. Stored(t, disk) /\ Tokens(t, server)
  BY <1>1, <1>2, <1>4 DEF PageInv, Stored, Tokens, PageRecords
<1>10. Active(p) => PageInv(t, marker, disk, server)
  BY <1>5, <1>7, <1>8, <1>9 DEF PageInv
<1> QED
  BY <1>2, <1>3, <1>10, OpensKeeps DEF s

\* A step of one page and of the server, whose tokens only grow.
LEMMA ServerStep ==
    ASSUME IInv, NEW p \in Pages, NEW s \in PageRecords, Become(p, s),
           UNCHANGED <<marker, lock, disk>>,
           server' \in [session : Nat, logins : Nat, token : Nat],
           server.token <= server'.token,
           s.held = page[p].held,
           PageInv(s, marker, disk, server')
    PROVE  IInv'
<1>1. marker' = marker /\ lock' = lock /\ disk' = disk
  OBVIOUS
<1>2. NothingOutlivesLogout'
  BY <1>1 DEF IInv, NothingOutlivesLogout
<1>3. server \in [session : Nat, logins : Nat, token : Nat] /\ page \in [Pages -> PageRecords]
  BY DEF IInv, TypeOK
<1>4. PageInv(s, marker', disk', server')
  BY <1>1
<1>5. \A q \in Pages : (page[q].held <=> lock' = q) /\ PageInv(page[q], marker', disk', server')
  <2> TAKE q \in Pages
  <2>1. page[q] \in PageRecords /\ PageInv(page[q], marker, disk, server) /\ (page[q].held <=> lock = q)
    BY <1>3 DEF IInv, Owners
  <2>2. PageInv(page[q], marker, disk, server')
    BY <1>3, <2>1, ServerUp
  <2> QED
    BY <1>1, <2>1, <2>2
<1>6. marker' \in [gen : Nat, pending : BOOLEAN] /\ lock' \in Pages \cup {None}
      /\ disk' \in [Kinds -> Records \cup {None}]
  BY <1>1 DEF IInv, TypeOK
<1>7. s.held <=> lock' = p
  BY <1>1 DEF IInv, Owners
<1> QED
  BY <1>2, <1>4, <1>5, <1>6, <1>7, PageStep

\* An opening that fails, with or without a check that found the lease lost.
LEMMA FailStep ==
    ASSUME IInv, NEW p \in Pages, NEW s \in {page[p], Noticed(p)},
           Become(p, [s EXCEPT !.opening = "failing"]),
           page[p].opening \notin {"none", "saving", "ready", "failed"},
           UNCHANGED <<marker, lock, disk>>,
           server' \in [session : Nat, logins : Nat, token : Nat],
           server.token <= server'.token
    PROVE  IInv'
<1> DEFINE t == [s EXCEPT !.opening = "failing"]
<1>1. s \in PageRecords /\ PageInv(s, marker, disk, server)
      /\ s.held = page[p].held /\ s.opening = page[p].opening
  BY NoticedKeeps DEF IInv, TypeOK
<1>2. t \in PageRecords /\ PageInv(t, marker, disk, server) /\ t.held = page[p].held
  BY <1>1, FailOpening
<1>3. server \in [session : Nat, logins : Nat, token : Nat]
  BY DEF IInv, TypeOK
<1> HIDE DEF t
<1>4. PageInv(t, marker, disk, server')
  BY <1>2, <1>3, ServerUp
<1>5. Become(p, t)
  BY DEF t
<1> QED
  BY <1>2, <1>4, <1>5, ServerStep

LEMMA FailHere ==
    ASSUME IInv, NEW p \in Pages, NEW s \in {page[p], Noticed(p)},
           Become(p, [s EXCEPT !.opening = "failing"]),
           page[p].opening \notin {"none", "saving", "ready", "failed"},
           UNCHANGED <<marker, lock, disk, server>>
    PROVE  IInv'
<1>1. server \in [session : Nat, logins : Nat, token : Nat]
  BY DEF IInv, TypeOK
<1>2. server' = server /\ server.token <= server.token
  BY <1>1
<1>3. server' \in [session : Nat, logins : Nat, token : Nat] /\ server.token <= server'.token
  BY <1>1, <1>2
<1> QED
  BY <1>3, FailStep

LEMMA WhoAmIKeeps ==
    ASSUME IInv, NEW p \in Pages, WhoAmI(p)
    PROVE  IInv'
<1> DEFINE s == page[p]
           t == [s EXCEPT !.opening = "start"]
           u == [s EXCEPT !.opening = "refreshing", !.refresh = "check"]
<1>1. s \in PageRecords /\ PageInv(s, marker, disk, server) /\ server \in [session : Nat, logins : Nat, token : Nat]
  BY DEF IInv, TypeOK
<1>2. s.opening = "whoami" /\ UNCHANGED <<marker, lock, disk, server>>
      /\ (Become(p, t) \/ Become(p, u) \/ Become(p, [s EXCEPT !.opening = "failing"]))
  BY DEF WhoAmI
<1>3. CASE Become(p, [s EXCEPT !.opening = "failing"])
  BY <1>2, <1>3, FailHere
<1> HIDE DEF s
<1>4. s.key /\ s.held /\ s.creds # None /\ s.stage \in {"begin", "wait"} /\ s.refresh = "idle"
      /\ s.unsaved = None /\ s.spent = {}
  BY <1>1, <1>2 DEF PageInv, Places, Holdings, PageRecords, Stages, Early, Keyed, Ending, Late
<1>5. CASE Become(p, t)
  <2>1. t \in PageRecords /\ t.held = s.held
    BY <1>1 DEF PageRecords, Phases
  <2>2. Places(t) /\ Holdings(t)
    BY <1>1, <1>2, <1>4 DEF PageInv, Places, Holdings, PageRecords, Early, Keyed, Ending, Late
  <2>3. Saves(t) /\ Generations(t, marker, disk) /\ Stored(t, disk) /\ Tokens(t, server)
    BY <1>1, <1>2, <1>4 DEF PageInv, Saves, Generations, Stored, Tokens, PageRecords
  <2> QED
    BY <1>2, <1>5, <2>1, <2>2, <2>3, LocalStep DEF s, PageInv
<1>6. CASE Become(p, u)
  <2>1. u \in PageRecords /\ u.held = s.held
    BY <1>1 DEF PageRecords, Phases, RefreshStages
  <2>2. Places(u) /\ Holdings(u)
    BY <1>1, <1>2, <1>4 DEF PageInv, Places, Holdings, PageRecords, Early, Keyed, Ending, Late
  <2>3. Saves(u) /\ Generations(u, marker, disk) /\ Stored(u, disk) /\ Tokens(u, server)
    BY <1>1, <1>2, <1>4 DEF PageInv, Saves, Generations, Stored, Tokens, PageRecords
  <2> QED
    BY <1>2, <1>6, <2>1, <2>2, <2>3, LocalStep DEF s, PageInv
<1> QED
  BY <1>2, <1>3, <1>5, <1>6

LEMMA LoginKeeps ==
    ASSUME IInv, NEW p \in Pages, Login(p)
    PROVE  IInv'
<1> DEFINE s == page[p]
           c == [session |-> server.logins + 1, token |-> server.token + 1]
           r == Record(p, c)
           t == [s EXCEPT !.creds = r, !.opening = "save"]
           next == [session |-> c.session, logins |-> c.session, token |-> c.token]
<1>1. s \in PageRecords /\ PageInv(s, marker, disk, server) /\ server \in [session : Nat, logins : Nat, token : Nat]
  BY DEF IInv, TypeOK
<1>2. s.opening = "login" /\ UNCHANGED <<marker, lock, disk>>
  BY DEF Login
<1>3. next \in [session : Nat, logins : Nat, token : Nat] /\ server.token <= next.token
      /\ next.token = server.token + 1
  BY <1>1
<1>4. r \in Records /\ r.gen = s.gen /\ r.token = server.token + 1
  BY <1>1 DEF Record, Records, PageRecords
<1>5. CASE server' = next /\ Become(p, t)
  <2> HIDE DEF s, r, next
  <2>1. t \in PageRecords /\ t.held = s.held
    BY <1>1, <1>4 DEF PageRecords, Phases
  <2>2. s.key /\ s.held /\ s.stage \in {"begin", "wait"} /\ s.refresh = "idle"
        /\ s.unsaved = None /\ s.spent = {}
    BY <1>1, <1>2 DEF PageInv, Places, Holdings, PageRecords, Stages, Early, Keyed, Ending, Late
  <2>3. r # None
    BY <1>4, NoneRecords DEF Records
  <2>4. Places(t) /\ Holdings(t)
    BY <1>1, <1>2, <2>2, <2>3 DEF PageInv, Places, Holdings, PageRecords, Early, Keyed, Ending, Late
  <2>5. Saves(t) /\ Generations(t, marker, disk) /\ Stored(t, disk) /\ Tokens(t, next)
    BY <1>1, <1>2, <1>4, <2>2 DEF PageInv, Saves, Generations, Stored, Tokens, PageRecords
  <2> QED
    BY <1>2, <1>3, <1>5, <2>1, <2>4, <2>5, ServerStep DEF s, PageInv
<1>6. CASE server' = next /\ Become(p, [s EXCEPT !.opening = "failing"])
  BY <1>2, <1>3, <1>6, FailStep
<1>7. CASE UNCHANGED server /\ Become(p, [Noticed(p) EXCEPT !.opening = "failing"])
  BY <1>2, <1>7, FailHere
<1> QED
  BY <1>5, <1>6, <1>7 DEF Login

LEMMA StartKeeps ==
    ASSUME IInv, NEW p \in Pages, Start(p)
    PROVE  IInv'
<1> DEFINE s == page[p]
           t == [s EXCEPT !.opening = "ready"]
<1>1. s \in PageRecords /\ PageInv(s, marker, disk, server)
  BY DEF IInv, TypeOK
<1>2. Opens(p, "start", t) /\ s.opening = "start"
  BY DEF Start, Opens
<1> HIDE DEF s
<1>3. t \in PageRecords /\ t.held = s.held
  BY <1>1 DEF PageRecords, Phases
<1>4. s.held /\ s.key /\ s.stage \in {"begin", "wait"}
  BY <1>1, <1>2 DEF PageInv, Places, PageRecords, Stages, Keyed, Late
<1>5. Places(t) /\ Holdings(t)
  BY <1>1, <1>2, <1>4 DEF PageInv, Places, Holdings, PageRecords, Early, Keyed, Ending, Late
<1>6. Saves(t) /\ Generations(t, marker, disk) /\ Stored(t, disk) /\ Tokens(t, server)
  BY <1>1, <1>2, <1>4 DEF PageInv, Saves, Generations, Stored, Tokens, PageRecords
<1> QED
  BY <1>2, <1>3, <1>5, <1>6, OpensKeeps DEF s, PageInv

LEMMA SaveLoginKeeps ==
    ASSUME IInv, NEW p \in Pages, SaveLogin(p)
    PROVE  IInv'
<1> DEFINE s == page[p]
           w == [kind |-> "credentials", rec |-> s.creds, running |-> FALSE]
           t == [s EXCEPT !.writes = @ \cup {w}, !.opening = "saving"]
<1>1. s \in PageRecords /\ PageInv(s, marker, disk, server)
  BY DEF IInv, TypeOK
<1>2. s.opening = "save" /\ UNCHANGED <<marker, lock, disk, server>>
  BY DEF SaveLogin
<1>3. CASE ~KeyActive(p)
  <2>1. Become(p, [Noticed(p) EXCEPT !.opening = "failing"])
    BY <1>3 DEF SaveLogin
  <2> QED
    BY <1>2, <2>1, FailHere
<1>4. CASE KeyActive(p)
  <2>1. Become(p, t)
    <3>1. [Write(p, "credentials", page[p].creds) EXCEPT !.opening = "saving"] = t
      BY <1>1 DEF Write, PageRecords
    <3> QED
      BY <1>4, <3>1 DEF SaveLogin
  <2>2. s.gen = marker.gen
    BY <1>4 DEF KeyActive, Active
  <2> HIDE DEF s
  <2>3. s.key /\ s.held /\ s.creds # None /\ s.stage \in {"begin", "wait"} /\ s.refresh = "idle"
        /\ s.unsaved = None /\ s.spent = {}
    BY <1>1, <1>2 DEF PageInv, Places, Holdings, PageRecords, Stages, Early, Keyed, Ending, Late
  <2>4. \A v \in s.writes : v.kind # "credentials"
    BY <1>1, <1>2, <2>3 DEF PageInv, Saves
  <2>5. w \in Writes
    BY <1>1, <2>3 DEF PageRecords, Writes, Kinds
  <2>6. t \in PageRecords /\ t.held = s.held
    BY <1>1, <2>5 DEF PageRecords, Phases
  <2>7. Places(t) /\ Holdings(t)
    BY <1>1, <1>2, <2>3 DEF PageInv, Places, Holdings, PageRecords, Early, Keyed, Ending, Late
  <2>8. Saves(t)
    <3>1. t.writes = s.writes \cup {w} /\ t.opening = "saving" /\ t.creds = s.creds
          /\ t.refresh = "idle" /\ t.unsaved = s.unsaved
      BY <1>1, <2>3 DEF PageRecords
    <3>2. Saves(s) /\ w.kind = "credentials" /\ w.rec.token = s.creds.token
      BY <1>1 DEF PageInv
    <3> HIDE DEF t, w
    <3> QED
      BY <2>4, <3>1, <3>2 DEF Saves
  <2>9. Generations(t, marker, disk)
    BY <1>1, <1>2, <2>2, <2>3 DEF PageInv, Generations, PageRecords
  <2>10. Stored(t, disk) /\ Tokens(t, server)
    BY <1>1, <1>2, <2>3 DEF PageInv, Stored, Tokens, PageRecords
  <2> QED
    BY <1>2, <2>1, <2>6, <2>7, <2>8, <2>9, <2>10, LocalStep DEF s, PageInv
<1> QED
  BY <1>3, <1>4

LEMMA CloseFailedKeeps ==
    ASSUME IInv, NEW p \in Pages, CloseFailed(p)
    PROVE  IInv'
<1> DEFINE s == page[p]
           closed == s.closed \/ s.key
           t == [s EXCEPT !.closed = closed, !.opening = "draining"]
<1>1. s \in PageRecords /\ PageInv(s, marker, disk, server)
  BY DEF IInv, TypeOK
<1>2. Become(p, t) /\ UNCHANGED <<marker, lock, disk, server>> /\ s.opening = "failing"
  BY DEF CloseFailed
<1>a. closed \in BOOLEAN
  OBVIOUS
<1> HIDE DEF s, closed
<1>3. t \in PageRecords /\ t.held = s.held
  BY <1>1, <1>a DEF PageRecords, Phases
<1>4. s.stage \in {"begin", "wait"}
  BY <1>1, <1>2 DEF PageInv, Places, PageRecords, Stages, Late
<1>5. Places(t) /\ Holdings(t)
  BY <1>1, <1>2, <1>4 DEF PageInv, Places, Holdings, PageRecords, Early, Keyed, Ending, Late
<1>6. Saves(t) /\ Generations(t, marker, disk) /\ Stored(t, disk) /\ Tokens(t, server)
  BY <1>1, <1>2, <1>4 DEF PageInv, Saves, Generations, Stored, Tokens, PageRecords
<1> QED
  BY <1>2, <1>3, <1>5, <1>6, LocalStep DEF s, PageInv

\* A page that lets the lock go, if it has it.
LEMMA LetGo ==
    ASSUME IInv, NEW p \in Pages, NEW s \in PageRecords, Become(p, s),
           UNCHANGED <<marker, disk, server>>,
           lock' = IF page[p].held THEN None ELSE lock,
           ~s.held, Places(s), Holdings(s)
    PROVE  IInv'
<1>1. marker' = marker /\ disk' = disk /\ server' = server
  OBVIOUS
<1>2. \A q \in Pages : (page[q].held <=> lock = q) /\ PageInv(page[q], marker, disk, server)
  BY DEF IInv, Owners
<1>3. PageInv(s, marker', disk', server')
  BY Strangers
<1>4. \A q \in Pages \ {p} : (page[q].held <=> lock' = q) /\ PageInv(page[q], marker', disk', server')
  BY <1>1, <1>2, NonePages
<1>5. ~s.held /\ lock' # p /\ lock' \in Pages \cup {None}
  BY <1>2, NonePages DEF IInv, TypeOK
<1>6. NothingOutlivesLogout'
  BY <1>1 DEF IInv, NothingOutlivesLogout
<1>7. /\ marker' \in [gen : Nat, pending : BOOLEAN]
      /\ disk' \in [Kinds -> Records \cup {None}]
      /\ server' \in [session : Nat, logins : Nat, token : Nat]
  BY <1>1 DEF IInv, TypeOK
<1> QED
  BY <1>3, <1>4, <1>5, <1>6, <1>7, PageStep

\* What is left of a page that has lost its lease.
Lost(chain, stage, opening) ==
    [NoPage EXCEPT !.chain = chain, !.stage = stage, !.opening = opening]

LEMMA ReleasedPage ==
    ASSUME NEW chain \in Seq({"release", "logout"}), NEW stage \in Stages,
           NEW opening \in {"none", "failed"}
    PROVE  LET t == Lost(chain, stage, opening)
           IN  /\ t \in PageRecords /\ Holdings(t)
               /\ ~t.held /\ ~t.shared /\ ~t.key /\ t.writes = {}
               /\ t.chain = chain /\ t.stage = stage /\ t.opening = opening
<1> DEFINE t == Lost(chain, stage, opening)
<1>1. /\ NoPage \in PageRecords
      /\ ~NoPage.held /\ ~NoPage.shared /\ ~NoPage.key /\ NoPage.writes = {}
      /\ NoPage.creds = None /\ NoPage.unsaved = None /\ NoPage.spent = {} /\ NoPage.refresh = "idle"
  BY DEF NoPage, PageRecords, Phases, RefreshStages, Stages
<1>2. t \in PageRecords
  BY <1>1 DEF PageRecords, Phases, Lost
<1>3. t.creds = None /\ t.unsaved = None /\ t.spent = {} /\ t.refresh = "idle"
      /\ ~t.held /\ ~t.shared /\ ~t.key /\ t.writes = {}
      /\ t.chain = chain /\ t.stage = stage /\ t.opening = opening
  BY <1>1 DEF PageRecords, Lost
<1> HIDE DEF t
<1>4. Holdings(t)
  BY <1>3 DEF Holdings
<1> QED
  BY <1>2, <1>3, <1>4 DEF t

LEMMA ReleaseFailedKeeps ==
    ASSUME IInv, NEW p \in Pages, ReleaseFailed(p)
    PROVE  IInv'
<1> DEFINE s == page[p]
           opening == IF s.shared THEN "none" ELSE "failed"
           t == Lost(s.chain, s.stage, opening)
<1>1. s \in PageRecords /\ PageInv(s, marker, disk, server)
  BY DEF IInv, TypeOK
<1>2. s.opening = "draining" /\ UNCHANGED <<marker, disk, server>>
      /\ lock' = IF s.held THEN None ELSE lock
  BY DEF ReleaseFailed
<1>3. Become(p, t)
  <2>1. [Released(page[p]) EXCEPT !.opening = opening] = t
    BY DEF Released, NoPage, Lost
  <2> QED
    BY <2>1 DEF ReleaseFailed
<1> HIDE DEF s
<1>4. s.chain \in Seq({"release", "logout"}) /\ s.stage \in Stages /\ opening \in {"none", "failed"}
  BY <1>1 DEF PageRecords
<1>5. s.stage \in {"begin", "wait"} /\ (s.shared <=> s.stage = "begin") /\ (s.stage = "wait" => s.chain # <<>>)
  BY <1>1, <1>2 DEF PageInv, Places, PageRecords, Stages, Late
<1> HIDE DEF t, opening
<1>6. /\ t \in PageRecords /\ Holdings(t)
      /\ ~t.held /\ ~t.shared /\ ~t.key /\ t.writes = {}
      /\ t.chain = s.chain /\ t.stage = s.stage /\ t.opening = opening
  BY <1>4, ReleasedPage DEF t
<1>7. Places(t)
  BY <1>5, <1>6 DEF Places, Early, Keyed, Ending, Late, opening
<1> QED
  BY <1>2, <1>3, <1>6, <1>7, LetGo DEF s

LEMMA OpeningKeeps ==
    ASSUME IInv, NEW p \in Pages, Opening(p)
    PROVE  IInv'
BY AcquireToOpenKeeps, OpenKeyKeeps, LoadCredentialsKeeps, WhoAmIKeeps, LoginKeeps,
   SaveLoginKeeps, StartKeeps, CloseFailedKeeps, ReleaseFailedKeeps DEF Opening

-----------------------------------------------------------------------------
(* createMatrixCredentialRefresher *)

\* A refresh that fails, with or without a check that found the lease lost.
LEMMA FailRefresh ==
    ASSUME IInv, NEW p \in Pages, NEW s \in {page[p], Noticed(p)},
           Become(p, [s EXCEPT !.refresh = "failing"]),
           page[p].refresh \notin {"idle", "persisting"},
           UNCHANGED <<marker, lock, disk>>,
           server' \in [session : Nat, logins : Nat, token : Nat],
           server.token <= server'.token
    PROVE  IInv'
<1> DEFINE t == [s EXCEPT !.refresh = "failing"]
<1>1. s \in PageRecords /\ PageInv(s, marker, disk, server)
      /\ s.held = page[p].held /\ s.refresh = page[p].refresh
  BY NoticedKeeps DEF IInv, TypeOK
<1>2. Become(p, t) /\ s.refresh \notin {"idle", "persisting"}
  BY <1>1
<1>3. t \in PageRecords /\ t.held = page[p].held
  BY <1>1 DEF PageRecords, RefreshStages
<1>4. Places(t) /\ Holdings(t)
  BY <1>1, <1>2 DEF PageInv, Places, Holdings, PageRecords
<1>5. Saves(t)
  BY <1>1, <1>2 DEF PageInv, Saves, PageRecords
<1>6. Generations(t, marker, disk) /\ Stored(t, disk) /\ Tokens(t, server)
  BY <1>1, <1>2 DEF PageInv, Generations, Stored, Tokens, PageRecords
<1>7. server \in [session : Nat, logins : Nat, token : Nat]
  BY DEF IInv, TypeOK
<1> HIDE DEF t
<1>8. PageInv(t, marker, disk, server')
  <2>1. PageInv(t, marker, disk, server)
    BY <1>4, <1>5, <1>6 DEF PageInv
  <2> QED
    BY <1>3, <1>7, <2>1, ServerUp
<1> QED
  BY <1>2, <1>3, <1>8, ServerStep

LEMMA FailRefreshHere ==
    ASSUME IInv, NEW p \in Pages, NEW s \in {page[p], Noticed(p)},
           Become(p, [s EXCEPT !.refresh = "failing"]),
           page[p].refresh \notin {"idle", "persisting"},
           UNCHANGED <<marker, lock, disk, server>>
    PROVE  IInv'
<1>1. server \in [session : Nat, logins : Nat, token : Nat]
  BY DEF IInv, TypeOK
<1>2. server' = server /\ server.token <= server.token
  BY <1>1
<1>3. server' \in [session : Nat, logins : Nat, token : Nat] /\ server.token <= server'.token
  BY <1>1, <1>2
<1> QED
  BY <1>3, FailRefresh

LEMMA RefreshKeeps ==
    ASSUME IInv, NEW p \in Pages, Refresh(p)
    PROVE  IInv'
<1> DEFINE s == page[p]
<1>1. s \in PageRecords /\ PageInv(s, marker, disk, server)
  BY DEF IInv, TypeOK
<1>2. PICK stale \in BOOLEAN : Become(p, [s EXCEPT !.refresh = "check", !.stale = stale])
  BY DEF Refresh
<1>3. s.opening \in {"start", "ready"} /\ s.refresh = "idle" /\ UNCHANGED <<marker, lock, disk, server>>
  BY DEF Refresh
<1> DEFINE t == [s EXCEPT !.refresh = "check", !.stale = stale]
<1> HIDE DEF s
<1>4. t \in PageRecords /\ t.held = s.held
  BY <1>1 DEF PageRecords, RefreshStages
<1>5. s.creds # None /\ s.key
  BY <1>1, <1>3 DEF PageInv, Places, Holdings, Keyed
<1>6. Places(t) /\ Holdings(t)
  BY <1>1, <1>3, <1>5 DEF PageInv, Places, Holdings, PageRecords
<1>7. Saves(t) /\ Generations(t, marker, disk) /\ Stored(t, disk) /\ Tokens(t, server)
  BY <1>1, <1>3, <1>5 DEF PageInv, Saves, Generations, Stored, Tokens, PageRecords
<1> QED
  BY <1>2, <1>3, <1>4, <1>6, <1>7, LocalStep DEF s, PageInv

LEMMA CheckSessionKeeps ==
    ASSUME IInv, NEW p \in Pages, CheckSession(p)
    PROVE  IInv'
<1> DEFINE s == page[p]
           next == IF s.unsaved # None THEN "persist" ELSE IF s.stale THEN "done" ELSE "rotate"
           t == [s EXCEPT !.refresh = next, !.stale = FALSE]
<1>1. s \in PageRecords /\ PageInv(s, marker, disk, server)
  BY DEF IInv, TypeOK
<1>2. s.refresh = "check" /\ UNCHANGED <<marker, lock, disk, server>>
  BY DEF CheckSession
<1>3. CASE Become(p, [Noticed(p) EXCEPT !.refresh = "failing"])
  BY <1>2, <1>3, FailRefreshHere
<1>4. CASE Become(p, t)
  <2> HIDE DEF s
  <2>1. /\ next \in {"persist", "done", "rotate"}
        /\ next = "persist" => s.unsaved # None
        /\ next = "rotate" => s.unsaved = None
    OBVIOUS
  <2> HIDE DEF next
  <2>2. t \in PageRecords /\ t.held = s.held
    BY <1>1, <2>1 DEF PageRecords, RefreshStages
  <2>3. Places(t) /\ Holdings(t)
    BY <1>1, <1>2, <2>1 DEF PageInv, Places, Holdings, PageRecords
  <2>4. Saves(t) /\ Generations(t, marker, disk) /\ Stored(t, disk) /\ Tokens(t, server)
    BY <1>1, <1>2, <2>1 DEF PageInv, Saves, Generations, Stored, Tokens, PageRecords
  <2> QED
    BY <1>2, <1>4, <2>2, <2>3, <2>4, LocalStep DEF s, PageInv
<1> QED
  BY <1>3, <1>4 DEF CheckSession

\* The token that is posted is the newest there is, those that were replaced are
\* older; the answer's is that one or a newer one.
LEMMA RotateKeeps ==
    ASSUME IInv, NEW p \in Pages, Rotate(p)
    PROVE  IInv'
<1> DEFINE s == page[p]
           c == s.creds
           next(given) == [c EXCEPT !.token = given]
           v(given) == [server EXCEPT !.token = given]
           t(given) == [s EXCEPT !.unsaved = next(given), !.refresh = "persist",
                                 !.spent = @ \cup ({c.token} \ {given})]
<1>1. s \in PageRecords /\ PageInv(s, marker, disk, server) /\ server \in [session : Nat, logins : Nat, token : Nat]
  BY DEF IInv, TypeOK
<1>2. s.refresh = "rotate" /\ UNCHANGED <<marker, lock, disk>>
  BY DEF Rotate
<1>3. CASE UNCHANGED server /\ Become(p, [Noticed(p) EXCEPT !.refresh = "failing"])
  BY <1>2, <1>3, FailRefreshHere
<1>4. s.key /\ c # None /\ s.unsaved = None /\ c \in Records /\ c.gen = s.gen
      /\ s.opening \in {"refreshing", "start", "ready"} \cup Ending
  BY <1>1, <1>2 DEF PageInv, Holdings, Generations, PageRecords
<1>5. ASSUME NEW given \in {server.token, server.token + 1}
      PROVE  /\ next(given) \in Records /\ next(given).gen = s.gen /\ next(given).token = given
             /\ v(given) \in [session : Nat, logins : Nat, token : Nat]
             /\ v(given).token = given /\ given \in Nat /\ server.token <= given
  BY <1>1, <1>4, <1>5 DEF Records
<1>6. ASSUME NEW given \in {server.token, server.token + 1}, server' = v(given),
             Become(p, [Noticed(p) EXCEPT !.refresh = "failing"])
      PROVE  IInv'
  <2>1. server.token <= v(given).token /\ v(given) \in [session : Nat, logins : Nat, token : Nat]
    BY <1>5, <1>6
  <2> QED
    BY <1>2, <1>6, <2>1, FailRefresh
<1>7. ASSUME NEW given \in {server.token, server.token + 1}, server' = v(given),
             Become(p, t(given)), c.token = server.token
      PROVE  IInv'
  <2> DEFINE n == next(given)
             w == v(given)
             u == t(given)
  <2>1. /\ n \in Records /\ n.gen = s.gen /\ n.token = given /\ n # None
        /\ w \in [session : Nat, logins : Nat, token : Nat] /\ w.token = given
        /\ given \in Nat /\ server.token <= given /\ c.token \in Nat
    BY <1>4, <1>5, <1>7, NoneRecords DEF Records
  <2>2. u = [s EXCEPT !.unsaved = n, !.refresh = "persist", !.spent = @ \cup ({c.token} \ {given})]
    OBVIOUS
  <2> HIDE DEF s, c, n, w, u
  <2>3. u \in PageRecords /\ u.held = s.held
    BY <1>1, <2>1, <2>2 DEF PageRecords, RefreshStages
  <2>4. Places(u) /\ Holdings(u)
    BY <1>1, <1>2, <1>4, <2>1, <2>2 DEF PageInv, Places, Holdings, PageRecords, c
  <2>5. Saves(u)
    BY <1>1, <1>2, <2>2 DEF PageInv, Saves, PageRecords
  <2>6. Generations(u, marker, disk) /\ Stored(u, disk)
    BY <1>1, <1>2, <1>4, <2>1, <2>2 DEF PageInv, Generations, Stored, PageRecords, c
  <2>7. Tokens(u, w)
    <3>1. /\ u.spent = s.spent \cup ({c.token} \ {given}) /\ u.unsaved = n
          /\ \A x \in s.spent : x \in Nat /\ x < server.token
      BY <1>1, <2>2 DEF PageInv, Tokens, PageRecords
    <3>2. \A x \in u.spent : x < given
      BY <1>1, <1>7, <2>1, <3>1
    <3> QED
      BY <2>1, <3>1, <3>2 DEF Tokens
  <2>8. server' = w /\ Become(p, u)
    BY <1>7 DEF w, u
  <2> QED
    BY <1>2, <2>1, <2>3, <2>4, <2>5, <2>6, <2>7, <2>8, ServerStep DEF s, PageInv
<1>8. \/ UNCHANGED server /\ Become(p, [Noticed(p) EXCEPT !.refresh = "failing"])
      \/ \E given \in {server.token, server.token + 1} :
            /\ server' = v(given) /\ c.token = server.token
            /\ \/ Become(p, t(given))
               \/ Become(p, [Noticed(p) EXCEPT !.refresh = "failing"])
  BY DEF Rotate
<1> QED
  BY <1>3, <1>6, <1>7, <1>8

LEMMA PersistKeeps ==
    ASSUME IInv, NEW p \in Pages, Persist(p)
    PROVE  IInv'
<1> DEFINE s == page[p]
           r == Record(p, s.unsaved)
           w == [kind |-> "credentials", rec |-> r, running |-> FALSE]
           t == [s EXCEPT !.writes = @ \cup {w}, !.refresh = "persisting"]
<1>1. s \in PageRecords /\ PageInv(s, marker, disk, server)
  BY DEF IInv, TypeOK
<1>2. s.refresh = "persist" /\ UNCHANGED <<marker, lock, disk, server>>
  BY DEF Persist
<1>3. CASE Become(p, [Noticed(p) EXCEPT !.refresh = "failing"])
  BY <1>2, <1>3, FailRefreshHere
<1>4. CASE KeyActive(p) /\ Become(p, [Write(p, "credentials", r) EXCEPT !.refresh = "persisting"])
  <2>1. Become(p, t)
    <3>1. [Write(p, "credentials", r) EXCEPT !.refresh = "persisting"] = t
      BY <1>1 DEF Write, PageRecords
    <3> QED
      BY <1>4, <3>1
  <2>2. s.gen = marker.gen
    BY <1>4 DEF KeyActive, Active
  <2>3. s.key /\ s.creds # None /\ s.unsaved # None
        /\ s.opening \in {"refreshing", "start", "ready"} \cup Ending
    BY <1>1, <1>2 DEF PageInv, Holdings
  <2>4. r \in Records /\ r.gen = s.gen /\ r.token = s.unsaved.token
    BY <1>1, <2>3 DEF Record, Records, PageRecords
  <2> HIDE DEF s, r
  <2>5. w \in Writes
    BY <2>4 DEF Writes, Kinds
  <2>6. t \in PageRecords /\ t.held = s.held
    BY <1>1, <2>5 DEF PageRecords, RefreshStages
  <2>7. s.stage \notin Late
    BY <1>1, <1>2, <1>4 DEF PageInv, Places, Ending, KeyActive, s
  <2>8. Places(t) /\ Holdings(t)
    BY <1>1, <1>2, <2>3, <2>7 DEF PageInv, Places, Holdings, PageRecords
  <2>9. Saves(t)
    <3>1. t.writes = s.writes \cup {w} /\ t.opening = s.opening /\ t.creds = s.creds
          /\ t.refresh = "persisting" /\ t.unsaved = s.unsaved
      BY <1>1 DEF PageRecords
    <3>2. Saves(s) /\ w.kind = "credentials" /\ w.rec.token = s.unsaved.token
      BY <1>1, <2>4 DEF PageInv
    <3> HIDE DEF t, w
    <3> QED
      BY <1>2, <3>1, <3>2 DEF Saves
  <2>10. Generations(t, marker, disk)
    BY <1>1, <1>2, <2>2, <2>3, <2>4 DEF PageInv, Generations, PageRecords
  <2>11. Stored(t, disk) /\ Tokens(t, server)
    BY <1>1, <1>2, <2>3 DEF PageInv, Stored, Tokens, PageRecords
  <2> QED
    BY <1>2, <2>1, <2>6, <2>8, <2>9, <2>10, <2>11, LocalStep DEF s, PageInv
<1> QED
  BY <1>3, <1>4 DEF Persist

LEMMA PersistedKeeps ==
    ASSUME IInv, NEW p \in Pages, Persisted(p)
    PROVE  IInv'
<1> DEFINE s == page[p]
           t == [s EXCEPT !.creds = s.unsaved, !.unsaved = None, !.refresh = "done"]
<1>1. s \in PageRecords /\ PageInv(s, marker, disk, server)
  BY DEF IInv, TypeOK
<1>2. s.refresh = "persisted" /\ UNCHANGED <<marker, lock, disk, server>>
  BY DEF Persisted
<1>3. CASE Become(p, [Noticed(p) EXCEPT !.refresh = "failing"])
  BY <1>2, <1>3, FailRefreshHere
<1>4. CASE Become(p, t)
  <2> HIDE DEF s
  <2>1. s.key /\ s.unsaved # None /\ s.unsaved \in Records
        /\ s.opening \in {"refreshing", "start", "ready"} \cup Ending
    BY <1>1, <1>2 DEF PageInv, Holdings, PageRecords
  <2>2. t \in PageRecords /\ t.held = s.held
    BY <1>1 DEF PageRecords, RefreshStages
  <2>3. Places(t) /\ Holdings(t)
    BY <1>1, <1>2, <2>1 DEF PageInv, Places, Holdings, PageRecords, Ending
  <2>4. Saves(t)
    BY <1>1, <1>2 DEF PageInv, Saves, PageRecords
  <2>5. Generations(t, marker, disk) /\ Stored(t, disk)
    BY <1>1, <1>2, <2>1 DEF PageInv, Generations, Stored, PageRecords
  <2>6. Tokens(t, server)
    <3>1. t.spent = s.spent /\ t.unsaved = None /\ t.creds = s.unsaved /\ s.unsaved.token \in Nat
          /\ \A x \in s.spent : x \in Nat /\ x < server.token /\ x < s.unsaved.token
      BY <1>1, <2>1 DEF PageInv, Tokens, PageRecords, Records
    <3> HIDE DEF t
    <3> QED
      BY <3>1 DEF Tokens
  <2> QED
    BY <1>2, <1>4, <2>2, <2>3, <2>4, <2>5, <2>6, LocalStep DEF s, PageInv
<1> QED
  BY <1>3, <1>4 DEF Persisted

LEMMA RefreshEndsKeeps ==
    ASSUME IInv, NEW p \in Pages, RefreshEnds(p)
    PROVE  IInv'
<1> DEFINE s == page[p]
           next == IF s.opening # "refreshing" THEN s.opening
                   ELSE IF s.refresh = "done" THEN "start" ELSE "failing"
           t == [s EXCEPT !.refresh = "idle", !.stale = FALSE, !.opening = next]
<1>1. s \in PageRecords /\ PageInv(s, marker, disk, server)
  BY DEF IInv, TypeOK
<1>2. s.refresh \in {"done", "failing"} /\ UNCHANGED <<marker, lock, disk, server>> /\ Become(p, t)
  BY DEF RefreshEnds
<1> HIDE DEF s
<1>3. /\ next = s.opening \/ (next \in {"start", "failing"} /\ s.opening = "refreshing")
      /\ next # "refreshing"
  OBVIOUS
<1> HIDE DEF next
<1>4. s.creds # None /\ s.opening \in {"refreshing", "start", "ready"} \cup Ending
  BY <1>1, <1>2 DEF PageInv, Holdings
<1>5. t \in PageRecords /\ t.held = s.held
  BY <1>1, <1>3 DEF PageRecords, RefreshStages, Phases
<1>6. Places(t)
  BY <1>1, <1>2, <1>3, <1>4 DEF PageInv, Places, PageRecords, Early, Keyed, Ending, Late, Stages
<1>7. Holdings(t)
  BY <1>1, <1>2, <1>3, <1>4 DEF PageInv, Holdings, PageRecords, Ending
<1>8. Saves(t) /\ Generations(t, marker, disk) /\ Tokens(t, server)
  BY <1>1, <1>2, <1>3, <1>4 DEF PageInv, Saves, Generations, Tokens, PageRecords, Ending
<1>9. Stored(t, disk)
  BY <1>1, <1>2, <1>3, <1>4 DEF PageInv, Stored, PageRecords, Ending
<1> QED
  BY <1>2, <1>5, <1>6, <1>7, <1>8, <1>9, LocalStep DEF s, PageInv

LEMMA RefreshingKeeps ==
    ASSUME IInv, NEW p \in Pages, Refreshing(p)
    PROVE  IInv'
BY CheckSessionKeeps, RotateKeeps, PersistKeeps, PersistedKeeps, RefreshEndsKeeps DEF Refreshing

-----------------------------------------------------------------------------
(* withMatrixKeyWrite *)

\* A step of the page that has the store and keeps it: nobody else has any
\* of it in memory.
LEMMA OwnerStep ==
    ASSUME IInv, NEW p \in Pages, NEW s \in PageRecords, Become(p, s),
           page[p].held, s.held, UNCHANGED lock,
           marker' \in [gen : Nat, pending : BOOLEAN],
           disk' \in [Kinds -> Records \cup {None}],
           server' \in [session : Nat, logins : Nat, token : Nat],
           NothingOutlivesLogout',
           PageInv(s, marker', disk', server')
    PROVE  IInv'
<1>1. lock = p /\ lock' = p
  BY DEF IInv, Owners
<1>2. ASSUME NEW q \in Pages \ {p}
      PROVE  (page[q].held <=> lock' = q) /\ PageInv(page[q], marker', disk', server')
  <2>1. page[q] \in PageRecords /\ ~page[q].held /\ Places(page[q]) /\ Holdings(page[q])
    BY <1>1 DEF IInv, TypeOK, Owners, PageInv
  <2> QED
    BY <1>1, <2>1, Strangers
<1> QED
  BY <1>1, <1>2, PageStep

\* What is stored by a write that ended well, and by one that did not.
After(d, w, ok) == IF ok THEN [d EXCEPT ![w.kind] = w.rec] ELSE d

LEMMA SettledKeeps ==
    ASSUME NEW s \in PageRecords, NEW m, NEW v,
           NEW d \in [Kinds -> Records \cup {None}], PageInv(s, m, d, v),
           NEW w \in s.writes, NEW ok \in BOOLEAN
    PROVE  LET t == Settled(s, w, ok)
           IN  t \in PageRecords /\ PageInv(t, m, After(d, w, ok), v) /\ t.held = s.held
<1> DEFINE e == After(d, w, ok)
           t == Settled(s, w, ok)
           left == s.writes \ {w}
<1>1. /\ s.key /\ s.held /\ s.opening \in Keyed \cup Ending /\ s.stage \notin Late
      /\ w \in Writes /\ w.rec \in Records /\ w.rec # None /\ left \subseteq Writes
  <2>1. s.writes \subseteq Writes /\ s.writes # {}
    BY DEF PageRecords
  <2>2. w.rec \in Records /\ w.rec # None
    BY <2>1, NoneRecords DEF Writes, Records
  <2>3. s.key
    BY <2>1 DEF PageInv, Holdings
  <2>4. s.held /\ s.opening \in Keyed \cup Ending /\ s.stage \notin Late
    BY <2>1, <2>3 DEF PageInv, Places
  <2> QED
    BY <2>1, <2>2, <2>3, <2>4
<1>2. e.credentials = IF ok /\ w.kind = "credentials" THEN w.rec ELSE d.credentials
  BY <1>1 DEF After, Kinds, Writes
<1>3. /\ \A x \in left : x.kind # w.kind /\ x \in s.writes
      /\ w.kind \in Kinds
      /\ w.kind = "credentials" =>
            \/ s.opening = "saving" /\ s.refresh = "idle" /\ w.rec.token = s.creds.token
            \/ s.refresh = "persisting" /\ w.rec.token = s.unsaved.token
  BY <1>1 DEF PageInv, Saves, Writes
<1> HIDE DEF e, left
<1>4. CASE w.kind = "secret"
  <2>1. t = [s EXCEPT !.writes = left]
    BY <1>4 DEF Settled, left
  <2> HIDE DEF t
  <2>2. t \in PageRecords /\ t.held = s.held
    BY <1>1, <2>1 DEF PageRecords
  <2>3. Places(t) /\ Holdings(t)
    BY <1>1, <2>1 DEF PageInv, Places, Holdings, PageRecords
  <2>4. Saves(t)
    BY <1>3, <2>1 DEF PageInv, Saves, PageRecords
  <2>5. Generations(t, m, e)
    BY <1>1, <1>3, <2>1 DEF PageInv, Generations, PageRecords, Early, Keyed, Ending, Late
  <2>6. Stored(t, e) /\ Tokens(t, v)
    BY <1>2, <1>4, <2>1 DEF PageInv, Stored, Tokens, PageRecords
  <2> QED
    BY <2>2, <2>3, <2>4, <2>5, <2>6 DEF PageInv, e, t
<1>5. CASE w.kind = "credentials" /\ s.refresh = "persisting"
  <2> DEFINE next == IF ok THEN "persisted" ELSE "failing"
  <2>1. t = [s EXCEPT !.writes = left, !.refresh = next]
    BY <1>5 DEF Settled, left, PageRecords
  <2> HIDE DEF t
  <2>2. s.creds # None /\ s.unsaved # None /\ s.opening \in {"refreshing", "start", "ready"} \cup Ending
    BY <1>5 DEF PageInv, Holdings
  <2>3. t \in PageRecords /\ t.held = s.held
    BY <1>1, <2>1 DEF PageRecords, RefreshStages
  <2>4. Places(t) /\ Holdings(t)
    BY <1>1, <2>1, <2>2 DEF PageInv, Places, Holdings, PageRecords
  <2>5. Saves(t)
    BY <1>3, <1>5, <2>1 DEF PageInv, Saves, PageRecords
  <2>6. Generations(t, m, e)
    BY <1>1, <1>3, <2>1 DEF PageInv, Generations, PageRecords, Early, Keyed, Ending, Late
  <2>7. Stored(t, e)
    BY <1>1, <1>2, <1>3, <1>5, <2>1, <2>2 DEF PageInv, Stored, PageRecords
  <2>8. Tokens(t, v)
    BY <2>1 DEF PageInv, Tokens, PageRecords
  <2> QED
    BY <2>3, <2>4, <2>5, <2>6, <2>7, <2>8 DEF PageInv, e, t
<1>6. CASE w.kind = "credentials" /\ s.refresh # "persisting"
  <2> DEFINE next == IF ok THEN "start" ELSE "failing"
  <2>1. t = [s EXCEPT !.writes = left, !.opening = next]
    BY <1>6 DEF Settled, left, PageRecords
  <2> HIDE DEF t
  <2>2. s.opening = "saving" /\ s.refresh = "idle" /\ w.rec.token = s.creds.token
        /\ s.creds # None /\ s.unsaved = None /\ s.spent = {} /\ s.stage \in {"begin", "wait"}
    BY <1>1, <1>3, <1>6 DEF PageInv, Holdings, Places, PageRecords, Stages, Late, Ending
  <2>3. t \in PageRecords /\ t.held = s.held
    BY <1>1, <2>1 DEF PageRecords, Phases
  <2>4. Places(t) /\ Holdings(t)
    BY <1>1, <2>1, <2>2 DEF PageInv, Places, Holdings, PageRecords, Early, Keyed, Ending, Late
  <2>5. Saves(t)
    BY <1>3, <1>6, <2>1 DEF PageInv, Saves, PageRecords
  <2>6. Generations(t, m, e)
    BY <1>1, <1>3, <2>1, <2>2 DEF PageInv, Generations, PageRecords, Early, Keyed, Ending, Late
  <2>7. Stored(t, e)
    BY <1>1, <1>2, <1>6, <2>1, <2>2 DEF PageInv, Stored, PageRecords
  <2>8. Tokens(t, v)
    BY <2>1, <2>2 DEF PageInv, Tokens, PageRecords
  <2> QED
    BY <2>3, <2>4, <2>5, <2>6, <2>7, <2>8 DEF PageInv, e, t
<1> QED
  BY <1>3, <1>4, <1>5, <1>6 DEF Kinds

LEMMA RunWriteKeeps ==
    ASSUME IInv, NEW p \in Pages, RunWrite(p)
    PROVE  IInv'
<1> DEFINE s == page[p]
<1>1. s \in PageRecords /\ PageInv(s, marker, disk, server) /\ disk \in [Kinds -> Records \cup {None}]
  BY DEF IInv, TypeOK
<1>2. PICK w \in s.writes :
         IF KeyActive(p) THEN Become(p, [s EXCEPT !.writes = (@ \ {w}) \cup {[w EXCEPT !.running = TRUE]}])
         ELSE Become(p, Settled(Noticed(p), w, FALSE))
  BY DEF RunWrite
<1>3. UNCHANGED <<marker, lock, disk, server>>
  BY DEF RunWrite
<1>4. CASE ~KeyActive(p)
  <2> DEFINE n == Noticed(p)
             t == Settled(n, w, FALSE)
  <2>1. Become(p, t) /\ n \in PageRecords /\ PageInv(n, marker, disk, server)
        /\ n.held = s.held /\ w \in n.writes
    BY <1>2, <1>4, NoticedKeeps
  <2>2. After(disk, w, FALSE) = disk
    BY DEF After
  <2> HIDE DEF n
  <2>3. t \in PageRecords /\ PageInv(t, marker, disk, server) /\ t.held = s.held
    BY <1>1, <2>1, <2>2, SettledKeeps
  <2> HIDE DEF t
  <2> QED
    BY <1>3, <2>1, <2>3, LocalStep
<1>5. CASE KeyActive(p)
  <2> DEFINE x == [w EXCEPT !.running = TRUE]
             new == (s.writes \ {w}) \cup {x}
             t == [s EXCEPT !.writes = new]
  <2>1. Become(p, t)
    BY <1>2, <1>5
  <2>2. w \in Writes /\ s.writes \subseteq Writes
    BY <1>1, <1>2 DEF PageRecords
  <2>3. x \in Writes /\ x.kind = w.kind /\ x.rec = w.rec
    BY <2>2 DEF Writes
  <2>4. new \subseteq Writes /\ s.writes # {}
    BY <1>2, <2>2, <2>3
  <2>5. \A y \in new : \E z \in s.writes : y.kind = z.kind /\ y.rec = z.rec
    BY <1>2, <2>3
  <2>6. \A y, z \in new : y.kind = z.kind => y = z
    BY <1>1, <1>2, <2>3 DEF PageInv, Saves
  <2> HIDE DEF s, x, new
  <2>7. t \in PageRecords /\ t.held = s.held
    BY <1>1, <2>4 DEF PageRecords
  <2>8. Places(t) /\ Holdings(t)
    BY <1>1, <2>4 DEF PageInv, Places, Holdings, PageRecords
  <2>9. Saves(t)
    <3>1. t.writes = new /\ t.opening = s.opening /\ t.refresh = s.refresh
          /\ t.creds = s.creds /\ t.unsaved = s.unsaved /\ Saves(s)
      BY <1>1 DEF PageRecords, PageInv
    <3> HIDE DEF t
    <3> QED
      BY <2>5, <2>6, <3>1 DEF Saves
  <2>10. Generations(t, marker, disk)
    BY <1>1, <2>4, <2>5 DEF PageInv, Generations, PageRecords
  <2>11. Stored(t, disk) /\ Tokens(t, server)
    BY <1>1 DEF PageInv, Stored, Tokens, PageRecords
  <2> QED
    BY <1>3, <2>1, <2>7, <2>8, <2>9, <2>10, <2>11, LocalStep DEF s, PageInv
<1> QED
  BY <1>4, <1>5

\* A write that lands while no logout is pending is of the generation that is.
LEMMA FinishWriteKeeps ==
    ASSUME IInv, NEW p \in Pages, FinishWrite(p)
    PROVE  IInv'
<1> DEFINE s == page[p]
<1>1. /\ s \in PageRecords /\ PageInv(s, marker, disk, server)
      /\ disk \in [Kinds -> Records \cup {None}] /\ server \in [session : Nat, logins : Nat, token : Nat]
      /\ marker \in [gen : Nat, pending : BOOLEAN]
  BY DEF IInv, TypeOK
<1>2. PICK w \in s.writes :
         \/ disk' = [disk EXCEPT ![w.kind] = w.rec] /\ Become(p, Settled(s, w, TRUE))
         \/ disk' = disk /\ Become(p, Settled(s, w, FALSE))
  BY DEF FinishWrite
<1>3. UNCHANGED <<marker, lock, server>>
  BY DEF FinishWrite
<1>4. PICK ok \in BOOLEAN : disk' = After(disk, w, ok) /\ Become(p, Settled(s, w, ok))
  BY <1>2 DEF After
<1> DEFINE t == Settled(s, w, ok)
<1>5. t \in PageRecords /\ PageInv(t, marker, After(disk, w, ok), server) /\ t.held = s.held
  BY <1>1, SettledKeeps
<1>6. Become(p, t)
  BY <1>4
<1>7. w \in Writes /\ s.held /\ w.rec.gen = s.gen /\ (s.gen # marker.gen => marker.pending)
  <2>1. s.writes \subseteq Writes /\ s.writes # {}
    BY <1>1 DEF PageRecords
  <2>2. s.key
    BY <1>1, <2>1 DEF PageInv, Holdings
  <2> QED
    BY <1>1, <2>1, <2>2 DEF PageInv, Places, Generations
<1>8. disk' \in [Kinds -> Records \cup {None}]
  BY <1>1, <1>4, <1>7 DEF After, Writes
<1>9. NothingOutlivesLogout'
  BY <1>1, <1>3, <1>4, <1>7 DEF IInv, NothingOutlivesLogout, After, Writes
<1> HIDE DEF t
<1>10. PageInv(t, marker', disk', server') /\ page[p].held /\ t.held
  BY <1>3, <1>4, <1>5, <1>7
<1> QED
  BY <1>1, <1>3, <1>5, <1>6, <1>8, <1>9, <1>10, OwnerStep

LEMMA SaveSecretKeeps ==
    ASSUME IInv, NEW p \in Pages, SaveSecret(p)
    PROVE  IInv'
<1> DEFINE s == page[p]
           r == Secret(p)
           w == [kind |-> "secret", rec |-> r, running |-> FALSE]
           t == [s EXCEPT !.writes = @ \cup {w}]
<1>1. s \in PageRecords /\ PageInv(s, marker, disk, server)
  BY DEF IInv, TypeOK
<1>2. /\ s.opening \in {"start", "ready"} /\ KeyActive(p) /\ UNCHANGED <<marker, lock, disk, server>>
      /\ \A v \in s.writes : v.kind # "secret"
  BY DEF SaveSecret
<1>3. Become(p, t)
  BY DEF SaveSecret, Write
<1>4. s.gen = marker.gen /\ s.key /\ ~s.closed
  BY <1>2 DEF KeyActive, Active
<1>5. r \in Records /\ r.gen = s.gen
  BY <1>1 DEF Secret, Record, Records, PageRecords
<1> HIDE DEF s, r
<1>6. w \in Writes
  BY <1>5 DEF Writes, Kinds
<1>7. t \in PageRecords /\ t.held = s.held
  BY <1>1, <1>6 DEF PageRecords
<1>8. s.stage \notin Late
  BY <1>1, <1>2, <1>4 DEF PageInv, Places
<1>9. Places(t) /\ Holdings(t)
  BY <1>1, <1>2, <1>4, <1>8 DEF PageInv, Places, Holdings, PageRecords
<1>10. Saves(t)
  <2>1. t.writes = s.writes \cup {w} /\ t.opening = s.opening /\ t.creds = s.creds
        /\ t.refresh = s.refresh /\ t.unsaved = s.unsaved
    BY <1>1 DEF PageRecords
  <2>2. Saves(s) /\ w.kind = "secret"
    BY <1>1 DEF PageInv
  <2> HIDE DEF t, w
  <2> QED
    BY <1>2, <2>1, <2>2 DEF Saves
<1>11. Generations(t, marker, disk)
  BY <1>1, <1>2, <1>4, <1>5 DEF PageInv, Generations, PageRecords
<1>12. Stored(t, disk) /\ Tokens(t, server)
  BY <1>1 DEF PageInv, Stored, Tokens, PageRecords
<1> QED
  BY <1>2, <1>3, <1>7, <1>9, <1>10, <1>11, <1>12, LocalStep DEF s, PageInv

-----------------------------------------------------------------------------
(* cleanPendingLogout *)

LEMMA ReadPendingKeeps ==
    ASSUME IInv, NEW p \in Pages, NEW at \in {"opening", "stage"}, ReadPending(p, at)
    PROVE  IInv'
<1> DEFINE s == page[p]
           next == IF marker.pending THEN "removing" ELSE "cleaned"
           clean == IF marker.pending THEN marker.gen ELSE None
<1>1. /\ s \in PageRecords /\ PageInv(s, marker, disk, server)
      /\ marker \in [gen : Nat, pending : BOOLEAN] /\ page \in [Pages -> PageRecords]
  BY DEF IInv, TypeOK
<1>2. UNCHANGED <<marker, lock, disk, server>>
  BY DEF ReadPending
<1>3. /\ next \in {"removing", "cleaned"} /\ clean \in Nat \cup {None}
      /\ next = "removing" => clean = marker.gen /\ clean # None
      /\ next = "cleaned" => ~marker.pending
  BY <1>1, NonePages
<1>4. CASE at = "opening"
  <2> DEFINE t == [s EXCEPT !.opening = next, !.clean = clean]
  <2>1. Become(p, t) /\ s.opening = "clean"
    <3>1. page' = [page EXCEPT ![p] = [s EXCEPT ![at] = next, !.clean = clean]] /\ s[at] = "clean"
      BY <1>1 DEF ReadPending
    <3>2. [s EXCEPT ![at] = next, !.clean = clean] = t
      BY <1>1, <1>4 DEF PageRecords
    <3> QED
      BY <1>4, <3>1, <3>2 DEF Become
  <2> HIDE DEF s, next, clean
  <2>2. s.held /\ ~s.key /\ s.writes = {} /\ s.stage \in {"begin", "wait"}
    BY <1>1, <2>1 DEF PageInv, Places, Holdings, PageRecords, Stages, Early, Late
  <2>3. t \in PageRecords /\ t.held = s.held
    BY <1>1, <1>3 DEF PageRecords, Phases
  <2>4. Places(t) /\ Holdings(t)
    BY <1>1, <1>3, <2>1, <2>2 DEF PageInv, Places, Holdings, PageRecords, Early, Keyed, Ending, Late
  <2>5. Saves(t) /\ Generations(t, marker, disk) /\ Stored(t, disk) /\ Tokens(t, server)
    BY <1>1, <1>3, <2>1, <2>2 DEF PageInv, Saves, Generations, Stored, Tokens, PageRecords
  <2> QED
    BY <1>2, <2>1, <2>3, <2>4, <2>5, LocalStep DEF s, PageInv
<1>5. CASE at = "stage"
  <2> DEFINE t == [s EXCEPT !.stage = next, !.clean = clean]
  <2>1. Become(p, t) /\ s.stage = "clean"
    <3>1. page' = [page EXCEPT ![p] = [s EXCEPT ![at] = next, !.clean = clean]] /\ s[at] = "clean"
      BY <1>1 DEF ReadPending
    <3>2. [s EXCEPT ![at] = next, !.clean = clean] = t
      BY <1>1, <1>5 DEF PageRecords
    <3> QED
      BY <1>5, <3>1, <3>2 DEF Become
  <2> HIDE DEF s, next, clean
  <2>2. s.held /\ s.writes = {} /\ s.opening \in {"ready", "none"}
    BY <1>1, <2>1 DEF PageInv, Places, Late
  <2>3. t \in PageRecords /\ t.held = s.held
    BY <1>1, <1>3 DEF PageRecords, Stages
  <2>4. Places(t) /\ Holdings(t)
    BY <1>1, <1>3, <2>1, <2>2 DEF PageInv, Places, Holdings, PageRecords, Early, Keyed, Ending, Late
  <2>5. Saves(t) /\ Generations(t, marker, disk) /\ Stored(t, disk) /\ Tokens(t, server)
    BY <1>1, <1>3, <2>1, <2>2 DEF PageInv, Saves, Generations, Stored, Tokens, PageRecords
  <2> QED
    BY <1>2, <2>1, <2>3, <2>4, <2>5, LocalStep DEF s, PageInv
<1> QED
  BY <1>4, <1>5

\* Where a clean-up takes its page: next, at the place it was called from.
LEMMA Cleans ==
    ASSUME IInv, NEW p \in Pages, NEW at \in {"opening", "stage"},
           page[p][at] \in {"removing", "acknowledging"},
           NEW next \in {"acknowledging", "cleaned", "failing"},
           NEW clean \in {page[p].clean, None},
           UNCHANGED lock, server' = server,
           page' = [page EXCEPT ![p][at] = next, ![p].clean = clean],
           marker' \in [gen : Nat, pending : BOOLEAN],
           disk' \in [Kinds -> Records \cup {None}],
           NothingOutlivesLogout',
           next = "failing" => at = "opening",
           next = "acknowledging" => clean = page[p].clean /\ \A k \in Kinds : disk'[k] = None,
           marker'.gen = marker.gen,
           next = "cleaned" /\ at = "opening" => marker'.pending = (marker.pending /\ marker.gen # page[p].clean)
    PROVE  IInv'
<1> DEFINE s == page[p]
<1>1. /\ s \in PageRecords /\ PageInv(s, marker, disk, server)
      /\ marker \in [gen : Nat, pending : BOOLEAN] /\ page \in [Pages -> PageRecords]
      /\ server \in [session : Nat, logins : Nat, token : Nat]
  BY DEF IInv, TypeOK
<1>2. clean \in Nat \cup {None}
  BY <1>1 DEF PageRecords
<1>3. page' = [page EXCEPT ![p] = [s EXCEPT ![at] = next, !.clean = clean]]
  BY <1>1
<1>4. CASE at = "opening"
  <2> DEFINE t == [s EXCEPT !.opening = next, !.clean = clean]
  <2>1. Become(p, t) /\ s.opening \in {"removing", "acknowledging"}
    <3>1. [s EXCEPT ![at] = next, !.clean = clean] = t
      BY <1>1, <1>4 DEF PageRecords
    <3> QED
      BY <1>3, <1>4, <3>1 DEF Become
  <2> HIDE DEF s
  <2>2. s.held /\ ~s.key /\ s.writes = {} /\ s.stage \in {"begin", "wait"}
    BY <1>1, <2>1 DEF PageInv, Places, Holdings, PageRecords, Stages, Early, Late
  <2>3. t \in PageRecords /\ t.held
    BY <1>1, <1>2, <2>2 DEF PageRecords, Phases
  <2>4. Places(t) /\ Holdings(t)
    BY <1>1, <2>1, <2>2 DEF PageInv, Places, Holdings, PageRecords, Early, Keyed, Ending, Late
  <2>5. Saves(t) /\ Stored(t, disk') /\ Tokens(t, server)
    BY <1>1, <2>1, <2>2 DEF PageInv, Saves, Stored, Tokens, PageRecords
  <2>6. /\ s.clean # None /\ s.gen <= s.clean /\ s.clean <= marker.gen /\ s.gen <= marker.gen
        /\ s.gen \in Nat /\ s.clean \in Nat
    BY <1>1, <2>1, <2>2 DEF PageInv, Generations, PageRecords
  <2>7. /\ t.opening = next /\ t.stage = s.stage /\ t.clean = clean /\ t.gen = s.gen /\ t.writes = {}
        /\ t.key = FALSE /\ t.stage \in {"begin", "wait"}
    BY <1>1, <2>2 DEF PageRecords
  <2> HIDE DEF t
  <2>8. Generations(t, marker', disk')
    BY <1>1, <1>4, <2>6, <2>7 DEF Generations, s
  <2> QED
    BY <1>1, <2>1, <2>2, <2>3, <2>4, <2>5, <2>8, OwnerStep DEF s, PageInv
<1>5. CASE at = "stage"
  <2> DEFINE t == [s EXCEPT !.stage = next, !.clean = clean]
  <2>1. Become(p, t) /\ s.stage \in {"removing", "acknowledging"} /\ next # "failing"
    <3>1. [s EXCEPT ![at] = next, !.clean = clean] = t
      BY <1>1, <1>5 DEF PageRecords
    <3> QED
      BY <1>3, <1>5, <3>1 DEF Become
  <2> HIDE DEF s
  <2>2. s.held /\ s.writes = {} /\ s.opening \in {"ready", "none"}
    BY <1>1, <2>1 DEF PageInv, Places, Late
  <2>3. t \in PageRecords /\ t.held
    BY <1>1, <1>2, <2>1, <2>2 DEF PageRecords, Stages
  <2>4. Places(t) /\ Holdings(t)
    BY <1>1, <2>1, <2>2 DEF PageInv, Places, Holdings, PageRecords, Early, Keyed, Ending, Late
  <2>5. Saves(t) /\ Stored(t, disk') /\ Tokens(t, server)
    BY <1>1, <2>1, <2>2 DEF PageInv, Saves, Stored, Tokens, PageRecords
  <2>6. Generations(t, marker', disk')
    BY <1>1, <2>1, <2>2 DEF PageInv, Generations, PageRecords
  <2> QED
    BY <1>1, <2>1, <2>2, <2>3, <2>4, <2>5, <2>6, OwnerStep DEF s, PageInv
<1> QED
  BY <1>4, <1>5

LEMMA RemoveRecordsKeeps ==
    ASSUME IInv, NEW p \in Pages, NEW at \in {"opening", "stage"}, RemoveRecords(p, at)
    PROVE  IInv'
<1>1. /\ page[p] \in PageRecords /\ page \in [Pages -> PageRecords]
      /\ marker \in [gen : Nat, pending : BOOLEAN] /\ disk \in [Kinds -> Records \cup {None}]
  BY DEF IInv, TypeOK
<1>2. /\ page[p][at] = "removing"
      /\ marker' = marker /\ lock' = lock /\ server' = server
  BY DEF RemoveRecords
<1>3. CASE /\ disk' = [k \in Kinds |-> None]
           /\ page' = [page EXCEPT ![p][at] = "acknowledging"]
  <2>1. page' = [page EXCEPT ![p][at] = "acknowledging", ![p].clean = page[p].clean]
    <3>1. page' = [page EXCEPT ![p] = [page[p] EXCEPT ![at] = "acknowledging"]]
      BY <1>1, <1>3
    <3>2. [page[p] EXCEPT ![at] = "acknowledging"] =
          [page[p] EXCEPT ![at] = "acknowledging", !.clean = page[p].clean]
      BY <1>1 DEF PageRecords
    <3>3. [page EXCEPT ![p][at] = "acknowledging", ![p].clean = page[p].clean] =
          [page EXCEPT ![p] = [page[p] EXCEPT ![at] = "acknowledging", !.clean = page[p].clean]]
      BY <1>1
    <3> QED
      BY <3>1, <3>2, <3>3
  <2>2. \A k \in Kinds : disk'[k] = None
    BY <1>3
  <2>3. disk' \in [Kinds -> Records \cup {None}] /\ NothingOutlivesLogout'
    BY <1>3 DEF NothingOutlivesLogout
  <2> QED
    BY <1>1, <1>2, <2>1, <2>2, <2>3, Cleans
<1>4. ASSUME NEW gone \in SUBSET Kinds,
             disk' = [k \in Kinds |-> IF k \in gone THEN None ELSE disk[k]],
             page' = [page EXCEPT ![p][at] = IF at = "opening" THEN "failing" ELSE "cleaned",
                                  ![p].clean = None]
      PROVE  IInv'
  <2> DEFINE next == IF at = "opening" THEN "failing" ELSE "cleaned"
  <2>1. next \in {"failing", "cleaned"} /\ (next = "failing" <=> at = "opening")
    OBVIOUS
  <2>2. page' = [page EXCEPT ![p][at] = next, ![p].clean = None]
    BY <1>4
  <2>3. disk' \in [Kinds -> Records \cup {None}]
    BY <1>1, <1>4
  <2>4. NothingOutlivesLogout'
    BY <1>1, <1>2, <1>4 DEF IInv, NothingOutlivesLogout
  <2> HIDE DEF next
  <2> QED
    BY <1>1, <1>2, <2>1, <2>2, <2>3, <2>4, Cleans
<1> QED
  BY <1>3, <1>4 DEF RemoveRecords

\* The request that is acknowledged is the one that was cleaned: nothing is stored.
LEMMA AcknowledgeLogoutKeeps ==
    ASSUME IInv, NEW p \in Pages, NEW at \in {"opening", "stage"}, AcknowledgeLogout(p, at)
    PROVE  IInv'
<1>1. /\ page[p] \in PageRecords /\ PageInv(page[p], marker, disk, server)
      /\ marker \in [gen : Nat, pending : BOOLEAN] /\ disk \in [Kinds -> Records \cup {None}]
  BY DEF IInv, TypeOK
<1>2. /\ page[p][at] = "acknowledging"
      /\ lock' = lock /\ disk' = disk /\ server' = server
      /\ page' = [page EXCEPT ![p][at] = "cleaned", ![p].clean = None]
      /\ marker' = [marker EXCEPT !.pending = @ /\ marker.gen # page[p].clean]
  BY DEF AcknowledgeLogout
<1> DEFINE pending == marker.pending /\ marker.gen # page[p].clean
<1>3. pending \in BOOLEAN
  OBVIOUS
<1>4. marker' \in [gen : Nat, pending : BOOLEAN] /\ marker'.gen = marker.gen /\ marker'.pending = pending
  BY <1>1, <1>2, <1>3
<1>5. \A k \in Kinds : disk'[k] = None
  BY <1>1, <1>2 DEF PageInv, Generations
<1>6. NothingOutlivesLogout'
  BY <1>5 DEF NothingOutlivesLogout
<1> QED
  BY <1>1, <1>2, <1>4, <1>5, <1>6, Cleans

LEMMA CleanPendingLogoutKeeps ==
    ASSUME IInv, NEW p \in Pages, CleanPendingLogout(p)
    PROVE  IInv'
BY ReadPendingKeeps, RemoveRecordsKeeps, AcknowledgeLogoutKeeps DEF CleanPendingLogout

-----------------------------------------------------------------------------
(* release and logout *)

LEMMA RequestReleaseKeeps ==
    ASSUME IInv, NEW p \in Pages, RequestRelease(p)
    PROVE  IInv'
<1> DEFINE s == page[p]
           chain == Append(s.chain, "release")
           t == [s EXCEPT !.chain = chain]
<1>1. s \in PageRecords /\ PageInv(s, marker, disk, server)
  BY DEF IInv, TypeOK
<1>2. Become(p, t) /\ UNCHANGED <<marker, lock, disk, server>>
  BY DEF RequestRelease
<1>3. chain \in Seq({"release", "logout"}) /\ chain # <<>>
  <2>1. s.chain \in Seq({"release", "logout"})
    BY <1>1 DEF PageRecords
  <2> QED
    BY <2>1
<1> HIDE DEF s, chain
<1>4. t \in PageRecords /\ t.held = s.held
  BY <1>1, <1>3 DEF PageRecords
<1>5. Places(t) /\ Holdings(t)
  BY <1>1, <1>3 DEF PageInv, Places, Holdings, PageRecords
<1>6. Saves(t) /\ Generations(t, marker, disk) /\ Stored(t, disk) /\ Tokens(t, server)
  BY <1>1 DEF PageInv, Saves, Generations, Stored, Tokens, PageRecords
<1> QED
  BY <1>2, <1>4, <1>5, <1>6, LocalStep DEF s, PageInv

\* A request for a logout disturbs nothing a page relies on.
LEMMA MarkerUp ==
    ASSUME NEW s \in PageRecords, NEW m \in [gen : Nat, pending : BOOLEAN],
           NEW n \in [gen : Nat, pending : BOOLEAN], n.gen = m.gen + 1, n.pending,
           NEW d, NEW v, PageInv(s, m, d, v)
    PROVE  PageInv(s, n, d, v)
<1>1. s.opening \in {"cleaned", "load", "removing", "acknowledging"} => s.held
  BY DEF PageInv, Places, Early, Keyed
<1>2. s.gen \in Nat /\ s.clean \in Nat \cup {None}
  BY DEF PageRecords
<1>3. Generations(s, m, d)
  BY DEF PageInv
<1>4. Generations(s, n, d)
  BY <1>1, <1>2, <1>3 DEF Generations
<1> QED
  BY <1>4 DEF PageInv

LEMMA LogoutKeeps ==
    ASSUME IInv, NEW p \in Pages, Logout(p)
    PROVE  IInv'
<1> DEFINE s == Invalidate(page[p])
           chain == Append(s.chain, "logout")
           t == [s EXCEPT !.chain = chain]
<1>1. /\ marker \in [gen : Nat, pending : BOOLEAN] /\ page \in [Pages -> PageRecords]
      /\ lock' = lock /\ disk' = disk /\ server' = server
      /\ marker' = [gen |-> marker.gen + 1, pending |-> TRUE]
      /\ lock \in Pages \cup {None} /\ disk \in [Kinds -> Records \cup {None}]
      /\ server \in [session : Nat, logins : Nat, token : Nat]
  BY DEF IInv, TypeOK, Logout
<1>2. marker' \in [gen : Nat, pending : BOOLEAN] /\ marker'.gen = marker.gen + 1 /\ marker'.pending = TRUE
  BY <1>1
<1>3. s \in PageRecords /\ PageInv(s, marker, disk, server) /\ s.held = page[p].held
  BY InvalidateKeeps DEF IInv, TypeOK
<1>4. Become(p, t)
  BY DEF Logout
<1>5. chain \in Seq({"release", "logout"}) /\ chain # <<>>
  <2>1. s.chain \in Seq({"release", "logout"})
    BY <1>3 DEF PageRecords
  <2> QED
    BY <2>1
<1> HIDE DEF s, chain
<1>6. t \in PageRecords /\ t.held = s.held
  BY <1>3, <1>5 DEF PageRecords
<1>7. Places(t) /\ Holdings(t)
  BY <1>3, <1>5 DEF PageInv, Places, Holdings, PageRecords
<1>8. Saves(t) /\ Generations(t, marker, disk) /\ Stored(t, disk) /\ Tokens(t, server)
  BY <1>3 DEF PageInv, Saves, Generations, Stored, Tokens, PageRecords
<1> HIDE DEF t
<1>9. PageInv(t, marker', disk', server')
  <2>1. PageInv(t, marker, disk, server)
    BY <1>7, <1>8 DEF PageInv
  <2>2. PageInv(t, marker', disk, server)
    BY <1>1, <1>2, <1>6, <2>1, MarkerUp
  <2> QED
    BY <1>1, <2>2
<1>10. ASSUME NEW q \in Pages
       PROVE  (page[q].held <=> lock' = q) /\ PageInv(page[q], marker', disk', server')
  <2>1. page[q] \in PageRecords /\ (page[q].held <=> lock = q) /\ PageInv(page[q], marker, disk, server)
    BY <1>1 DEF IInv, Owners
  <2>2. PageInv(page[q], marker', disk, server)
    BY <1>1, <1>2, <2>1, MarkerUp
  <2> QED
    BY <1>1, <2>1, <2>2
<1>11. NothingOutlivesLogout'
  BY <1>2 DEF NothingOutlivesLogout
<1>12. t.held <=> lock' = p
  BY <1>3, <1>6, <1>10
<1> QED
  BY <1>1, <1>2, <1>4, <1>6, <1>9, <1>10, <1>11, <1>12, PageStep

LEMMA InvalidatedKeeps ==
    ASSUME IInv, NEW p \in Pages, StorageEvent(p) \/ PageHide(p)
    PROVE  IInv'
<1>1. Become(p, Invalidate(page[p])) /\ UNCHANGED <<marker, lock, disk, server>>
  BY DEF StorageEvent, PageHide
<1>2. page[p] \in PageRecords /\ PageInv(page[p], marker, disk, server)
  BY DEF IInv, TypeOK
<1> QED
  BY <1>1, <1>2, InvalidateKeeps, LocalStep

\* The first operation of the chain ends without a lease.
LEMMA PoppedKeeps ==
    ASSUME NEW s \in PageRecords, NEW m, NEW d, NEW v, Places(s), Holdings(s),
           s.chain # <<>>, s.opening = "none", ~s.held, ~s.shared
    PROVE  Popped(s) \in PageRecords /\ ~Popped(s).held /\ PageInv(Popped(s), m, d, v)
<1> DEFINE chain == Tail(s.chain)
           t == [s EXCEPT !.chain = chain, !.stage = "begin"]
<1>1. chain \in Seq({"release", "logout"})
  <2>1. s.chain \in Seq({"release", "logout"})
    BY DEF PageRecords
  <2> QED
    BY <2>1
<1>2. Popped(s) = t
  BY DEF Popped
<1> HIDE DEF chain
<1>3. t \in PageRecords /\ ~t.held
  BY <1>1 DEF PageRecords, Stages
<1>4. ~s.key
  BY DEF Places
<1>5. Places(t) /\ Holdings(t)
  BY <1>4 DEF Places, Holdings, PageRecords, Early, Keyed, Ending, Late
<1> HIDE DEF t
<1>6. PageInv(t, m, d, v)
  BY <1>3, <1>5, Strangers
<1> QED
  BY <1>2, <1>3, <1>6

LEMMA BeginShutdownKeeps ==
    ASSUME IInv, NEW p \in Pages, BeginShutdown(p)
    PROVE  IInv'
<1> DEFINE s == page[p]
           u == [s EXCEPT !.shared = FALSE, !.stage = "wait"]
           x == [s EXCEPT !.stage = "acquire"]
<1>1. s \in PageRecords /\ PageInv(s, marker, disk, server)
  BY DEF IInv, TypeOK
<1>2. /\ s.stage = "begin" /\ s.chain # <<>> /\ UNCHANGED <<marker, lock, disk, server>>
      /\ \/ s.shared /\ Become(p, u)
         \/ ~s.shared /\ Become(p, Popped(s))
         \/ ~s.shared /\ Become(p, x)
  BY DEF BeginShutdown
<1> HIDE DEF s
<1>3. (s.shared <=> s.opening # "none") /\ s.opening # "failed" /\ (s.opening = "none" => ~s.held)
      /\ Places(s) /\ Holdings(s)
  BY <1>1, <1>2 DEF PageInv, Places, Late
<1>4. CASE s.shared /\ Become(p, u)
  <2>1. u \in PageRecords /\ u.held = s.held
    BY <1>1 DEF PageRecords, Stages
  <2>2. Places(u) /\ Holdings(u)
    BY <1>1, <1>2, <1>3, <1>4 DEF Places, Holdings, PageRecords, Late
  <2>3. Saves(u) /\ Generations(u, marker, disk) /\ Stored(u, disk) /\ Tokens(u, server)
    BY <1>1, <1>2 DEF PageInv, Saves, Generations, Stored, Tokens, PageRecords
  <2> QED
    BY <1>2, <1>4, <2>1, <2>2, <2>3, LocalStep DEF s, PageInv
<1>5. CASE ~s.shared /\ Become(p, Popped(s))
  <2>1. Popped(s) \in PageRecords /\ ~Popped(s).held /\ PageInv(Popped(s), marker, disk, server)
    BY <1>1, <1>2, <1>3, <1>5, PoppedKeeps
  <2>2. Popped(s).held = s.held
    BY <1>3, <1>5 DEF Popped
  <2> QED
    BY <1>2, <1>5, <2>1, <2>2, LocalStep DEF s
<1>6. CASE ~s.shared /\ Become(p, x)
  <2>1. x \in PageRecords /\ x.held = s.held
    BY <1>1 DEF PageRecords, Stages
  <2>2. Places(x) /\ Holdings(x)
    BY <1>1, <1>2, <1>3, <1>6 DEF Places, Holdings, PageRecords, Late, Early, Keyed, Ending
  <2>3. Saves(x) /\ Generations(x, marker, disk) /\ Stored(x, disk) /\ Tokens(x, server)
    BY <1>1, <1>2 DEF PageInv, Saves, Generations, Stored, Tokens, PageRecords
  <2> QED
    BY <1>2, <1>6, <2>1, <2>2, <2>3, LocalStep DEF s, PageInv
<1> QED
  BY <1>2, <1>4, <1>5, <1>6

LEMMA AwaitOpeningKeeps ==
    ASSUME IInv, NEW p \in Pages, AwaitOpening(p)
    PROVE  IInv'
<1> DEFINE s == page[p]
           u == [s EXCEPT !.closed = TRUE, !.stage = "drain"]
           n == [s EXCEPT !.opening = "none"]
           x == [s EXCEPT !.opening = "none", !.stage = "acquire"]
<1>1. s \in PageRecords /\ PageInv(s, marker, disk, server)
  BY DEF IInv, TypeOK
<1>2. /\ s.stage = "wait" /\ UNCHANGED <<marker, lock, disk, server>>
      /\ \/ s.opening = "ready" /\ Become(p, u)
         \/ s.opening = "failed" /\ Become(p, Popped(n))
         \/ s.opening = "failed" /\ Become(p, x)
  BY DEF AwaitOpening
<1> HIDE DEF s
<1>3. Places(s) /\ Holdings(s) /\ s.chain # <<>> /\ ~s.shared
  BY <1>1, <1>2 DEF PageInv, Places
<1>4. CASE s.opening = "ready" /\ Become(p, u)
  <2>1. u \in PageRecords /\ u.held = s.held
    BY <1>1 DEF PageRecords, Stages
  <2>2. Places(u) /\ Holdings(u)
    BY <1>1, <1>2, <1>3, <1>4 DEF Places, Holdings, PageRecords, Late, Early, Keyed, Ending
  <2>3. Saves(u) /\ Generations(u, marker, disk) /\ Stored(u, disk) /\ Tokens(u, server)
    BY <1>1, <1>2 DEF PageInv, Saves, Generations, Stored, Tokens, PageRecords
  <2> QED
    BY <1>2, <1>4, <2>1, <2>2, <2>3, LocalStep DEF s, PageInv
<1>5. s.opening = "failed" => ~s.held /\ ~s.key
  BY <1>2, <1>3 DEF Places, Late
<1>6. CASE s.opening = "failed" /\ Become(p, Popped(n))
  <2>1. n \in PageRecords /\ Places(n) /\ Holdings(n) /\ n.chain # <<>> /\ n.opening = "none"
        /\ ~n.held /\ ~n.shared
    BY <1>1, <1>2, <1>3, <1>5, <1>6 DEF Places, Holdings, PageRecords, Phases, Late, Early, Keyed, Ending
  <2> HIDE DEF n
  <2>2. Popped(n) \in PageRecords /\ ~Popped(n).held /\ PageInv(Popped(n), marker, disk, server)
    BY <2>1, PoppedKeeps
  <2>3. Popped(n).held = s.held
    BY <1>1, <1>5, <1>6, <2>2 DEF PageRecords, Popped, n
  <2> QED
    BY <1>2, <1>6, <2>2, <2>3, LocalStep DEF s
<1>7. CASE s.opening = "failed" /\ Become(p, x)
  <2>1. x \in PageRecords /\ x.held = s.held
    BY <1>1 DEF PageRecords, Stages, Phases
  <2>2. Places(x) /\ Holdings(x)
    BY <1>1, <1>2, <1>3, <1>5, <1>7 DEF Places, Holdings, PageRecords, Late, Early, Keyed, Ending
  <2>3. Saves(x) /\ Generations(x, marker, disk) /\ Stored(x, disk) /\ Tokens(x, server)
    BY <1>1, <1>2, <1>3, <1>5, <1>7 DEF PageInv, Holdings, Saves, Generations, Stored, Tokens, PageRecords
  <2> QED
    BY <1>2, <1>7, <2>1, <2>2, <2>3, LocalStep DEF s, PageInv
<1> QED
  BY <1>2, <1>4, <1>6, <1>7

LEMMA DrainKeeps ==
    ASSUME IInv, NEW p \in Pages, Drain(p)
    PROVE  IInv'
<1> DEFINE s == page[p]
           next == IF Head(s.chain) = "release" THEN "clean" ELSE "revoke"
           t == [s EXCEPT !.stage = next]
<1>1. s \in PageRecords /\ PageInv(s, marker, disk, server)
  BY DEF IInv, TypeOK
<1>2. s.stage = "drain" /\ s.writes = {} /\ UNCHANGED <<marker, lock, disk, server>> /\ Become(p, t)
  BY DEF Drain
<1>3. next \in {"clean", "revoke"}
  OBVIOUS
<1> HIDE DEF s, next
<1>4. t \in PageRecords /\ t.held = s.held
  BY <1>1, <1>3 DEF PageRecords, Stages
<1>5. Places(t) /\ Holdings(t)
  BY <1>1, <1>2, <1>3 DEF PageInv, Places, Holdings, PageRecords, Late, Early, Keyed, Ending
<1>6. Saves(t) /\ Generations(t, marker, disk) /\ Stored(t, disk) /\ Tokens(t, server)
  BY <1>1, <1>2, <1>3 DEF PageInv, Saves, Generations, Stored, Tokens, PageRecords
<1> QED
  BY <1>2, <1>4, <1>5, <1>6, LocalStep DEF s, PageInv

LEMMA AcquireToCleanKeeps ==
    ASSUME IInv, NEW p \in Pages, AcquireToClean(p)
    PROVE  IInv'
<1> DEFINE s == page[p]
           t == [s EXCEPT !.held = TRUE, !.retired = FALSE, !.calls = FALSE, !.gen = marker.gen,
                          !.stage = "check"]
<1>1. /\ s \in PageRecords /\ PageInv(s, marker, disk, server) /\ s.stage = "acquire"
      /\ marker \in [gen : Nat, pending : BOOLEAN]
  BY DEF IInv, TypeOK, AcquireToClean
<1>2. /\ s.opening = "none" /\ ~s.held /\ ~s.key /\ s.writes = {} /\ s.refresh = "idle"
      /\ s.unsaved = None /\ s.spent = {} /\ s.creds = None /\ ~s.shared /\ s.chain # <<>>
      /\ Places(s) /\ Holdings(s)
  BY <1>1 DEF PageInv, Places, Holdings
<1>3. CASE lock = None /\ lock' = p /\ Become(p, [Lease(p, FALSE) EXCEPT !.stage = "check"])
  <2>1. marker' = marker /\ disk' = disk /\ server' = server
    BY DEF AcquireToClean
  <2>2. [Lease(p, FALSE) EXCEPT !.stage = "check"] = t
    BY <1>1 DEF Lease, PageRecords
  <2>3. Become(p, t)
    BY <1>3, <2>2
  <2>4. \A q \in Pages : ~page[q].held
    BY <1>3, NonePages DEF IInv, Owners
  <2> HIDE DEF s
  <2>5. t \in PageRecords /\ t.held
    BY <1>1 DEF PageRecords, Stages
  <2>6. Places(t) /\ Holdings(t)
    BY <1>1, <1>2 DEF Places, Holdings, PageRecords, Early, Keyed, Ending, Late
  <2>7. Saves(t) /\ Generations(t, marker, disk) /\ Stored(t, disk) /\ Tokens(t, server)
    BY <1>1, <1>2 DEF Saves, Generations, Stored, Tokens, PageRecords
  <2> HIDE DEF t
  <2>8. PageInv(t, marker', disk', server')
    BY <2>1, <2>6, <2>7 DEF PageInv
  <2>9. \A q \in Pages \ {p} : (page[q].held <=> lock' = q) /\ PageInv(page[q], marker', disk', server')
    BY <1>3, <2>1, <2>4 DEF IInv
  <2>10. NothingOutlivesLogout'
    BY <2>1 DEF IInv, NothingOutlivesLogout
  <2>11. /\ marker' \in [gen : Nat, pending : BOOLEAN] /\ lock' \in Pages \cup {None}
         /\ disk' \in [Kinds -> Records \cup {None}]
         /\ server' \in [session : Nat, logins : Nat, token : Nat]
    BY <1>3, <2>1 DEF IInv, TypeOK
  <2>12. t.held <=> lock' = p
    BY <1>3, <2>5
  <2> QED
    BY <2>3, <2>5, <2>8, <2>9, <2>10, <2>11, <2>12, PageStep
<1>4. CASE Become(p, Popped(s)) /\ UNCHANGED lock
  <2>1. UNCHANGED <<marker, lock, disk, server>>
    BY <1>4 DEF AcquireToClean
  <2>2. Popped(s) \in PageRecords /\ ~Popped(s).held /\ PageInv(Popped(s), marker, disk, server)
    BY <1>1, <1>2, PoppedKeeps
  <2>3. Popped(s).held = s.held
    BY <1>1, <1>2 DEF Popped, PageRecords
  <2> QED
    BY <1>4, <2>1, <2>2, <2>3, LocalStep
<1> QED
  BY <1>3, <1>4 DEF AcquireToClean

LEMMA CheckPendingKeeps ==
    ASSUME IInv, NEW p \in Pages, CheckPending(p)
    PROVE  IInv'
<1> DEFINE s == page[p]
           c == disk.credentials
           t == [s EXCEPT !.creds = c, !.stage = "revoke"]
           x == [s EXCEPT !.stage = "clean"]
<1>1. s \in PageRecords /\ PageInv(s, marker, disk, server) /\ c \in Records \cup {None}
  BY DEF IInv, TypeOK, Kinds
<1>2. /\ s.stage = "check" /\ UNCHANGED <<marker, lock, disk, server>>
      /\ Become(p, t) \/ Become(p, x)
  BY DEF CheckPending
<1> HIDE DEF s, c
<1>3. /\ s.opening = "none" /\ s.held /\ ~s.key /\ s.writes = {} /\ s.refresh = "idle"
      /\ s.unsaved = None /\ s.spent = {} /\ ~s.shared /\ s.chain # <<>>
      /\ Places(s) /\ Holdings(s)
  BY <1>1, <1>2 DEF PageInv, Places, Holdings
<1>4. CASE Become(p, t)
  <2>1. t \in PageRecords /\ t.held = s.held
    BY <1>1 DEF PageRecords, Stages
  <2>2. Places(t) /\ Holdings(t)
    BY <1>1, <1>3 DEF Places, Holdings, PageRecords, Early, Keyed, Ending, Late
  <2>3. Saves(t) /\ Generations(t, marker, disk) /\ Stored(t, disk) /\ Tokens(t, server)
    BY <1>1, <1>3 DEF PageInv, Saves, Generations, Stored, Tokens, PageRecords
  <2> QED
    BY <1>2, <1>4, <2>1, <2>2, <2>3, LocalStep DEF s, PageInv
<1>5. CASE Become(p, x)
  <2>1. x \in PageRecords /\ x.held = s.held
    BY <1>1 DEF PageRecords, Stages
  <2>2. Places(x) /\ Holdings(x)
    BY <1>1, <1>3 DEF Places, Holdings, PageRecords, Early, Keyed, Ending, Late
  <2>3. Saves(x) /\ Generations(x, marker, disk) /\ Stored(x, disk) /\ Tokens(x, server)
    BY <1>1, <1>3 DEF PageInv, Saves, Generations, Stored, Tokens, PageRecords
  <2> QED
    BY <1>2, <1>5, <2>1, <2>2, <2>3, LocalStep DEF s, PageInv
<1> QED
  BY <1>2, <1>4, <1>5

LEMMA RevokeKeeps ==
    ASSUME IInv, NEW p \in Pages, Revoke(p)
    PROVE  IInv'
<1> DEFINE s == page[p]
           t == [s EXCEPT !.stage = "clean"]
           session == IF s.creds.session = server.session THEN 0 ELSE server.session
<1>1. /\ s \in PageRecords /\ PageInv(s, marker, disk, server)
      /\ server \in [session : Nat, logins : Nat, token : Nat]
  BY DEF IInv, TypeOK
<1>2. /\ s.stage = "revoke" /\ UNCHANGED <<marker, lock, disk>> /\ Become(p, t)
      /\ server' = [server EXCEPT !.session = session] \/ server' = server
  BY DEF Revoke
<1>3. /\ server' \in [session : Nat, logins : Nat, token : Nat]
      /\ server'.token = server.token /\ server.token <= server'.token
  <2>1. session \in Nat
    BY <1>1
  <2> HIDE DEF session
  <2> QED
    BY <1>1, <1>2, <2>1
<1> HIDE DEF s
<1>4. t \in PageRecords /\ t.held = s.held
  BY <1>1 DEF PageRecords, Stages
<1>5. Places(t) /\ Holdings(t)
  BY <1>1, <1>2 DEF PageInv, Places, Holdings, PageRecords, Early, Keyed, Ending, Late
<1>6. Saves(t) /\ Generations(t, marker, disk) /\ Stored(t, disk) /\ Tokens(t, server)
  BY <1>1, <1>2 DEF PageInv, Saves, Generations, Stored, Tokens, PageRecords
<1> HIDE DEF t
<1>7. PageInv(t, marker, disk, server')
  <2>1. PageInv(t, marker, disk, server)
    BY <1>5, <1>6 DEF PageInv
  <2> QED
    BY <1>1, <1>3, <1>4, <2>1, ServerUp
<1> QED
  BY <1>2, <1>3, <1>4, <1>7, ServerStep DEF s

LEMMA EmptyPage ==
    /\ NoPage \in PageRecords /\ Places(NoPage) /\ Holdings(NoPage)
    /\ ~NoPage.held /\ NoPage.opening = "none"
<1>1. /\ NoPage \in PageRecords
      /\ ~NoPage.held /\ ~NoPage.shared /\ ~NoPage.key /\ NoPage.writes = {}
      /\ NoPage.creds = None /\ NoPage.unsaved = None /\ NoPage.spent = {} /\ NoPage.refresh = "idle"
      /\ NoPage.opening = "none" /\ NoPage.stage = "begin"
  BY DEF NoPage, PageRecords, Phases, RefreshStages, Stages
<1>2. Places(NoPage) /\ Holdings(NoPage)
  BY <1>1 DEF Places, Holdings, Early, Keyed, Ending, Late
<1> QED
  BY <1>1, <1>2

LEMMA EndShutdownKeeps ==
    ASSUME IInv, NEW p \in Pages, EndShutdown(p)
    PROVE  IInv'
<1> DEFINE s == page[p]
           chain == Tail(s.chain)
           t == Lost(chain, "begin", "none")
<1>1. s \in PageRecords /\ PageInv(s, marker, disk, server)
  BY DEF IInv, TypeOK
<1>2. s.stage = "cleaned" /\ UNCHANGED <<marker, disk, server>> /\ lock' = None
  BY DEF EndShutdown
<1>3. s.held /\ s.chain # <<>>
  BY <1>1, <1>2 DEF PageInv, Places, Late
<1>4. chain \in Seq({"release", "logout"})
  <2>1. s.chain \in Seq({"release", "logout"})
    BY <1>1 DEF PageRecords
  <2> QED
    BY <1>3, <2>1
<1>5. Become(p, t)
  <2>1. Popped(Released(page[p])) = t
    <3> DEFINE r == [NoPage EXCEPT !.chain = s.chain, !.stage = s.stage]
    <3>1. Released(page[p]) = r
      BY DEF Released
    <3>2. r.chain = s.chain
      BY EmptyPage DEF PageRecords
    <3>3. [r EXCEPT !.chain = Tail(r.chain), !.stage = "begin"] = t
      BY <3>2, EmptyPage DEF PageRecords, Lost
    <3> QED
      BY <3>1, <3>3 DEF Popped
  <2> QED
    BY <2>1 DEF EndShutdown
<1> HIDE DEF t, chain
<1>6. /\ t \in PageRecords /\ Holdings(t)
      /\ ~t.held /\ ~t.shared /\ ~t.key /\ t.writes = {}
      /\ t.chain = chain /\ t.stage = "begin" /\ t.opening = "none"
  <2>1. "begin" \in Stages
    BY DEF Stages
  <2> QED
    BY <1>4, <2>1, ReleasedPage DEF t
<1>7. Places(t)
  BY <1>6 DEF Places, Early, Keyed, Ending, Late
<1> QED
  BY <1>2, <1>3, <1>5, <1>6, <1>7, LetGo

LEMMA CloseKeeps ==
    ASSUME IInv, NEW p \in Pages, Close(p)
    PROVE  IInv'
<1>1. /\ Become(p, NoPage) /\ UNCHANGED <<marker, disk, server>>
      /\ lock' = IF page[p].held THEN None ELSE lock
  BY DEF Close, IInv, Owners
<1> QED
  BY <1>1, EmptyPage, LetGo

-----------------------------------------------------------------------------
(* The inductive invariant, and what follows from it. *)

LEMMA InitInv == Init => IInv
<1> SUFFICES ASSUME Init PROVE IInv
  OBVIOUS
<1>1. TypeOK
  BY EmptyPage DEF Init, TypeOK
<1>2. Owners
  BY EmptyPage, NonePages DEF Init, Owners
<1>3. NothingOutlivesLogout
  BY DEF Init, NothingOutlivesLogout
<1>4. \A p \in Pages : PageInv(page[p], marker, disk, server)
  BY EmptyPage, Strangers DEF Init
<1> QED
  BY <1>1, <1>2, <1>3, <1>4 DEF IInv

LEMMA NextInv == IInv /\ [Next]_vars => IInv'
<1> SUFFICES ASSUME IInv, [Next]_vars PROVE IInv'
  OBVIOUS
<1>1. CASE UNCHANGED vars
  BY <1>1 DEF vars, IInv, TypeOK, Owners, NothingOutlivesLogout
<1>2. ASSUME NEW p \in Pages, Step(p) PROVE IInv'
  <2>1. CASE ShuttingDown(p)
    BY <2>1, BeginShutdownKeeps, AwaitOpeningKeeps, DrainKeeps, AcquireToCleanKeeps,
       CheckPendingKeeps, RevokeKeeps, EndShutdownKeeps DEF ShuttingDown
  <2>2. CASE Writing(p)
    BY <2>2, RunWriteKeeps, FinishWriteKeeps DEF Writing
  <2>3. CASE Asked(p)
    BY <2>3, StartOpeningKeeps, SaveSecretKeeps, RefreshKeeps, RequestReleaseKeeps,
       LogoutKeeps, InvalidatedKeeps, CloseKeeps DEF Asked
  <2> QED
    BY <1>2, <2>1, <2>2, <2>3, OpeningKeeps, RefreshingKeeps, CleanPendingLogoutKeeps,
       InvalidatedKeeps DEF Step
<1> QED
  BY <1>1, <1>2 DEF Next

LEMMA Invariant == Spec => []IInv
BY InitInv, NextInv, PTL DEF Spec

\* The variables of the specification keep their types: what its pages hold in
\* memory, the marker, the lock, the records and the homeserver's session.
THEOREM TypeCorrect == Spec => []TypeOK
<1>1. IInv => TypeOK
  BY DEF IInv
<1> QED
  BY <1>1, Invariant, PTL

\* No write of an owner from before a logout is in storage once that logout is
\* acknowledged (cleanPendingLogout, acknowledgeLogout, the checks of a write).
THEOREM LogoutIsFinal == Spec => []NothingOutlivesLogout
<1>1. IInv => NothingOutlivesLogout
  BY DEF IInv
<1> QED
  BY <1>1, Invariant, PTL

\* A write is under way in the page that has the Web Lock and in no other:
\* release, logout and a failed opening drain the writes before they let it go.
THEOREM WritesAreOwned == Spec => []WritesOwned
<1>1. IInv => WritesOwned
  <2> SUFFICES ASSUME IInv, NEW p \in Pages, page[p].writes # {}
               PROVE  lock = p /\ page[p].held
    BY DEF WritesOwned
  <2>1. Places(page[p]) /\ Holdings(page[p]) /\ (page[p].held <=> lock = p)
    BY DEF IInv, PageInv, Owners
  <2> QED
    BY <2>1 DEF Places, Holdings
<1> QED
  BY <1>1, Invariant, PTL

\* The credentials a page works with were saved by an owner of its own
\* generation: getHandle reads them behind the clean-up and behind a check.
THEOREM NoSessionIsStale == Spec => []NoStaleSession
<1>1. IInv => NoStaleSession
  BY DEF IInv, PageInv, Generations, NoStaleSession
<1> QED
  BY <1>1, Invariant, PTL

\* While a handle is open the credentials of the next start are in storage,
\* also while a refresh replaces them (persist before use).
THEOREM SessionIsSaved == Spec => []SavedSession
<1>1. IInv => SavedSession
  <2> SUFFICES ASSUME IInv, NEW p \in Pages,
                      page[p].opening = "ready", page[p].stage \in {"begin", "wait", "drain", "revoke"}
               PROVE  /\ disk.credentials # None
                      /\ disk.credentials.token \in
                            {page[p].creds.token}
                               \cup (IF page[p].unsaved = None THEN {} ELSE {page[p].unsaved.token})
    BY DEF SavedSession
  <2>1. Stored(page[p], disk)
    BY DEF IInv, PageInv
  <2> QED
    BY <2>1 DEF Stored
<1> QED
  BY <1>1, Invariant, PTL

\* A refresh is not asked for again before the answer of the last one is saved, and a
\* token that an answer replaced is never posted again (createMatrixCredentialRefresher).
THEOREM TokensAreSpentOnce == Spec => []NoTokenRespent
<1>1. IInv => NoTokenRespent
  <2> SUFFICES ASSUME IInv, NEW p \in Pages, page[p].refresh = "rotate"
               PROVE  page[p].unsaved = None /\ page[p].creds.token \notin page[p].spent
    BY DEF NoTokenRespent
  <2>1. Holdings(page[p]) /\ Tokens(page[p], server)
    BY DEF IInv, PageInv
  <2> QED
    BY <2>1 DEF Holdings, Tokens
<1> QED
  BY <1>1, Invariant, PTL

-----------------------------------------------------------------------------
(* The other components of the run: what is proved of them holds of the    *)
(* instances of MCClient.                                                  *)

StoreContents == {<<>>, <<r1, r1>>, <<r2, r1, r2>>}
StoreP == INSTANCE MessageStoreProofs WITH
    Stores <- Pages, Threads <- {1}, Records <- {r1, r2},
    Contents <- StoreContents,
    ChunkSize <- 2, Exclusive <- TRUE, HonestCallers <- FALSE, MaxRevision <- 2,
    disk <- store

\* The key directory, which is proved beside the outbox, is of nobody here.
OutboxP == INSTANCE OutboxDirectoryProofs WITH
    Ids <- Pages, MaxItems <- 1,
    Witnesses <- {}, Clients <- {}, Identities <- {}, Entries <- {}, Directories <- {},
    NoDirectory <- None, Threshold <- 1, MaxAttempts <- 1, MaxFetches <- 0,
    Observers <- {}, Times <- {}, NoStatement <- None, MaxObserved <- 0,
    witnessed <- None, signed <- None, observing <- None, fetch <- None, fetches <- None,
    pinned <- None, storedPin <- None, accepted <- None,
    evidence <- None, watching <- None, observed <- None, shown <- None

AppP == INSTANCE AppProofs WITH
    Messages <- {<<r1, 1>>, <<r1, 2>>}, Calls <- Pages,
    MaxSessions <- 1, MaxPages <- 2, MaxRevision <- 2,
    session <- listing, call <- visit, known <- aware,
    Tabs <- {r1, r2}, Keys <- Pages, MaxRows <- 1, MaxSaves <- 2, MaxClears <- 1,
    Done <- [t \in {r1, r2} |-> IF t = r1 THEN {"download"} ELSE {"download", "clear"}],
    Accounts <- Pages, MaxGeneration <- 3, MaxChange <- 1, MaxSession <- 2,
    Urls <- {r1}, MaxEntries <- 1, MaxBytes <- 1, MaxVersion <- 1, calls <- call, seen <- known

AppQ == INSTANCE AppProofs WITH
    Messages <- {<<r1, 1>>, <<r2, 1>>}, Calls <- Pages,
    MaxSessions <- 2, MaxPages <- 1, MaxRevision <- 1,
    session <- listing, call <- visit, known <- aware,
    Tabs <- {r1}, Keys <- Pages, MaxRows <- 2, MaxSaves <- 1, MaxClears <- 1,
    Done <- [t \in {r1} |-> {"load", "download", "repair", "remove", "clear"}],
    Accounts <- Pages, MaxGeneration <- 3, MaxChange <- 1, MaxSession <- 1,
    Urls <- {r1}, MaxEntries <- 1, MaxBytes <- 1, MaxVersion <- 1, calls <- call, seen <- known

LEMMA StoreIsProved ==
    /\ Store!Init <=> StoreP!Init
    /\ Store!Next <=> StoreP!Next
    /\ Store!LoadSweepsOrphans <=> StoreP!LoadSweepsOrphans
<1>1. Store!Init <=> StoreP!Init
  BY
      DEF Store!Empty, Store!Idle, Store!Init, StoreP!Empty, StoreP!Idle, StoreP!Init, StoreContents
<1>2. Store!Next <=> StoreP!Next
  BY
      DEF Store!ManifestKey, Store!IndexKey, Store!ChunkKey, Store!NoThreads,
          Store!Empty, Store!Manifest, Store!KeysOf, Store!ReadableIn, Store!Readable,
          Store!KeysIn, Store!LiveKeys, Store!Chunked, Store!RecordCount,
          Store!FullChunks, Store!AppendAccepted, Store!NewChunk, Store!NextIndex,
          Store!Truthful, Store!Idle, Store!MayEnter, Store!PrevIndex, Store!Present,
          Store!Touched, Store!Replaced, Store!Refused, Store!IndexFor,
          Store!Rewritten, Store!NextManifest, Store!NewKeys, Store!Puts, Store!Stale,
          Store!BeginSave, Store!Precedes, Store!WriteOne, Store!CommitManifest,
          Store!BeginLoad, Store!BeginClear, Store!RemoveOne, Store!Finish,
          Store!Abort, Store!Next, StoreP!ManifestKey, StoreP!IndexKey,
          StoreP!ChunkKey, StoreP!NoThreads, StoreP!Empty, StoreP!Manifest,
          StoreP!KeysOf, StoreP!ReadableIn, StoreP!Readable, StoreP!KeysIn,
          StoreP!LiveKeys, StoreP!Chunked, StoreP!RecordCount, StoreP!FullChunks,
          StoreP!AppendAccepted, StoreP!NewChunk, StoreP!NextIndex, StoreP!Truthful,
          StoreP!Idle, StoreP!MayEnter, StoreP!PrevIndex, StoreP!Present,
          StoreP!Touched, StoreP!Replaced, StoreP!Refused, StoreP!IndexFor,
          StoreP!Rewritten, StoreP!NextManifest, StoreP!NewKeys, StoreP!Puts,
          StoreP!Stale, StoreP!BeginSave, StoreP!Precedes, StoreP!WriteOne,
          StoreP!CommitManifest, StoreP!BeginLoad, StoreP!BeginClear, StoreP!RemoveOne,
          StoreP!Finish, StoreP!Abort, StoreP!Next, StoreContents
<1>3. Store!LoadSweepsOrphans <=> StoreP!LoadSweepsOrphans
  BY
      DEF Store!ManifestKey, Store!IndexKey, Store!ChunkKey, Store!NoThreads,
          Store!Manifest, Store!KeysOf, Store!KeysIn, Store!LiveKeys,
          Store!LoadSweepsOrphans, StoreP!ManifestKey, StoreP!IndexKey,
          StoreP!ChunkKey, StoreP!NoThreads, StoreP!Manifest, StoreP!KeysOf,
          StoreP!KeysIn, StoreP!LiveKeys, StoreP!LoadSweepsOrphans, StoreContents
<1> QED BY <1>1, <1>2, <1>3

LEMMA StoreSteps ==
    /\ ClientInit => (focus = "store" => StoreP!Init)
    /\ [ClientNext]_<<focus, clientVars>> =>
        /\ (focus = "store")' <=> focus = "store"
        /\ focus = "store" => [StoreP!Next]_(StoreP!vars)
<1>1. ClientInit => (focus = "store" => StoreP!Init) BY StoreIsProved DEF ClientInit
<1>2. ASSUME [ClientNext]_<<focus, clientVars>>
      PROVE  /\ (focus = "store")' <=> focus = "store"
             /\ focus = "store" => [StoreP!Next]_(StoreP!vars)
  BY <1>2, StoreIsProved DEF ClientNext, clientVars, storeVars, StoreP!vars
<1> QED BY <1>1, <1>2

LEMMA OutboxIsProved ==
    /\ Outbox!Init <=> OutboxP!Init
    /\ Outbox!Next <=> OutboxP!Next
    /\ Outbox!KeptUntilTold <=> OutboxP!KeptUntilTold
<1>1. Outbox!Init <=> OutboxP!Init
  BY
      DEF Outbox!Boxes, Outbox!NoHandle, Outbox!Init, OutboxP!Boxes, OutboxP!NoHandle,
          OutboxP!Init
<1>2. Outbox!Next <=> OutboxP!Next
  BY
      DEF Outbox!Boxes, Outbox!NoHandle, Outbox!Change, Outbox!Mutate, Outbox!Applied,
          Outbox!SendPending, Outbox!Rejected, Outbox!Acknowledged, Outbox!Resumed,
          Outbox!ReadBox, Outbox!WriteBox, Outbox!ChangeFails, Outbox!SendContentEvent,
          Outbox!Prepare, Outbox!Deny, Outbox!PrepareFails, Outbox!Post,
          Outbox!PostFails, Outbox!List, Outbox!Flushed, Outbox!Flush,
          Outbox!DeliverNotification, Outbox!NotificationFails, Outbox!Close,
          Outbox!Open, Outbox!Syncing, Outbox!Sending, Outbox!Fault, Outbox!Next,
          Outbox!Cardinality, OutboxP!Boxes, OutboxP!NoHandle, OutboxP!Change,
          OutboxP!Mutate, OutboxP!Applied, OutboxP!SendPending, OutboxP!Rejected,
          OutboxP!Acknowledged, OutboxP!Resumed, OutboxP!ReadBox, OutboxP!WriteBox,
          OutboxP!ChangeFails, OutboxP!SendContentEvent, OutboxP!Prepare, OutboxP!Deny,
          OutboxP!PrepareFails, OutboxP!Post, OutboxP!PostFails, OutboxP!List,
          OutboxP!Flushed, OutboxP!Flush, OutboxP!DeliverNotification,
          OutboxP!NotificationFails, OutboxP!Close, OutboxP!Open, OutboxP!Syncing,
          OutboxP!Sending, OutboxP!Fault, OutboxP!Next, OutboxP!Cardinality
<1>3. Outbox!KeptUntilTold <=> OutboxP!KeptUntilTold
  BY
      DEF Outbox!Owed, Outbox!KeptUntilTold, OutboxP!Owed, OutboxP!KeptUntilTold
<1> QED BY <1>1, <1>2, <1>3

LEMMA OutboxSteps ==
    /\ ClientInit => (focus = "outbox" => OutboxP!Init)
    /\ [ClientNext]_<<focus, clientVars>> =>
        /\ (focus = "outbox")' <=> focus = "outbox"
        /\ focus = "outbox" => [OutboxP!Next]_(OutboxP!vars)
<1>1. ClientInit => (focus = "outbox" => OutboxP!Init) BY OutboxIsProved DEF ClientInit
<1>2. ASSUME [ClientNext]_<<focus, clientVars>>
      PROVE  /\ (focus = "outbox")' <=> focus = "outbox"
             /\ focus = "outbox" => [OutboxP!Next]_(OutboxP!vars)
  BY <1>2, OutboxIsProved DEF ClientNext, clientVars, outboxVars, OutboxP!vars
<1> QED BY <1>1, <1>2

LEMMA SurfaceIsProved ==
    /\ Surface!Init <=> AppP!Init
    /\ Surface!Next <=> AppP!Next
    /\ Surface!SnapshotUndeleted <=> AppP!SnapshotUndeleted
    /\ Surface!ReturnsUndeleted <=> AppP!ReturnsUndeleted
    /\ Surface!SnapshotsAdvance <=> AppP!SnapshotsAdvance
<1>1. Surface!Init <=> AppP!Init
  BY
      DEF Surface!Threads, Surface!NoSession, Surface!Idle, Surface!Init, AppP!Threads,
          AppP!NoSession, AppP!Idle, AppP!Init
<1>2. Surface!Next <=> AppP!Next
  BY
      DEF Surface!Threads, Surface!Of, Surface!NoSession, Surface!Idle,
          Surface!Unfiltered, Surface!Become, Surface!Cleared, Surface!Active,
          Surface!NeedsCheck, Surface!Filter, Surface!StartFilters,
          Surface!ServerChecks, Surface!Checked, Surface!Kept, Surface!Goes,
          Surface!CheckArrives, Surface!ListThreads, Surface!Answers,
          Surface!PageArrives, Surface!Decorated, Surface!Expire,
          Surface!ClearThreadListSnapshot, Surface!OpenThread, Surface!OpenArrives,
          Surface!Opened, Surface!DeleteContent, Surface!Told, Surface!ServerDeletes,
          Surface!Forced, Surface!Deleted, Surface!VisibilityUpdated, Surface!Next,
          AppP!Threads, AppP!Of, AppP!NoSession, AppP!Idle, AppP!Unfiltered,
          AppP!Become, AppP!Cleared, AppP!Active, AppP!NeedsCheck, AppP!Filter,
          AppP!StartFilters, AppP!ServerChecks, AppP!Checked, AppP!Kept, AppP!Goes,
          AppP!CheckArrives, AppP!ListThreads, AppP!Answers, AppP!PageArrives,
          AppP!Decorated, AppP!Expire, AppP!ClearThreadListSnapshot, AppP!OpenThread,
          AppP!OpenArrives, AppP!Opened, AppP!DeleteContent, AppP!Told,
          AppP!ServerDeletes, AppP!Forced, AppP!Deleted, AppP!VisibilityUpdated,
          AppP!Next
<1>3. Surface!SnapshotUndeleted <=> AppP!SnapshotUndeleted
  BY
      DEF Surface!SnapshotUndeleted, AppP!SnapshotUndeleted
<1>4. Surface!ReturnsUndeleted <=> AppP!ReturnsUndeleted
  BY
      DEF Surface!ReturnsUndeleted, AppP!ReturnsUndeleted
<1>5. Surface!SnapshotsAdvance <=> AppP!SnapshotsAdvance
  BY
      DEF Surface!SnapshotsAdvance, AppP!SnapshotsAdvance
<1> QED BY <1>1, <1>2, <1>3, <1>4, <1>5

LEMMA SurfaceSteps ==
    /\ ClientInit => (focus = "surface" => AppP!Init)
    /\ [ClientNext]_<<focus, clientVars>> =>
        /\ (focus = "surface")' <=> focus = "surface"
        /\ focus = "surface" => [AppP!Next]_(AppP!vars)
<1>1. ClientInit => (focus = "surface" => AppP!Init) BY SurfaceIsProved DEF ClientInit
<1>2. ASSUME [ClientNext]_<<focus, clientVars>>
      PROVE  /\ (focus = "surface")' <=> focus = "surface"
             /\ focus = "surface" => [AppP!Next]_(AppP!vars)
  BY <1>2, SurfaceIsProved DEF ClientNext, clientVars, surfaceVars, AppP!vars
<1> QED BY <1>1, <1>2

LEMMA SurfacesIsProved ==
    /\ Surfaces!Init <=> AppQ!Init
    /\ Surfaces!Next <=> AppQ!Next
    /\ Surfaces!SnapshotUndeleted <=> AppQ!SnapshotUndeleted
    /\ Surfaces!ReturnsUndeleted <=> AppQ!ReturnsUndeleted
<1>1. Surfaces!Init <=> AppQ!Init
  BY
      DEF Surfaces!Threads, Surfaces!NoSession, Surfaces!Idle, Surfaces!Init,
          AppQ!Threads, AppQ!NoSession, AppQ!Idle, AppQ!Init
<1>2. Surfaces!Next <=> AppQ!Next
  BY
      DEF Surfaces!Threads, Surfaces!Of, Surfaces!NoSession, Surfaces!Idle,
          Surfaces!Unfiltered, Surfaces!Become, Surfaces!Cleared, Surfaces!Active,
          Surfaces!NeedsCheck, Surfaces!Filter, Surfaces!StartFilters,
          Surfaces!ServerChecks, Surfaces!Checked, Surfaces!Kept, Surfaces!Goes,
          Surfaces!CheckArrives, Surfaces!ListThreads, Surfaces!Answers,
          Surfaces!PageArrives, Surfaces!Decorated, Surfaces!Expire,
          Surfaces!ClearThreadListSnapshot, Surfaces!OpenThread, Surfaces!OpenArrives,
          Surfaces!Opened, Surfaces!DeleteContent, Surfaces!Told,
          Surfaces!ServerDeletes, Surfaces!Forced, Surfaces!Deleted,
          Surfaces!VisibilityUpdated, Surfaces!Next, AppQ!Threads, AppQ!Of,
          AppQ!NoSession, AppQ!Idle, AppQ!Unfiltered, AppQ!Become, AppQ!Cleared,
          AppQ!Active, AppQ!NeedsCheck, AppQ!Filter, AppQ!StartFilters,
          AppQ!ServerChecks, AppQ!Checked, AppQ!Kept, AppQ!Goes, AppQ!CheckArrives,
          AppQ!ListThreads, AppQ!Answers, AppQ!PageArrives, AppQ!Decorated,
          AppQ!Expire, AppQ!ClearThreadListSnapshot, AppQ!OpenThread, AppQ!OpenArrives,
          AppQ!Opened, AppQ!DeleteContent, AppQ!Told, AppQ!ServerDeletes, AppQ!Forced,
          AppQ!Deleted, AppQ!VisibilityUpdated, AppQ!Next
<1>3. Surfaces!SnapshotUndeleted <=> AppQ!SnapshotUndeleted
  BY
      DEF Surfaces!SnapshotUndeleted, AppQ!SnapshotUndeleted
<1>4. Surfaces!ReturnsUndeleted <=> AppQ!ReturnsUndeleted
  BY
      DEF Surfaces!ReturnsUndeleted, AppQ!ReturnsUndeleted
<1> QED BY <1>1, <1>2, <1>3, <1>4

LEMMA SurfacesSteps ==
    /\ ClientInit => (focus = "surfaces" => AppQ!Init)
    /\ [ClientNext]_<<focus, clientVars>> =>
        /\ (focus = "surfaces")' <=> focus = "surfaces"
        /\ focus = "surfaces" => [AppQ!Next]_(AppQ!vars)
<1>1. ClientInit => (focus = "surfaces" => AppQ!Init) BY SurfacesIsProved DEF ClientInit
<1>2. ASSUME [ClientNext]_<<focus, clientVars>>
      PROVE  /\ (focus = "surfaces")' <=> focus = "surfaces"
             /\ focus = "surfaces" => [AppQ!Next]_(AppQ!vars)
  BY <1>2, SurfacesIsProved DEF ClientNext, clientVars, surfaceVars, AppQ!vars
<1> QED BY <1>1, <1>2

LEMMA TwoTabsIsProved ==
    /\ TwoTabs!Init <=> AppP!Downloads!Init
    /\ TwoTabs!Next <=> AppP!Downloads!Next
    /\ TwoTabs!NoneResurrected <=> AppP!Downloads!NoneResurrected
<1>1. TwoTabs!Init <=> AppP!Downloads!Init
  BY
      DEF TwoTabs!Row, TwoTabs!NoRows, TwoTabs!Of, TwoTabs!Init, TwoTabs!Cardinality,
          AppP!Downloads!Row, AppP!Downloads!NoRows, AppP!Downloads!Of,
          AppP!Downloads!Init, AppP!Downloads!Cardinality
<1>2. TwoTabs!Next <=> AppP!Downloads!Next
  BY
      DEF TwoTabs!Row, TwoTabs!NoRows, TwoTabs!Of, TwoTabs!Become, TwoTabs!Settled,
          TwoTabs!Bumped, TwoTabs!Loading, TwoTabs!Load, TwoTabs!ListRuns,
          TwoTabs!Waited, TwoTabs!LoadEnds, TwoTabs!Start, TwoTabs!Transferring,
          TwoTabs!ReadEpoch, TwoTabs!Fetched, TwoTabs!Commit, TwoTabs!Committed,
          TwoTabs!TransferFails, TwoTabs!Repair, TwoTabs!Repairing,
          TwoTabs!RepairReads, TwoTabs!Without, TwoTabs!RepairSkips,
          TwoTabs!RepairWrites, TwoTabs!Repaired, TwoTabs!RepairEnds,
          TwoTabs!AbortedIn, TwoTabs!Cancel, TwoTabs!Remove, TwoTabs!RemoveRuns,
          TwoTabs!Removed, TwoTabs!Clear, TwoTabs!Clearing, TwoTabs!Drained,
          TwoTabs!ClearRuns, TwoTabs!Cleared, TwoTabs!ClearFails, TwoTabs!Next,
          TwoTabs!Cardinality, AppP!Downloads!Row, AppP!Downloads!NoRows,
          AppP!Downloads!Of, AppP!Downloads!Become, AppP!Downloads!Settled,
          AppP!Downloads!Bumped, AppP!Downloads!Loading, AppP!Downloads!Load,
          AppP!Downloads!ListRuns, AppP!Downloads!Waited, AppP!Downloads!LoadEnds,
          AppP!Downloads!Start, AppP!Downloads!Transferring, AppP!Downloads!ReadEpoch,
          AppP!Downloads!Fetched, AppP!Downloads!Commit, AppP!Downloads!Committed,
          AppP!Downloads!TransferFails, AppP!Downloads!Repair,
          AppP!Downloads!Repairing, AppP!Downloads!RepairReads, AppP!Downloads!Without,
          AppP!Downloads!RepairSkips, AppP!Downloads!RepairWrites,
          AppP!Downloads!Repaired, AppP!Downloads!RepairEnds, AppP!Downloads!AbortedIn,
          AppP!Downloads!Cancel, AppP!Downloads!Remove, AppP!Downloads!RemoveRuns,
          AppP!Downloads!Removed, AppP!Downloads!Clear, AppP!Downloads!Clearing,
          AppP!Downloads!Drained, AppP!Downloads!ClearRuns, AppP!Downloads!Cleared,
          AppP!Downloads!ClearFails, AppP!Downloads!Next, AppP!Downloads!Cardinality
<1>3. TwoTabs!NoneResurrected <=> AppP!Downloads!NoneResurrected
  BY
      DEF TwoTabs!Of, TwoTabs!NoneResurrected, TwoTabs!Cardinality, AppP!Downloads!Of,
          AppP!Downloads!NoneResurrected, AppP!Downloads!Cardinality
<1> QED BY <1>1, <1>2, <1>3

LEMMA TwoTabsSteps ==
    /\ ClientInit => (focus = "tabs" => AppP!Downloads!Init)
    /\ [ClientNext]_<<focus, clientVars>> =>
        /\ (focus = "tabs")' <=> focus = "tabs"
        /\ focus = "tabs" => [AppP!Downloads!Next]_(AppP!Downloads!vars)
<1>1. ClientInit => (focus = "tabs" => AppP!Downloads!Init) BY TwoTabsIsProved DEF ClientInit
<1>2. ASSUME [ClientNext]_<<focus, clientVars>>
      PROVE  /\ (focus = "tabs")' <=> focus = "tabs"
             /\ focus = "tabs" => [AppP!Downloads!Next]_(AppP!Downloads!vars)
  BY <1>2, TwoTabsIsProved DEF ClientNext, clientVars, tabVars, AppP!Downloads!vars
<1> QED BY <1>1, <1>2

LEMMA OneTabIsProved ==
    /\ OneTab!Init <=> AppQ!Downloads!Init
    /\ OneTab!Next <=> AppQ!Downloads!Next
    /\ OneTab!NoneResurrected <=> AppQ!Downloads!NoneResurrected
    /\ OneTab!ShownStored <=> AppQ!Downloads!ShownStored
<1>1. OneTab!Init <=> AppQ!Downloads!Init
  BY
      DEF OneTab!Row, OneTab!NoRows, OneTab!Of, OneTab!Init, OneTab!Cardinality,
          AppQ!Downloads!Row, AppQ!Downloads!NoRows, AppQ!Downloads!Of,
          AppQ!Downloads!Init, AppQ!Downloads!Cardinality
<1>2. OneTab!Next <=> AppQ!Downloads!Next
  BY
      DEF OneTab!Row, OneTab!NoRows, OneTab!Of, OneTab!Become, OneTab!Settled,
          OneTab!Bumped, OneTab!Loading, OneTab!Load, OneTab!ListRuns, OneTab!Waited,
          OneTab!LoadEnds, OneTab!Start, OneTab!Transferring, OneTab!ReadEpoch,
          OneTab!Fetched, OneTab!Commit, OneTab!Committed, OneTab!TransferFails,
          OneTab!Repair, OneTab!Repairing, OneTab!RepairReads, OneTab!Without,
          OneTab!RepairSkips, OneTab!RepairWrites, OneTab!Repaired, OneTab!RepairEnds,
          OneTab!AbortedIn, OneTab!Cancel, OneTab!Remove, OneTab!RemoveRuns,
          OneTab!Removed, OneTab!Clear, OneTab!Clearing, OneTab!Drained,
          OneTab!ClearRuns, OneTab!Cleared, OneTab!ClearFails, OneTab!Next,
          OneTab!Cardinality, AppQ!Downloads!Row, AppQ!Downloads!NoRows,
          AppQ!Downloads!Of, AppQ!Downloads!Become, AppQ!Downloads!Settled,
          AppQ!Downloads!Bumped, AppQ!Downloads!Loading, AppQ!Downloads!Load,
          AppQ!Downloads!ListRuns, AppQ!Downloads!Waited, AppQ!Downloads!LoadEnds,
          AppQ!Downloads!Start, AppQ!Downloads!Transferring, AppQ!Downloads!ReadEpoch,
          AppQ!Downloads!Fetched, AppQ!Downloads!Commit, AppQ!Downloads!Committed,
          AppQ!Downloads!TransferFails, AppQ!Downloads!Repair,
          AppQ!Downloads!Repairing, AppQ!Downloads!RepairReads, AppQ!Downloads!Without,
          AppQ!Downloads!RepairSkips, AppQ!Downloads!RepairWrites,
          AppQ!Downloads!Repaired, AppQ!Downloads!RepairEnds, AppQ!Downloads!AbortedIn,
          AppQ!Downloads!Cancel, AppQ!Downloads!Remove, AppQ!Downloads!RemoveRuns,
          AppQ!Downloads!Removed, AppQ!Downloads!Clear, AppQ!Downloads!Clearing,
          AppQ!Downloads!Drained, AppQ!Downloads!ClearRuns, AppQ!Downloads!Cleared,
          AppQ!Downloads!ClearFails, AppQ!Downloads!Next, AppQ!Downloads!Cardinality
<1>3. OneTab!NoneResurrected <=> AppQ!Downloads!NoneResurrected
  BY
      DEF OneTab!Of, OneTab!NoneResurrected, OneTab!Cardinality, AppQ!Downloads!Of,
          AppQ!Downloads!NoneResurrected, AppQ!Downloads!Cardinality
<1>4. OneTab!ShownStored <=> AppQ!Downloads!ShownStored
  BY
      DEF OneTab!Quiet, OneTab!ShownStored, OneTab!Cardinality, AppQ!Downloads!Quiet,
          AppQ!Downloads!ShownStored, AppQ!Downloads!Cardinality
<1> QED BY <1>1, <1>2, <1>3, <1>4

LEMMA OneTabSteps ==
    /\ ClientInit => (focus = "tab" => AppQ!Downloads!Init)
    /\ [ClientNext]_<<focus, clientVars>> =>
        /\ (focus = "tab")' <=> focus = "tab"
        /\ focus = "tab" => [AppQ!Downloads!Next]_(AppQ!Downloads!vars)
<1>1. ClientInit => (focus = "tab" => AppQ!Downloads!Init) BY OneTabIsProved DEF ClientInit
<1>2. ASSUME [ClientNext]_<<focus, clientVars>>
      PROVE  /\ (focus = "tab")' <=> focus = "tab"
             /\ focus = "tab" => [AppQ!Downloads!Next]_(AppQ!Downloads!vars)
  BY <1>2, OneTabIsProved DEF ClientNext, clientVars, tabVars, AppQ!Downloads!vars
<1> QED BY <1>1, <1>2

LEMMA ApiIsProved ==
    /\ Api!Init <=> AppQ!Api!Init
    /\ Api!Next <=> AppQ!Api!Next
    /\ Api!ServedFresh <=> AppQ!Api!ServedFresh
    /\ Api!SizeFits <=> AppQ!Api!SizeFits
<1>1. Api!Init <=> AppQ!Api!Init
  BY
      DEF Api!Idle, Api!Init, AppQ!Api!Idle, AppQ!Api!Init
<1>2. Api!Next <=> AppQ!Api!Next
  BY
      DEF Api!Idle, Api!Size, Api!SizeOf, Api!Key, Api!At, Api!Listed, Api!Request, Api!Lend,
          Api!Waiting, Api!Served, Api!Clear, Api!Touch, Api!Put, Api!Trim, Api!Store,
          Api!Free, Api!GetFresh, Api!GetStale, Api!GetMissing, Api!Answer, Api!Ended,
          Api!Arrives, Api!Fails, Api!Change, Api!Changes, Api!Changed,
          Api!ChangeFails, Api!SetSession, Api!Ages, Api!Next, Api!Cardinality,
          Api!RemoveAt, AppQ!Api!Idle, AppQ!Api!Size, AppQ!Api!SizeOf, AppQ!Api!Key,
          AppQ!Api!At, AppQ!Api!Listed, AppQ!Api!Request, AppQ!Api!Lend, AppQ!Api!Waiting,
          AppQ!Api!Served, AppQ!Api!Clear, AppQ!Api!Touch, AppQ!Api!Put, AppQ!Api!Trim,
          AppQ!Api!Store, AppQ!Api!Free, AppQ!Api!GetFresh, AppQ!Api!GetStale,
          AppQ!Api!GetMissing, AppQ!Api!Answer, AppQ!Api!Ended, AppQ!Api!Arrives,
          AppQ!Api!Fails, AppQ!Api!Change, AppQ!Api!Changes, AppQ!Api!Changed,
          AppQ!Api!ChangeFails, AppQ!Api!SetSession, AppQ!Api!Ages, AppQ!Api!Next,
          AppQ!Api!Cardinality, AppQ!Api!RemoveAt
<1>3. Api!ServedFresh <=> AppQ!Api!ServedFresh
  BY
      DEF Api!ServedFresh, AppQ!Api!ServedFresh
<1>4. Api!SizeFits <=> AppQ!Api!SizeFits
  BY
      DEF Api!Size, Api!SizeOf, Api!SizeFits, Api!Cardinality, AppQ!Api!Size,
          AppQ!Api!SizeOf, AppQ!Api!SizeFits, AppQ!Api!Cardinality
<1> QED BY <1>1, <1>2, <1>3, <1>4

LEMMA ApiSteps ==
    /\ ClientInit => (focus = "api" => AppQ!Api!Init)
    /\ [ClientNext]_<<focus, clientVars>> =>
        /\ (focus = "api")' <=> focus = "api"
        /\ focus = "api" => [AppQ!Api!Next]_(AppQ!Api!vars)
<1>1. ClientInit => (focus = "api" => AppQ!Api!Init) BY ApiIsProved DEF ClientInit
<1>2. ASSUME [ClientNext]_<<focus, clientVars>>
      PROVE  /\ (focus = "api")' <=> focus = "api"
             /\ focus = "api" => [AppQ!Api!Next]_(AppQ!Api!vars)
  BY <1>2, ApiIsProved DEF ClientNext, clientVars, apiVars, AppQ!Api!vars
<1> QED BY <1>1, <1>2

LEMMA BadgeIsProved ==
    /\ Badge!Init <=> AppP!Badge!Init
    /\ Badge!Next <=> AppP!Badge!Next
    /\ Badge!ShownOfSession <=> AppP!Badge!ShownOfSession
    /\ Badge!AskedIsShown <=> AppP!Badge!AskedIsShown
<1>1. Badge!Init <=> AppP!Badge!Init
  BY
      DEF Badge!Init, AppP!Badge!Init
<1>2. Badge!Next <=> AppP!Badge!Next
  BY
      DEF Badge!Fresh, Badge!Refreshed, Badge!Become, Badge!Cleared, Badge!Ask,
          Badge!Show, Badge!Hide, Badge!Ages, Badge!RetryTimer, Badge!Changes,
          Badge!Expire, Badge!Answer, Badge!Finally, Badge!Counted, Badge!Fails,
          Badge!Unauthorized, Badge!Login, Badge!Enter, Badge!Logout, Badge!Next,
          Badge!Cardinality, AppP!Badge!Fresh, AppP!Badge!Refreshed, AppP!Badge!Become,
          AppP!Badge!Cleared, AppP!Badge!Ask, AppP!Badge!Show, AppP!Badge!Hide,
          AppP!Badge!Ages, AppP!Badge!RetryTimer, AppP!Badge!Changes,
          AppP!Badge!Expire, AppP!Badge!Answer, AppP!Badge!Finally, AppP!Badge!Counted,
          AppP!Badge!Fails, AppP!Badge!Unauthorized, AppP!Badge!Login,
          AppP!Badge!Enter, AppP!Badge!Logout, AppP!Badge!Next, AppP!Badge!Cardinality
<1>3. Badge!ShownOfSession <=> AppP!Badge!ShownOfSession
  BY
      DEF Badge!ShownOfSession, AppP!Badge!ShownOfSession
<1>4. Badge!AskedIsShown <=> AppP!Badge!AskedIsShown
  BY
      DEF Badge!AskedIsShown, AppP!Badge!AskedIsShown
<1> QED BY <1>1, <1>2, <1>3, <1>4

LEMMA BadgeSteps ==
    /\ ClientInit => (focus = "badge" => AppP!Badge!Init)
    /\ [ClientNext]_<<focus, clientVars>> =>
        /\ (focus = "badge")' <=> focus = "badge"
        /\ focus = "badge" => [AppP!Badge!Next]_(AppP!Badge!vars)
<1>1. ClientInit => (focus = "badge" => AppP!Badge!Init) BY BadgeIsProved DEF ClientInit
<1>2. ASSUME [ClientNext]_<<focus, clientVars>>
      PROVE  /\ (focus = "badge")' <=> focus = "badge"
             /\ focus = "badge" => [AppP!Badge!Next]_(AppP!Badge!vars)
  BY <1>2, BadgeIsProved DEF ClientNext, clientVars, badgeVars, AppP!Badge!vars
<1> QED BY <1>1, <1>2

LEMMA LocationIsProved ==
    /\ Location!Init <=> AppP!Location!Init
    /\ Location!Next <=> AppP!Location!Next
    /\ Location!OwnerIsCurrent <=> AppP!Location!OwnerIsCurrent
    /\ Location!DisabledForgets <=> AppP!Location!DisabledForgets
<1>1. Location!Init <=> AppP!Location!Init
  BY
      DEF Location!Times, Location!Init, AppP!Location!Times, AppP!Location!Init
<1>2. Location!Next <=> AppP!Location!Next
  BY
      DEF Location!Cancelled, Location!Current, Location!Ended, Location!Goes,
          Location!Persisted, Location!Configure, Location!Hide, Location!Show,
          Location!Refresh, Location!Read, Location!Permitted, Location!Located,
          Location!Published, Location!Ends, Location!Written, Location!AttemptAges,
          Location!Aged, Location!SuccessAges, Location!Next, AppP!Location!Cancelled,
          AppP!Location!Current, AppP!Location!Ended, AppP!Location!Goes,
          AppP!Location!Persisted, AppP!Location!Configure, AppP!Location!Hide,
          AppP!Location!Show, AppP!Location!Refresh, AppP!Location!Read,
          AppP!Location!Permitted, AppP!Location!Located, AppP!Location!Published,
          AppP!Location!Ends, AppP!Location!Written, AppP!Location!AttemptAges,
          AppP!Location!Aged, AppP!Location!SuccessAges, AppP!Location!Next
<1>3. Location!OwnerIsCurrent <=> AppP!Location!OwnerIsCurrent
  BY
      DEF Location!Current, Location!OwnerIsCurrent, AppP!Location!Current,
          AppP!Location!OwnerIsCurrent
<1>4. Location!DisabledForgets <=> AppP!Location!DisabledForgets
  BY
      DEF Location!DisabledForgets, AppP!Location!DisabledForgets
<1> QED BY <1>1, <1>2, <1>3, <1>4

LEMMA LocationSteps ==
    /\ ClientInit => (focus = "location" => AppP!Location!Init)
    /\ [ClientNext]_<<focus, clientVars>> =>
        /\ (focus = "location")' <=> focus = "location"
        /\ focus = "location" => [AppP!Location!Next]_(AppP!Location!vars)
<1>1. ClientInit => (focus = "location" => AppP!Location!Init) BY LocationIsProved DEF ClientInit
<1>2. ASSUME [ClientNext]_<<focus, clientVars>>
      PROVE  /\ (focus = "location")' <=> focus = "location"
             /\ focus = "location" => [AppP!Location!Next]_(AppP!Location!vars)
  BY <1>2, LocationIsProved DEF ClientNext, clientVars, locationVars, AppP!Location!vars
<1> QED BY <1>1, <1>2

-----------------------------------------------------------------------------
\* None, Nothing, Absent and Torn are none of the values they stand beside.
StoreValues ==
    /\ Absent \notin StoreContents
    /\ Nothing \notin [{1} -> Nat] /\ Nothing \notin [{1} -> StoreContents \cup {Absent}]
    /\ {Nothing, Torn} \cap [{1} -> {StoreP!Chunked(s) : s \in StoreContents} \cup {Absent}] = {}
OutboxValues == IsFiniteSet(Pages) /\ \A items \in SUBSET Pages : None # items
SurfaceValues == AppP!NoneApart /\ AppQ!NoneApart
TabValues == AppP!DownloadValues /\ AppQ!DownloadValues
SessionValues == AppQ!ApiValues /\ AppP!BadgeValues /\ AppP!LocationValues

\* A load leaves no orphan, in two tabs that exclude each other, whatever interrupted
\* saves, sweeps and clears left before it (encrypted-message-store.mjs: load).
THEOREM LoadsSweepOrphans == StoreValues => (ClientSpec => []StoreSweepsOrphans)
<1> SUFFICES ASSUME StoreValues PROVE ClientSpec => []StoreSweepsOrphans OBVIOUS
<1>1. (focus = "store" => StoreP!LoadSweepsOrphans) => StoreSweepsOrphans
  BY StoreIsProved DEF StoreSweepsOrphans
<1>2. StoreP!Spec => []StoreP!LoadSweepsOrphans
  <2>1. StoreContents \subseteq Seq({r1, r2}) BY DEF StoreContents
  <2>2. {1} \subseteq Nat /\ 2 \in Nat \ {0} /\ TRUE \in BOOLEAN OBVIOUS
  <2> QED BY <2>1, <2>2, StoreP!LoadsLeaveNoOrphan DEF StoreValues
<1> QED BY <1>1, <1>2, StoreSteps, PTL DEF ClientSpec, StoreP!Spec

\* With a queue of one, what a call has admitted stays queued until the server was
\* told of its event (sendPending, deliverNotification).
THEOREM AdmittedStaysQueued == OutboxValues => (ClientSpec => OutboxOwed)
<1> SUFFICES ASSUME OutboxValues PROVE ClientSpec => OutboxOwed OBVIOUS
<1>1. OutboxP!Spec => [][OutboxP!KeptUntilTold]_(OutboxP!vars)
  <2>1. {} \subseteq OutboxP!Directory /\ None \notin OutboxP!Directory BY DEF OutboxP!Directory
  <2>2. {} \subseteq Nat /\ None \notin OutboxP!Statement BY DEF OutboxP!Statement
  <2>3. 1 \in Nat \ {0} /\ 0 \in Nat OBVIOUS
  <2>4. Faults \in BOOLEAN BY FaultsBoolean
  <2>5. OutboxP!IsFiniteSet(Pages) BY DEF OutboxValues, IsFiniteSet, OutboxP!IsFiniteSet
  <2>6. OutboxP!Spec => OutboxP!OwedUntilTold
    BY <2>1, <2>2, <2>3, <2>4, <2>5, OutboxP!KeptAll DEF OutboxValues
  <2> QED BY <2>6 DEF OutboxP!OwedUntilTold
<1>2. /\ focus = "outbox" => [OutboxP!KeptUntilTold]_(OutboxP!vars)
      /\ (focus = "outbox")' <=> focus = "outbox"
      /\ [ClientNext]_<<focus, clientVars>>
      => [focus = "outbox" => Outbox!KeptUntilTold]_<<focus, outboxVars>>
  BY OutboxIsProved DEF ClientNext, clientVars, outboxVars, OutboxP!vars
<1> QED BY <1>1, <1>2, OutboxSteps, PTL DEF ClientSpec, OutboxP!Spec, OutboxOwed

\* What is opened, or comes back from a deletion, shows nothing this device knows to
\* be deleted, nor does the snapshot of the list, and an older page of the list does
\* not replace the snapshot of a newer one (messaging-surface-controller.ts).
THEOREM SurfacesReturnUndeleted == SurfaceValues => (ClientSpec => SurfaceReturns)
<1> SUFFICES ASSUME SurfaceValues PROVE ClientSpec => SurfaceReturns OBVIOUS
<1>1. /\ AppP!Spec => [][AppP!ReturnsUndeleted /\ AppP!SnapshotsAdvance]_(AppP!vars)
      /\ AppP!Spec => []AppP!SnapshotUndeleted
  BY AppP!SurfaceReturnsUndeleted, AppP!SnapshotsShowNoDeleted DEF SurfaceValues
<1>2. /\ AppQ!Spec => [][AppQ!ReturnsUndeleted /\ AppQ!SnapshotsAdvance]_(AppQ!vars)
      /\ AppQ!Spec => []AppQ!SnapshotUndeleted
  BY AppQ!SurfaceReturnsUndeleted, AppQ!SnapshotsShowNoDeleted DEF SurfaceValues
<1> DEFINE Returns ==
        /\ focus = "surface" =>
            Surface!ReturnsUndeleted /\ Surface!SnapshotsAdvance /\ Surface!SnapshotUndeleted'
        /\ focus = "surfaces" => Surfaces!ReturnsUndeleted /\ Surfaces!SnapshotUndeleted'
<1>3. ASSUME [ClientNext]_<<focus, clientVars>>,
             focus = "surface" =>
                /\ [AppP!ReturnsUndeleted /\ AppP!SnapshotsAdvance]_(AppP!vars)
                /\ AppP!SnapshotUndeleted',
             focus = "surfaces" =>
                /\ [AppQ!ReturnsUndeleted /\ AppQ!SnapshotsAdvance]_(AppQ!vars)
                /\ AppQ!SnapshotUndeleted'
      PROVE  [Returns]_<<focus, surfaceVars>>
  <2>1. (Surface!SnapshotUndeleted <=> AppP!SnapshotUndeleted)' BY SurfaceIsProved, PTL
  <2>2. (Surfaces!SnapshotUndeleted <=> AppQ!SnapshotUndeleted)' BY SurfacesIsProved, PTL
  <2> QED
    BY <1>3, <2>1, <2>2, SurfaceIsProved, SurfacesIsProved
    DEF ClientNext, clientVars, surfaceVars, AppP!vars, AppQ!vars
<1> HIDE DEF Returns
<1>4. ClientSpec => [][Returns]_<<focus, surfaceVars>>
  BY <1>1, <1>2, <1>3, SurfaceSteps, SurfacesSteps, PTL DEF ClientSpec, AppP!Spec, AppQ!Spec
<1> QED BY <1>4 DEF SurfaceReturns, Returns

\* Tabs that clear and download at once store no track a clearing has been after, nor
\* more than there is room for, and one tab shows what is stored (device-downloads.ts).
THEOREM TabsKeepDownloads == TabValues => (ClientSpec => []DownloadsKept)
<1> SUFFICES ASSUME TabValues PROVE ClientSpec => []DownloadsKept OBVIOUS
<1>1. /\ focus = "tabs" => AppP!Downloads!NoneResurrected
      /\ focus = "tab" => AppQ!Downloads!NoneResurrected /\ AppQ!Downloads!ShownStored
      => DownloadsKept
  BY TwoTabsIsProved, OneTabIsProved DEF DownloadsKept
<1>2. AppP!Downloads!Spec => []AppP!Downloads!NoneResurrected
  BY AppP!ClearedStaysClear DEF TabValues
<1>3. /\ AppQ!Downloads!Spec => []AppQ!Downloads!NoneResurrected
      /\ AppQ!Downloads!Spec => []AppQ!Downloads!ShownStored
  BY AppQ!ClearedStaysClear, AppQ!ShownIsStored DEF TabValues
<1> QED
  BY <1>1, <1>2, <1>3, TwoTabsSteps, OneTabSteps, PTL
  DEF ClientSpec, AppP!Downloads!Spec, AppQ!Downloads!Spec

\* However late the answers come, what is served from the cache was asked for in the
\* session at hand and is of it, unless a caller sent another session's token itself
\* under the same address and generation; what is counted on the badge, sent or stored
\* of the position is of the account and session at hand; and none of it is older than
\* what the app has asked for or done.
THEOREM SessionsStayApart == SessionValues => (ClientSpec => []SessionsApart)
<1> SUFFICES ASSUME SessionValues PROVE ClientSpec => []SessionsApart OBVIOUS
<1>1. /\ focus = "api" => AppQ!Api!ServedFresh /\ AppQ!Api!SizeFits
      /\ focus = "badge" => AppP!Badge!ShownOfSession /\ AppP!Badge!AskedIsShown
      /\ focus = "location" => AppP!Location!OwnerIsCurrent /\ AppP!Location!DisabledForgets
      => SessionsApart
  BY ApiIsProved, BadgeIsProved, LocationIsProved DEF SessionsApart
<1>2. AppQ!Api!Spec => []AppQ!Api!ServedFresh /\ []AppQ!Api!SizeFits
  BY AppQ!ServedIsFresh, AppQ!CacheFitsItsBounds DEF SessionValues
<1>3. AppP!Badge!Spec => []AppP!Badge!ShownOfSession /\ []AppP!Badge!AskedIsShown
  BY AppP!BadgeOfSession, AppP!NoRefreshIsLost DEF SessionValues
<1>4. AppP!Location!Spec => []AppP!Location!OwnerIsCurrent /\ []AppP!Location!DisabledForgets
  BY AppP!PositionIsOfOwner, AppP!WithdrawnIsForgotten DEF SessionValues
<1> QED
  BY <1>1, <1>2, <1>3, <1>4, ApiSteps, BadgeSteps, LocationSteps, PTL
  DEF ClientSpec, AppQ!Api!Spec, AppP!Badge!Spec, AppP!Location!Spec
=============================================================================
