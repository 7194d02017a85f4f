------------------------------ MODULE ApiCache ------------------------------
(***************************************************************************)
(* The cache of GET answers in front of the API (api/client.ts: apiFetch,  *)
(* clearApiGetCache, storeApiCacheEntry, trimApiGetCache,                  *)
(* setApiSessionToken), on a device that sends its session token itself.   *)
(*                                                                         *)
(* An answer is what the server held when it answered: its version, the    *)
(* session it is for, and the one it was asked for in.  The two differ     *)
(* where the caller sent a token of its own, which wins.  The policies     *)
(* differ in their times only; an entry grows old by itself.               *)
(***************************************************************************)
EXTENDS Naturals, FiniteSets, SequencesExt

CONSTANTS
    Calls,          \* calls of apiFetch that may be under way
    Urls,           \* addresses the cache has a policy for
    None,
    MaxEntries,     \* maxApiCacheEntries
    MaxBytes,       \* maxApiCacheBytes
    MaxVersion,     \* bound: changes the server makes
    MaxSession      \* bound: changes of the session

VARIABLES
    server,     \* the number of changes made at the server
    session,    \* nativeSessionToken, counted by its changes
    generation, \* apiCacheGeneration
    cache,      \* apiGetCache in the order of the Map: [key, body, age]
    bytes,      \* apiGetCacheBytes
    requests,   \* GETs on the network; those listed are in apiGetRequests
    call,       \* the calls
    known,      \* ghost: the last change whose answer this client has processed
    lent        \* ghost: the keys some request under which sent another session's token

vars == <<server, session, generation, cache, bytes, requests, call, known, lent>>

Idle == [at |-> "idle", key |-> None, since |-> 0, session |-> 0, body |-> None]

Init ==
    /\ server = 0 /\ session = 0 /\ known = 0 /\ lent = {}
    /\ generation = 0 /\ cache = <<>> /\ bytes = 0 /\ requests = {}
    /\ call = [c \in Calls |-> Idle]

\* The size of a body, and of the entries I of s, unit by unit.
Size(body) == body.version + 1
SizeOf(s, I) == Cardinality(UNION {{i} \X (1 .. Size(s[i].body)) : i \in I})

Key(u) == <<generation, u>>
At(key) == {i \in DOMAIN cache : cache[i].key = key}
Listed(key) == {r \in requests : r.listed /\ r.key = key}

\* The caller's Authorization, of a session it remembers, or the app's if it sends none.
Request(key, shared, waiting, as) ==
    [key |-> key, shared |-> shared, listed |-> shared, waiting |-> waiting,
     made |-> session, session |-> as, body |-> None]
Lend(key, as) == lent' = IF as = session THEN lent ELSE lent \cup {key}

Waiting(key) ==
    [Idle EXCEPT !.at = "waiting", !.key = key, !.since = known, !.session = session]
Served(c, body) == [c EXCEPT !.at = "served", !.body = body]
-----------------------------------------------------------------------------
(* clearApiGetCache, touchApiCacheEntry, storeApiCacheEntry, trimApiGetCache *)

\* The generation is not counted on.
MutClear ==
    /\ UNCHANGED generation
    /\ cache' = <<>> /\ bytes' = 0
    /\ requests' = {[r EXCEPT !.listed = FALSE] : r \in requests}

\* The requests go on, for those who wait for them.
Clear ==
    /\ generation' = generation + 1
    /\ cache' = <<>> /\ bytes' = 0
    /\ requests' = {[r EXCEPT !.listed = FALSE] : r \in requests}

Touch(i) == cache' = Append(RemoveAt(cache, i), cache[i])

\* A key the Map has keeps its place.
Put(e) ==
    IF At(e.key) = {} THEN Append(cache, e)
    ELSE [i \in DOMAIN cache |-> IF i \in At(e.key) THEN e ELSE cache[i]]

\* The oldest n entries are dropped, as few as make the others fit.
Trim(s, size) ==
    LET left(n) == size - SizeOf(s, 1 .. n)
        fits(n) == Len(s) - n <= MaxEntries /\ left(n) <= MaxBytes
    IN \E n \in 0 .. Len(s) :
        /\ n = Len(s) \/ fits(n)
        /\ \A m \in 0 .. n - 1 : ~fits(m)
        /\ cache' = SubSeq(s, n + 1, Len(s)) /\ bytes' = left(n)

Store(key, body) ==
    Trim(Put([key |-> key, body |-> body, age |-> "fresh"]),
         bytes - SizeOf(cache, At(key)) + Size(body))
-----------------------------------------------------------------------------
(* apiFetch of an address with a policy *)

Free(c) == call[c].at \in {"idle", "served"}

GetFresh(c, u) ==
    /\ Free(c)
    /\ \E i \in At(Key(u)) :
        /\ cache[i].age = "fresh"
        /\ call' = [call EXCEPT ![c] = Served(Waiting(Key(u)), cache[i].body)]
        /\ Touch(i)
    /\ UNCHANGED <<server, session, generation, bytes, requests, known, lent>>

\* The stale answer serves, and is refreshed behind it.
GetStale(c, u) ==
    /\ Free(c)
    /\ \E i \in At(Key(u)) :
        /\ cache[i].age = "stale"
        /\ call' = [call EXCEPT ![c] = Served(Waiting(Key(u)), cache[i].body)]
        /\ Touch(i)
    /\ IF Listed(Key(u)) # {} THEN UNCHANGED <<requests, lent>>
       ELSE \E as \in 0 .. session :
              requests' = requests \cup {Request(Key(u), TRUE, {}, as)} /\ Lend(Key(u), as)
    /\ UNCHANGED <<server, session, generation, bytes, known>>

\* A caller with a signal of its own shares no request; one that joins a request
\* sends no token.
GetMissing(c, u) ==
    /\ Free(c)
    /\ \A i \in At(Key(u)) : cache[i].age = "expired"
    /\ call' = [call EXCEPT ![c] = Waiting(Key(u))]
    /\ \/ \E shared \in BOOLEAN, as \in 0 .. session :
            /\ shared => Listed(Key(u)) = {}
            /\ requests' = requests \cup {Request(Key(u), shared, {c}, as)}
            /\ Lend(Key(u), as)
       \/ \E r \in Listed(Key(u)) :
            /\ requests' = (requests \ {r}) \cup {[r EXCEPT !.waiting = @ \cup {c}]}
            /\ UNCHANGED lent
    /\ UNCHANGED <<server, session, generation, cache, bytes, known>>

\* The server answers a request ...
Answer(r) ==
    /\ r.body = None
    /\ requests' = (requests \ {r})
            \cup {[r EXCEPT !.body = [version |-> server, made |-> r.made, session |-> r.session]]}
    /\ UNCHANGED <<server, session, generation, cache, bytes, call, known, lent>>

\* ... a shared one, when it ends, takes whatever apiGetRequests has under its key ...
Ended(r) == {[q EXCEPT !.listed = @ /\ ~(r.shared /\ q.key = r.key)] : q \in requests \ {r}}

\* ... and its answer arrives: it is stored under the key of the request.
Arrives(r) ==
    /\ r.body # None
    /\ Store(r.key, r.body)
    /\ requests' = Ended(r)
    /\ call' = [c \in Calls |-> IF c \in r.waiting THEN Served(call[c], r.body) ELSE call[c]]
    /\ UNCHANGED <<server, session, generation, known, lent>>

\* It times out, is refused or is no JSON: nothing is stored.
Fails(r) ==
    /\ requests' = Ended(r)
    /\ call' = [c \in Calls |-> IF c \in r.waiting THEN Idle ELSE call[c]]
    /\ UNCHANGED <<server, session, generation, cache, bytes, known, lent>>
-----------------------------------------------------------------------------
(* apiFetch of anything but a GET, and the session *)

Change(c) ==
    /\ Free(c)
    /\ call' = [call EXCEPT ![c] = [Idle EXCEPT !.at = "changing"]]
    /\ UNCHANGED <<server, session, generation, cache, bytes, requests, known, lent>>

Changes(c) ==
    /\ call[c].at = "changing" /\ server < MaxVersion
    /\ server' = server + 1
    /\ call' = [call EXCEPT ![c].at = "changed", ![c].since = server']
    /\ UNCHANGED <<session, generation, cache, bytes, requests, known, lent>>

Changed(c) ==
    /\ call[c].at = "changed"
    /\ Clear
    /\ known' = IF call[c].since > known THEN call[c].since ELSE known
    /\ call' = [call EXCEPT ![c] = Idle]
    /\ UNCHANGED <<server, session, lent>>

\* The answer is a refusal or is lost; the change may have been made.
ChangeFails(c) ==
    /\ call[c].at \in {"changing", "changed"}
    /\ call' = [call EXCEPT ![c] = Idle]
    /\ UNCHANGED <<server, session, generation, cache, bytes, requests, known, lent>>

SetSession ==
    /\ session < MaxSession
    /\ session' = session + 1
    /\ Clear
    /\ UNCHANGED <<server, call, known, lent>>

\* expiresAt, then staleUntil.
Ages(i) ==
    /\ cache[i].age # "expired"
    /\ cache' = [cache EXCEPT ![i].age = IF @ = "fresh" THEN "stale" ELSE "expired"]
    /\ UNCHANGED <<server, session, generation, bytes, requests, call, known, lent>>

Next ==
    \/ \E c \in Calls, u \in Urls : GetFresh(c, u) \/ GetStale(c, u) \/ GetMissing(c, u)
    \/ \E r \in requests : Answer(r) \/ Arrives(r) \/ Fails(r)
    \/ \E c \in Calls : Change(c) \/ Changes(c) \/ Changed(c) \/ ChangeFails(c)
    \/ SetSession
    \/ \E i \in DOMAIN cache : Ages(i)

Spec == Init /\ [][Next]_vars
-----------------------------------------------------------------------------
\* What a call is served was asked for in the session the call was made in, and
\* answered after every change whose answer the client had processed by then,
\* however late the answers come and whoever shares them.  It was answered for
\* that session too, unless a request under the call's own key, made since the
\* cache was last cleared, sent the token of another: no key tells those apart.
ServedFresh ==
    \A c \in Calls : call[c].at = "served" =>
        /\ call[c].body.made = call[c].session
        /\ call[c].body.version >= call[c].since
        /\ call[c].body.session = call[c].session \/ call[c].key \in lent

\* The size the cache trims by is the size of what it holds, whatever was cleared
\* under an answer on its way, and it fits.
SizeFits ==
    /\ bytes = SizeOf(cache, DOMAIN cache)
    /\ Len(cache) <= MaxEntries /\ bytes <= MaxBytes
=============================================================================
