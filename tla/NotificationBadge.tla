------------------------- MODULE NotificationBadge -------------------------
(***************************************************************************)
(* The count of unread notifications (notifications/badgeStore.ts) through *)
(* logins, logouts and expired sessions (App.tsx: handleAuthenticated,     *)
(* handleLogout, handleUnauthorized), on a device that sends its session   *)
(* token itself.                                                           *)
(*                                                                         *)
(* A count is the session it was taken for and the time, by the changes    *)
(* the server has made.                                                    *)
(***************************************************************************)
EXTENDS Naturals, FiniteSets

CONSTANTS
    None,           \* no session, no count, no request
    MaxChange,      \* bound: changes of the count at the server
    MaxSession      \* bound: logins

VARIABLES
    server,     \* the changes made, and the sessions the server accepts
    session,    \* the session of the app
    requests,   \* GETs of /notifications/unread-count under way
    badge       \* the module's state, and whether the app is visible

vars == <<server, session, requests, badge>>

Init ==
    /\ server = [changes |-> 0, accepts |-> {}]
    /\ session = [current |-> None, made |-> 0, entering |-> FALSE, unauthorizedHandled |-> FALSE]
    /\ requests = {}
    /\ badge = [epoch |-> 0, pendingRequest |-> None, queued |-> FALSE, retry |-> FALSE,
                recent |-> FALSE, shown |-> None, visible |-> TRUE,
                asked |-> 0]   \* ghost: the changes made when it was last asked for

\* A promise of its own for each request.
Fresh(sent) == CHOOSE n \in 1 .. Cardinality(sent) + 1 : \A r \in sent : r.id # n

\* refreshNotificationBadge, where b and sent are the state it is called in and s
\* the session whose token goes along.
Refreshed(b, sent, s, force) ==
    LET c == [b EXCEPT !.asked = IF force THEN server.changes ELSE @] IN
    IF ~force /\ b.recent THEN [badge |-> c, requests |-> sent]
    ELSE IF b.pendingRequest # None
    THEN [badge |-> [c EXCEPT !.queued = @ \/ force], requests |-> sent]
    ELSE [badge |-> [c EXCEPT !.pendingRequest = Fresh(sent), !.retry = FALSE],
          requests |-> sent \cup {[id |-> Fresh(sent), epoch |-> b.epoch, session |-> s, answer |-> None]}]

Become(x) == badge' = x.badge /\ requests' = x.requests

\* clearNotificationBadge
Cleared(b) ==
    [b EXCEPT !.epoch = @ + 1, !.retry = FALSE, !.pendingRequest = None, !.queued = FALSE,
              !.recent = FALSE, !.shown = None, !.asked = 0]
-----------------------------------------------------------------------------
(* What asks for the count: a screen, a push message, the app coming to the *)
(* front.                                                                   *)

Ask(force) ==
    /\ badge.visible
    /\ Become(Refreshed(badge, requests, session.current, force))
    /\ UNCHANGED <<server, session>>

Show ==
    /\ ~badge.visible
    /\ Become(Refreshed([badge EXCEPT !.visible = TRUE], requests, session.current, TRUE))
    /\ UNCHANGED <<server, session>>

Hide ==
    /\ badge.visible
    /\ badge' = [badge EXCEPT !.visible = FALSE]
    /\ UNCHANGED <<server, session, requests>>

\* Ten seconds have passed since the last count.
Ages ==
    /\ badge.recent
    /\ badge' = [badge EXCEPT !.recent = FALSE]
    /\ UNCHANGED <<server, session, requests>>

RetryTimer ==
    /\ badge.retry
    /\ LET b == [badge EXCEPT !.retry = FALSE] IN
        IF b.visible THEN Become(Refreshed(b, requests, session.current, TRUE))
        ELSE badge' = b /\ UNCHANGED requests
    /\ UNCHANGED <<server, session>>
-----------------------------------------------------------------------------
(* The server *)

Changes ==
    /\ server.changes < MaxChange
    /\ server' = [server EXCEPT !.changes = @ + 1]
    /\ UNCHANGED <<session, requests, badge>>

\* A session is revoked, by its logout or otherwise, or expires.
Expire(s) ==
    /\ server' = [server EXCEPT !.accepts = @ \ {s}]
    /\ UNCHANGED <<session, requests, badge>>

Answer(r) ==
    /\ r.answer = None
    /\ requests' = (requests \ {r}) \cup {[r EXCEPT !.answer =
            IF r.session \in server.accepts THEN [ok |-> TRUE, count |-> server.changes]
            ELSE [ok |-> FALSE, count |-> 0]]}
    /\ UNCHANGED <<server, session, badge>>
-----------------------------------------------------------------------------
(* The answer arrives *)

\* finally: of the request that is pending still.
Finally(b, sent, r) ==
    LET c == [b EXCEPT !.pendingRequest = None, !.queued = FALSE] IN
    IF b.pendingRequest # r.id THEN [badge |-> b, requests |-> sent]
    ELSE IF b.queued THEN Refreshed(c, sent, session.current, TRUE)
    ELSE [badge |-> c, requests |-> sent]

Counted(r) ==
    /\ r.answer # None /\ r.answer.ok
    /\ Become(Finally(
            IF r.epoch # badge.epoch THEN badge
            ELSE [badge EXCEPT !.recent = TRUE,
                               !.shown = [session |-> r.session, count |-> r.answer.count]],
            requests \ {r}, r))
    /\ UNCHANGED <<server, session>>

\* The network fails, or the answer is no count.
Fails(r) ==
    /\ Become(Finally(IF r.epoch # badge.epoch THEN badge ELSE [badge EXCEPT !.retry = TRUE],
                      requests \ {r}, r))
    /\ UNCHANGED <<server, session>>

\* A 401 ends the session of the app, whichever session it is the answer to.
Unauthorized(r) ==
    /\ r.answer # None /\ ~r.answer.ok /\ ~session.unauthorizedHandled
    /\ session' = [session EXCEPT !.current = None, !.unauthorizedHandled = TRUE]
    /\ Become(Finally(Cleared(badge), requests \ {r}, r))
    /\ UNCHANGED server
-----------------------------------------------------------------------------
(* The session *)

Login ==
    /\ session.current = None /\ ~session.entering /\ session.made < MaxSession
    /\ LET s == session.made + 1 IN
        /\ session' = [current |-> s, made |-> s, entering |-> TRUE, unauthorizedHandled |-> FALSE]
        /\ server' = [server EXCEPT !.accepts = @ \cup {s}]
    /\ UNCHANGED <<requests, badge>>

\* The token is stored, whatever has become of the session meanwhile.
Enter ==
    /\ session.entering
    /\ session' = [session EXCEPT !.entering = FALSE]
    /\ Become(Refreshed(badge, requests, session.current, TRUE))
    /\ UNCHANGED server

Logout ==
    /\ session.current # None
    /\ session' = [session EXCEPT !.current = None]
    /\ badge' = Cleared(badge)
    /\ UNCHANGED <<server, requests>>

Next ==
    \/ \E force \in BOOLEAN : Ask(force)
    \/ Show \/ Hide \/ Ages \/ RetryTimer
    \/ Changes \/ \E s \in server.accepts : Expire(s)
    \/ \E r \in requests : Answer(r) \/ Counted(r) \/ Fails(r) \/ Unauthorized(r)
    \/ Login \/ Enter \/ Logout

Spec == Init /\ [][Next]_vars
-----------------------------------------------------------------------------
\* What is shown was counted for the session of the app, however late the answers
\* to an earlier session's requests come.
ShownOfSession == badge.shown # None => badge.shown.session = session.current

\* No forced refresh is lost: in a visible app of a session with neither a
\* request nor a retry ahead, the count is as new as the last time it was asked for.
AskedIsShown ==
    (/\ session.current # None /\ ~session.entering /\ badge.visible
     /\ badge.pendingRequest = None /\ ~badge.retry)
        => badge.shown # None /\ badge.shown.count >= badge.asked
=============================================================================
