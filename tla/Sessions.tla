------------------------------ MODULE Sessions ------------------------------
(***************************************************************************)
(* The session proxy (cmd/session-proxy): it takes a management key for a  *)
(* session of a fixed length and passes the requests of a session on to    *)
(* CPA.  Sessions are kept in memory under one lock; a handler samples the *)
(* clock before it takes the lock, and asks CPAMP and CPA without it.      *)
(*                                                                         *)
(* A request that is malformed is refused without effect and left out; one *)
(* for a route that is not allowed is refused after the check of its       *)
(* session and then ends like one that was answered.                       *)
(***************************************************************************)
EXTENDS Integers, FiniteSets

CONSTANTS
    Browsers,      \* browsers, each with one cookie
    Handlers,      \* requests served at the same time
    Tokens,        \* bound: the sessions that are ever made
    Duration,      \* sessionDuration
    MaxTime,       \* bound: the clock stops here
    NoToken

ASSUME TimeAssumption == Duration \in Nat \ {0} /\ MaxTime \in Nat
ASSUME BrowsersAssumption == Browsers # {}
ASSUME TokenAssumption == NoToken \notin Tokens

VARIABLES
    now,        \* the clock
    sessions,   \* token -> expiry, of the sessions that are kept
    cookie,     \* the token each browser holds
    handler,    \* what each handler does
    begun,      \* history: when a session began, by the clock of its handler
    ended       \* history: the tokens of sessions that were left, or lost

vars == <<now, sessions, cookie, handler, begun, ended>>

\* time is what the handler read of the clock; live, in the history, whether its
\* session was still on when the request came.
Handler == [pc : {"idle", "login", "insert", "set", "check", "proxy", "leave"},
            browser : Browsers, token : Tokens \cup {NoToken}, time : 0..MaxTime, live : BOOLEAN]
Idle == [pc |-> "idle", browser |-> CHOOSE b \in Browsers : TRUE, token |-> NoToken,
         time |-> 0, live |-> FALSE]

Init ==
    /\ now = 0 /\ sessions = <<>>
    /\ cookie = [b \in Browsers |-> NoToken]
    /\ handler = [h \in Handlers |-> Idle]
    /\ begun = <<>> /\ ended = {}

Set(h, value) == handler' = [handler EXCEPT ![h] = value]
Live(t) == t \in DOMAIN begun \ ended /\ now < begun[t] + Duration

-----------------------------------------------------------------------------
(* Login *)

Login(h, b) ==
    /\ handler[h].pc = "idle"
    /\ Set(h, [Idle EXCEPT !.pc = "login", !.browser = b])
    /\ UNCHANGED <<now, sessions, cookie, begun, ended>>

\* verifyLoginKey: the key of CPA is compared; any other is shown to CPAMP, if that
\* is on, which accepts it, rejects it, or cannot be asked.
Accept(h) ==
    /\ handler[h].pc = "login"
    /\ Set(h, [handler[h] EXCEPT !.pc = "insert", !.time = now])
    /\ UNCHANGED <<now, sessions, cookie, begun, ended>>

Reject(h) ==
    /\ handler[h].pc = "login"
    /\ Set(h, Idle)
    /\ UNCHANGED <<now, sessions, cookie, begun, ended>>

\* Bug: a login drops the other sessions.
ExpiredOrOther(time) == DOMAIN sessions

Expired(time) == {t \in DOMAIN sessions : time >= sessions[t]}

\* createSession, under the lock: what has expired goes, the new session comes.
Insert(h) ==
    /\ handler[h].pc = "insert"
    /\ \E t \in Tokens \ DOMAIN begun :
         /\ sessions' = [u \in (DOMAIN sessions \ Expired(handler[h].time)) \cup {t} |->
                           IF u = t THEN handler[h].time + Duration ELSE sessions[u]]
         /\ begun' = [u \in DOMAIN begun \cup {t} |->
                        IF u = t THEN handler[h].time ELSE begun[u]]
         /\ Set(h, [handler[h] EXCEPT !.pc = "set", !.token = t])
    /\ UNCHANGED <<now, cookie, ended>>

\* The answer reaches the browser, or does not. A browser here never forgets a cookie.
SetCookie(h) ==
    /\ handler[h].pc = "set"
    /\ cookie' \in {cookie, [cookie EXCEPT ![handler[h].browser] = handler[h].token]}
    /\ Set(h, Idle)
    /\ UNCHANGED <<now, sessions, begun, ended>>

-----------------------------------------------------------------------------
(* Requests *)

\* A request comes with the cookie of its browser; the clock is read.
Request(h, b) ==
    /\ handler[h].pc = "idle"
    /\ Set(h, [pc |-> "check", browser |-> b, token |-> cookie[b], time |-> now,
               live |-> cookie[b] # NoToken /\ Live(cookie[b])])
    /\ UNCHANGED <<now, sessions, cookie, begun, ended>>

\* Bug: a session still counts at the instant it ends.
ValidAtEnd(t, time) == t \in DOMAIN sessions /\ time <= sessions[t]

Valid(t, time) == t \in DOMAIN sessions /\ time < sessions[t]

\* authorized, under the lock: a session that is over is dropped.
Check(h) ==
    /\ handler[h].pc = "check"
    /\ IF Valid(handler[h].token, handler[h].time)
       THEN Set(h, [handler[h] EXCEPT !.pc = "proxy"]) /\ UNCHANGED sessions
       ELSE /\ Set(h, Idle)
            /\ sessions' = [u \in DOMAIN sessions \ {handler[h].token} |-> sessions[u]]
    /\ UNCHANGED <<now, cookie, begun, ended>>

\* proxy: CPA answers, or the client's timeout ends the wait.
Answer(h) ==
    /\ handler[h].pc = "proxy"
    /\ Set(h, Idle)
    /\ UNCHANGED <<now, sessions, cookie, begun, ended>>

-----------------------------------------------------------------------------
(* Logout, time and restarts *)

Logout(h, b) ==
    /\ handler[h].pc = "idle"
    /\ Set(h, [Idle EXCEPT !.pc = "leave", !.browser = b, !.token = cookie[b]])
    /\ UNCHANGED <<now, sessions, cookie, begun, ended>>

\* Bug: only the cookie is cleared.
LeaveCookie(h) ==
    /\ handler[h].pc = "leave"
    /\ cookie' \in {cookie, [cookie EXCEPT ![handler[h].browser] = NoToken]}
    /\ ended' = ended \cup ({handler[h].token} \ {NoToken})
    /\ Set(h, Idle)
    /\ UNCHANGED <<now, sessions, begun>>

\* deleteSession: the session goes, and then, if the answer gets there, the cookie.
Leave(h) ==
    /\ handler[h].pc = "leave"
    /\ sessions' = [u \in DOMAIN sessions \ {handler[h].token} |-> sessions[u]]
    /\ cookie' \in {cookie, [cookie EXCEPT ![handler[h].browser] = NoToken]}
    /\ ended' = ended \cup ({handler[h].token} \ {NoToken})
    /\ Set(h, Idle)
    /\ UNCHANGED <<now, begun>>

Tick ==
    /\ now < MaxTime /\ now' = now + 1
    /\ UNCHANGED <<sessions, cookie, handler, begun, ended>>

\* The proxy stops and starts: nothing of it was stored.
Restart ==
    /\ sessions' = <<>> /\ ended' = DOMAIN begun
    /\ handler' = [h \in Handlers |-> Idle]
    /\ UNCHANGED <<now, cookie, begun>>

Next ==
    \/ \E h \in Handlers :
         \/ \E b \in Browsers : Login(h, b) \/ Request(h, b) \/ Logout(h, b)
         \/ Accept(h) \/ Reject(h) \/ Insert(h) \/ SetCookie(h)
         \/ Check(h) \/ Answer(h) \/ Leave(h)
    \/ Tick \/ Restart

Spec == Init /\ [][Next]_vars

-----------------------------------------------------------------------------
(* Properties *)

TypeOK ==
    /\ now \in 0..MaxTime
    /\ DOMAIN sessions \subseteq DOMAIN begun /\ DOMAIN begun \subseteq Tokens
    /\ \A t \in DOMAIN sessions : sessions[t] = begun[t] + Duration
    /\ cookie \in [Browsers -> DOMAIN begun \cup {NoToken}]
    /\ handler \in [Handlers -> Handler]
    /\ ended \subseteq DOMAIN begun

\* README: a session lasts 12 hours. A request that is passed on to CPA belongs to a
\* session that was on when it came: neither over, nor left, nor lost in a restart.
ServedInSession == \A h \in Handlers : handler[h].pc = "proxy" => handler[h].live

\* A session that was begun stays until it is left, is over or the proxy restarts: the
\* cleaning at a login and the check of a request, with the clock they read before,
\* take no other.
KeptUntilOver == \A t \in DOMAIN begun : Live(t) => t \in DOMAIN sessions
=============================================================================
