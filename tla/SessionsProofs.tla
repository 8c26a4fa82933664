--------------------------- MODULE SessionsProofs ---------------------------
(***************************************************************************)
(* Proofs about Sessions for any browsers, handlers, tokens and times: a   *)
(* request that is passed on belongs to a session that was on when it      *)
(* came, and a session that was begun is kept until it is over or left.    *)
(***************************************************************************)
EXTENDS Sessions, TLAPS

\* What a handler carries agrees with the clock and with the sessions: it read the
\* clock before, its token was begun, and if its check would accept the token now,
\* the session was on when the request came.
Carried(h) ==
    /\ handler[h].time <= now
    /\ handler[h].token \in DOMAIN begun \cup {NoToken}
    /\ handler[h].pc = "check" /\ Valid(handler[h].token, handler[h].time) => handler[h].live
    /\ handler[h].pc = "proxy" => handler[h].live

\* The inductive invariant.
SessionInv ==
    /\ TypeOK
    /\ \A t \in DOMAIN begun : begun[t] \in 0..now
    /\ DOMAIN sessions \cap ended = {}
    /\ KeptUntilOver
    /\ \A h \in Handlers : Carried(h)

-----------------------------------------------------------------------------

LEMMA IdleType == Idle \in Handler
BY BrowsersAssumption, TimeAssumption DEF Idle, Handler

LEMMA InitSessions == Init => SessionInv
<1> SUFFICES ASSUME Init PROVE SessionInv
  OBVIOUS
<1>1. DOMAIN sessions = {} /\ DOMAIN begun = {}
  BY DEF Init
<1>2. TypeOK
  BY <1>1, IdleType, TimeAssumption DEF Init, TypeOK
<1>3. \A h \in Handlers : Carried(h)
  BY <1>1, TimeAssumption DEF Init, Carried, Idle
<1> QED
  BY <1>1, <1>2, <1>3 DEF SessionInv, KeptUntilOver, Live, Init

\* A step of one handler that leaves the clock, the sessions and the cookies alone.
LEMMA QuietStep ==
    ASSUME SessionInv, UNCHANGED <<now, sessions, begun, ended>>,
           cookie' \in [Browsers -> DOMAIN begun \cup {NoToken}],
           NEW h \in Handlers, NEW value \in Handler, Set(h, value),
           value.time <= now, value.token \in DOMAIN begun \cup {NoToken},
           value.pc = "check" /\ Valid(value.token, value.time) => value.live,
           value.pc = "proxy" => value.live
    PROVE  SessionInv'
<1>1. handler' \in [Handlers -> Handler]
  BY DEF SessionInv, TypeOK, Set
<1>2. TypeOK'
  BY <1>1 DEF SessionInv, TypeOK
<1>3. ASSUME NEW g \in Handlers PROVE Carried(g)'
  <2>1. CASE g = h
    BY <2>1 DEF SessionInv, TypeOK, Set, Carried, Valid
  <2>2. CASE g # h
    BY <2>2 DEF SessionInv, TypeOK, Set, Carried, Valid
  <2> QED
    BY <2>1, <2>2
<1> QED
  BY <1>2, <1>3 DEF SessionInv, KeptUntilOver, Live

\* A step of one handler, which it ends, that takes sessions away, each one that is
\* over or is left with the step.
LEMMA DroppingStep ==
    ASSUME SessionInv, UNCHANGED <<now, begun>>,
           cookie' \in [Browsers -> DOMAIN begun \cup {NoToken}],
           NEW dropped, sessions' = [u \in DOMAIN sessions \ dropped |-> sessions[u]],
           NEW left, ended' = ended \cup left, left \subseteq DOMAIN begun \cap dropped,
           \A t \in (dropped \cap DOMAIN sessions) \ left : now >= sessions[t],
           NEW h \in Handlers, Set(h, Idle)
    PROVE  SessionInv'
<1>1. DOMAIN sessions' = DOMAIN sessions \ dropped
  OBVIOUS
<1>2. \A t \in DOMAIN sessions' : sessions'[t] = sessions[t]
  OBVIOUS
<1>3. handler' \in [Handlers -> Handler]
  BY IdleType DEF SessionInv, TypeOK, Set
<1>4. TypeOK'
  BY <1>1, <1>2, <1>3 DEF SessionInv, TypeOK
<1>5. ASSUME NEW g \in Handlers PROVE Carried(g)'
  <2>1. CASE g = h
    BY <2>1, TimeAssumption DEF SessionInv, TypeOK, Set, Carried, Idle
  <2>2. CASE g # h
    BY <2>2, <1>1, <1>2 DEF SessionInv, TypeOK, Set, Carried, Valid
  <2> QED
    BY <2>1, <2>2
<1>6. KeptUntilOver'
  <2> SUFFICES ASSUME NEW t \in DOMAIN begun, Live(t)' PROVE t \in DOMAIN sessions'
    BY DEF KeptUntilOver
  <2>1. Live(t) /\ t \notin left
    BY DEF Live
  <2>2. t \in DOMAIN sessions /\ sessions[t] = begun[t] + Duration
    BY <2>1 DEF SessionInv, KeptUntilOver, TypeOK
  <2>3. ~ (now >= sessions[t])
    BY <2>1, <2>2, TimeAssumption DEF Live, SessionInv, TypeOK
  <2> QED
    BY <2>1, <2>2, <2>3, <1>1
<1>7. DOMAIN sessions' \cap ended' = {}
  BY <1>1 DEF SessionInv
<1> QED
  BY <1>4, <1>5, <1>6, <1>7 DEF SessionInv

LEMMA InsertStep ==
    ASSUME SessionInv, NEW h \in Handlers, Insert(h)
    PROVE  SessionInv'
<1> DEFINE time == handler[h].time
<1>1. PICK t \in Tokens \ DOMAIN begun :
        /\ sessions' = [u \in (DOMAIN sessions \ Expired(time)) \cup {t} |->
                          IF u = t THEN time + Duration ELSE sessions[u]]
        /\ begun' = [u \in DOMAIN begun \cup {t} |-> IF u = t THEN time ELSE begun[u]]
        /\ Set(h, [handler[h] EXCEPT !.pc = "set", !.token = t])
  BY DEF Insert
<1>2. UNCHANGED <<now, cookie, ended>>
  BY DEF Insert
<1>3. time \in 0..now
  BY TimeAssumption DEF SessionInv, Carried, TypeOK, Handler
<1>4. /\ DOMAIN begun' = DOMAIN begun \cup {t}
      /\ begun'[t] = time
      /\ \A u \in DOMAIN begun : begun'[u] = begun[u]
  BY <1>1
<1>5. /\ DOMAIN sessions' = (DOMAIN sessions \ Expired(time)) \cup {t}
      /\ sessions'[t] = time + Duration
      /\ \A u \in DOMAIN sessions \ Expired(time) : sessions'[u] = sessions[u]
  BY <1>1 DEF SessionInv, TypeOK
<1> HIDE DEF time
<1>6. TypeOK'
  <2>1. handler' \in [Handlers -> Handler]
    BY <1>1 DEF SessionInv, TypeOK, Set, Handler
  <2> QED
    BY <1>2, <1>4, <1>5, <2>1 DEF SessionInv, TypeOK
<1>7. \A u \in DOMAIN begun' : begun'[u] \in 0..now'
  BY <1>2, <1>3, <1>4 DEF SessionInv
<1>8. DOMAIN sessions' \cap ended' = {}
  BY <1>2, <1>5 DEF SessionInv, TypeOK
<1>9. KeptUntilOver'
  <2> SUFFICES ASSUME NEW u \in DOMAIN begun', Live(u)', u # t PROVE u \in DOMAIN sessions'
    BY <1>5 DEF KeptUntilOver
  <2>1. u \in DOMAIN begun /\ Live(u)
    BY <1>2, <1>4 DEF Live
  <2>2. u \in DOMAIN sessions /\ sessions[u] = begun[u] + Duration
    BY <2>1 DEF SessionInv, KeptUntilOver, TypeOK
  <2>3. ~ (time >= sessions[u])
    BY <2>1, <2>2, <1>3, TimeAssumption DEF Live, SessionInv, TypeOK
  <2> QED
    BY <2>2, <2>3, <1>5 DEF Expired
<1>10. ASSUME NEW g \in Handlers PROVE Carried(g)'
  <2>1. CASE g = h
    BY <2>1, <1>1, <1>2, <1>3, <1>4 DEF SessionInv, TypeOK, Set, Carried, Handler, time
  <2>2. CASE g # h
    <3>1. handler'[g] = handler[g] /\ handler[g].token # t
      BY <2>2, <1>1, TokenAssumption DEF SessionInv, TypeOK, Set, Carried
    <3>2. Valid(handler[g].token, handler[g].time)' => Valid(handler[g].token, handler[g].time)
      BY <3>1, <1>5 DEF Valid
    <3> QED
      BY <3>1, <3>2, <1>2, <1>4 DEF SessionInv, Carried, Valid
  <2> QED
    BY <2>1, <2>2
<1> QED
  BY <1>6, <1>7, <1>8, <1>9, <1>10 DEF SessionInv

LEMMA NextSessions == SessionInv /\ [Next]_vars => SessionInv'
<1> SUFFICES ASSUME SessionInv, [Next]_vars PROVE SessionInv'
  OBVIOUS
<1>1. cookie \in [Browsers -> DOMAIN begun \cup {NoToken}] /\ now \in Nat
  BY TimeAssumption DEF SessionInv, TypeOK
<1>2. Idle \in Handler /\ Idle.time = 0 /\ Idle.token = NoToken /\ Idle.pc = "idle"
  BY IdleType DEF Idle
<1>3. ASSUME NEW h \in Handlers PROVE handler[h] \in Handler /\ Carried(h)
  BY DEF SessionInv, TypeOK
<1>4. ASSUME NEW h \in Handlers, NEW b \in Browsers, Login(h, b) PROVE SessionInv'
  <2> DEFINE value == [Idle EXCEPT !.pc = "login", !.browser = b]
  <2>1. /\ value \in Handler
        /\ value.time = 0 /\ value.token = NoToken /\ value.pc = "login"
    BY <1>2 DEF Handler, Idle
  <2>2. Set(h, value) /\ UNCHANGED <<now, sessions, cookie, begun, ended>>
    BY <1>4 DEF Login
  <2> HIDE DEF value
  <2> QED
    BY <1>1, <2>1, <2>2, QuietStep
<1>5. ASSUME NEW h \in Handlers, NEW b \in Browsers, Request(h, b) PROVE SessionInv'
  <2> DEFINE asked == [pc |-> "check", browser |-> b, token |-> cookie[b], time |-> now,
                       live |-> cookie[b] # NoToken /\ Live(cookie[b])]
  <2>1. cookie[b] \in DOMAIN begun \cup {NoToken}
    BY <1>1
  <2>2. asked \in Handler
    BY <2>1 DEF Handler, SessionInv, TypeOK
  <2>3. Valid(cookie[b], now) => cookie[b] # NoToken /\ Live(cookie[b])
    BY TokenAssumption DEF Valid, Live, SessionInv, TypeOK
  <2>4. Set(h, asked) /\ UNCHANGED <<now, sessions, cookie, begun, ended>>
    BY <1>5 DEF Request
  <2>5. /\ asked.pc = "check" /\ asked.time = now /\ asked.token = cookie[b]
        /\ asked.live <=> (cookie[b] # NoToken /\ Live(cookie[b]))
    OBVIOUS
  <2> HIDE DEF asked
  <2> QED
    BY <1>1, <2>1, <2>2, <2>3, <2>4, <2>5, QuietStep
<1>6. ASSUME NEW h \in Handlers, NEW b \in Browsers, Logout(h, b) PROVE SessionInv'
  <2> DEFINE value == [Idle EXCEPT !.pc = "leave", !.browser = b, !.token = cookie[b]]
  <2>1. cookie[b] \in DOMAIN begun \cup {NoToken}
    BY <1>1
  <2>2. /\ value \in Handler
        /\ value.time = 0 /\ value.token = cookie[b] /\ value.pc = "leave"
    BY <1>2, <2>1 DEF Handler, Idle, SessionInv, TypeOK
  <2>3. Set(h, value) /\ UNCHANGED <<now, sessions, cookie, begun, ended>>
    BY <1>6 DEF Logout
  <2> HIDE DEF value
  <2> QED
    BY <1>1, <2>1, <2>2, <2>3, QuietStep
<1>7. ASSUME NEW h \in Handlers, Accept(h) PROVE SessionInv'
  <2> DEFINE value == [handler[h] EXCEPT !.pc = "insert", !.time = now]
  <2>1. /\ value \in Handler
        /\ value.time = now /\ value.token = handler[h].token /\ value.pc = "insert"
    BY <1>3 DEF Handler, SessionInv, TypeOK
  <2>2. Set(h, value) /\ UNCHANGED <<now, sessions, cookie, begun, ended>>
    BY <1>7 DEF Accept
  <2>3. handler[h].token \in DOMAIN begun \cup {NoToken}
    BY <1>3 DEF Carried
  <2> HIDE DEF value
  <2> QED
    BY <1>1, <2>1, <2>2, <2>3, QuietStep
<1>8. ASSUME NEW h \in Handlers, Reject(h) \/ Answer(h) PROVE SessionInv'
  BY <1>1, <1>2, <1>8, QuietStep DEF Reject, Answer
<1>9. ASSUME NEW h \in Handlers, SetCookie(h) PROVE SessionInv'
  <2>1. cookie' \in [Browsers -> DOMAIN begun \cup {NoToken}]
    BY <1>1, <1>3, <1>9 DEF SetCookie, Carried
  <2> QED
    BY <1>1, <1>2, <1>9, <2>1, QuietStep DEF SetCookie
<1>10. ASSUME NEW h \in Handlers, Check(h) PROVE SessionInv'
  <2>1. CASE Valid(handler[h].token, handler[h].time)
    <3>1. [handler[h] EXCEPT !.pc = "proxy"] \in Handler
      BY <1>3 DEF Handler
    <3> QED
      BY <1>1, <1>3, <1>10, <2>1, <3>1, QuietStep DEF Check, Carried, Handler
  <2>2. CASE ~ Valid(handler[h].token, handler[h].time)
    <3> DEFINE dropped == {handler[h].token}
    <3>1. \A t \in dropped \cap DOMAIN sessions : now >= sessions[t]
      <4> SUFFICES ASSUME handler[h].token \in DOMAIN sessions
                   PROVE  now >= sessions[handler[h].token]
        OBVIOUS
      <4>1. /\ handler[h].time <= now /\ handler[h].time \in Nat
            /\ sessions[handler[h].token] \in Nat
        BY <1>3, TimeAssumption DEF Carried, Handler, SessionInv, TypeOK
      <4> QED
        BY <1>1, <4>1, <2>2 DEF Valid
    <3>2. /\ UNCHANGED <<now, cookie, begun, ended>> /\ Set(h, Idle)
          /\ sessions' = [u \in DOMAIN sessions \ dropped |-> sessions[u]]
      BY <1>10, <2>2 DEF Check
    <3> HIDE DEF dropped
    <3>3. ended' = ended \cup {} /\ {} \subseteq DOMAIN begun \cap dropped
      BY <3>2
    <3> QED
      BY <1>1, <3>1, <3>2, <3>3, DroppingStep
  <2> QED
    BY <2>1, <2>2
<1>11. ASSUME NEW h \in Handlers, Leave(h) PROVE SessionInv'
  <2> DEFINE dropped == {handler[h].token}
             left == {handler[h].token} \ {NoToken}
  <2>1. left \subseteq DOMAIN begun \cap dropped /\ (dropped \cap DOMAIN sessions) \ left = {}
    BY <1>3, TokenAssumption DEF Carried, SessionInv, TypeOK
  <2>2. /\ UNCHANGED <<now, begun>> /\ Set(h, Idle) /\ ended' = ended \cup left
        /\ sessions' = [u \in DOMAIN sessions \ dropped |-> sessions[u]]
    BY <1>11 DEF Leave
  <2>3. cookie' \in [Browsers -> DOMAIN begun \cup {NoToken}]
    BY <1>1, <1>11 DEF Leave
  <2> HIDE DEF dropped, left
  <2> QED
    BY <2>1, <2>2, <2>3, DroppingStep
<1>12. CASE Tick
  <2>1. now' = now + 1 /\ now' \in 0..MaxTime
    BY <1>12, TimeAssumption DEF Tick, SessionInv, TypeOK
  <2>2. TypeOK'
    BY <1>12, <2>1 DEF Tick, SessionInv, TypeOK
  <2>3. \A t \in DOMAIN begun' : begun'[t] \in 0..now'
    BY <1>1, <1>12, <2>1 DEF Tick, SessionInv
  <2>4. KeptUntilOver'
    BY <1>1, <1>12, <2>1, TimeAssumption DEF Tick, SessionInv, KeptUntilOver, Live, TypeOK
  <2>5. ASSUME NEW h \in Handlers PROVE Carried(h)'
    BY <1>1, <1>3, <1>12, <2>1, TimeAssumption DEF Tick, Carried, Valid, Handler
  <2> QED
    BY <1>12, <2>2, <2>3, <2>4, <2>5 DEF Tick, SessionInv
<1>13. CASE Restart
  <2>1. DOMAIN sessions' = {}
    BY <1>13 DEF Restart
  <2>2. TypeOK'
    BY <1>2, <1>13, <2>1 DEF Restart, SessionInv, TypeOK
  <2>3. ASSUME NEW h \in Handlers PROVE Carried(h)'
    BY <1>1, <1>2, <1>13 DEF Restart, Carried
  <2>4. KeptUntilOver'
    BY <1>13 DEF Restart, KeptUntilOver, Live
  <2> QED
    BY <1>13, <2>1, <2>2, <2>3, <2>4 DEF Restart, SessionInv
<1>14. CASE UNCHANGED vars
  BY <1>14 DEF vars, SessionInv, TypeOK, KeptUntilOver, Live, Carried, Valid
<1> QED
  BY <1>4, <1>5, <1>6, <1>7, <1>8, <1>9, <1>10, <1>11, <1>12, <1>13, <1>14, InsertStep DEF Next

-----------------------------------------------------------------------------

\* A request that is passed on to CPA belongs to a session that was on when it came,
\* whatever logins, logouts, other requests and restarts come between its reading of
\* the clock (main.go:323) and its look at the sessions (main.go:326).
THEOREM PassedOnlyInSession == Spec => []ServedInSession
<1>1. SessionInv => ServedInSession
  BY DEF SessionInv, Carried, ServedInSession
<1> QED
  BY InitSessions, NextSessions, <1>1, PTL DEF Spec

\* No login and no check removes a session that is still on, with whatever older time
\* they compare (main.go:246 and 323 read the clock before they take the lock).
THEOREM SessionsStay == Spec => []KeptUntilOver
<1>1. SessionInv => KeptUntilOver
  BY DEF SessionInv
<1> QED
  BY InitSessions, NextSessions, <1>1, PTL DEF Spec

\* Types, and that the expiry of a session is fixed by its beginning.
THEOREM SessionTypes == Spec => []TypeOK
<1>1. SessionInv => TypeOK
  BY DEF SessionInv
<1> QED
  BY InitSessions, NextSessions, <1>1, PTL DEF Spec
=============================================================================
