--------------------------- MODULE SessionManager ---------------------------
(***************************************************************************)
(* The session store (src/src/Session/SessionManager.cpp) as the loop and  *)
(* the requests use it: SessionMiddleware looks a cookie up or creates a   *)
(* session and leaves a pointer to it in the context of the connection,    *)
(* cleanup() runs at the end of every turn of the loop, and the access log *)
(* of every response reads the pointer (HttpConnection::generateResponse), *)
(* also that of a request which never came to SessionMiddleware: one for a *)
(* location without sessions, one the parser refused, a redirection.       *)
(*                                                                         *)
(* A session, its token and its address are one name; a name is used again *)
(* after the session is deleted.  Time is std::time(), bounded by MaxTime. *)
(***************************************************************************)
EXTENDS Maps, FiniteSets, FiniteSetsExt

CONSTANTS Conns,      \* the connections
          Ids,        \* the sessions that can exist
          Timeouts,   \* sessionTimeoutSec of the virtual hosts
          MaxTime,    \* bound on the clock
          NoSession   \* NULL, and a request without the cookie

ASSUME SessionAssumption ==
    /\ IsFiniteSet(Ids)
    /\ Timeouts \subseteq Nat
    /\ MaxTime \in Nat
    /\ NoSession \notin Ids

VARIABLES now,              \* the clock
          sessions,         \* _sessions: session -> [last, timeout]
          nextCleanupTime,  \* _nextCleanupTime
          context,          \* PipelineContext::session of each connection
          dangling,         \* ghost: a response read a deleted session
          swept             \* ghost: the last step was cleanup()

vars == <<now, sessions, nextCleanupTime, context, dangling, swept>>

Init ==
    /\ now = 0
    /\ sessions = <<>>
    /\ nextCleanupTime = 0
    /\ context = [c \in Conns |-> NoSession]
    /\ dangling = FALSE
    /\ swept = FALSE

Tick ==
    /\ now < MaxTime
    /\ now' = now + 1
    /\ swept' = FALSE
    /\ UNCHANGED <<sessions, nextCleanupTime, context, dangling>>

Expiry(s) == s.last + s.timeout
Expired(s, time) == s.timeout = 0 \/ time - s.last > s.timeout

(* Mutant: getSession() deletes a session at its expiry, not after it. *)
GetSessionEarly(ss, id, time) ==
    IF id \notin DOMAIN ss THEN ss
    ELSE IF ss[id].timeout = 0 \/ time - ss[id].last >= ss[id].timeout
    THEN Erase(ss, {id})
    ELSE Put(ss, id, [last |-> time, timeout |-> ss[id].timeout])

(* getSession(): an expired session is deleted, another is renewed. *)
GetSession(ss, id, time) ==
    IF id \notin DOMAIN ss THEN ss
    ELSE IF Expired(ss[id], time) THEN Erase(ss, {id})
    ELSE Put(ss, id, [last |-> time, timeout |-> ss[id].timeout])

(* Mutant of createSession(): it keeps the next cleanup if there is one. *)
CleanupAfterCreateKeeps(ss, next, time, timeout) ==
    IF timeout = 0 THEN 0
    ELSE IF DOMAIN ss = {} \/ next = 0 THEN time + timeout
    ELSE next

(* createSession(): when the next cleanup is due. *)
CleanupAfterCreate(ss, next, time, timeout) ==
    IF timeout = 0 THEN 0
    ELSE IF DOMAIN ss = {} \/ next = 0 \/ time + timeout < next THEN time + timeout
    ELSE next

(* A request that comes to SessionMiddleware on a virtual host with this   *)
(* timeout.                                                                *)
SessionRequest(c, cookie, timeout) ==
    LET looked == GetSession(sessions, cookie, now)
    IN /\ \/ /\ cookie \in DOMAIN looked
             /\ sessions' = looked
             /\ context' = [context EXCEPT ![c] = cookie]
             /\ UNCHANGED nextCleanupTime
          \/ /\ cookie \notin DOMAIN looked
             /\ \E id \in Ids \ DOMAIN looked :
                   /\ sessions' = Put(looked, id, [last |-> now, timeout |-> timeout])
                   /\ context' = [context EXCEPT ![c] = id]
             /\ nextCleanupTime' =
                   CleanupAfterCreate(looked, nextCleanupTime, now, timeout)
       /\ swept' = FALSE
       /\ UNCHANGED <<now, dangling>>

(* A request answered without it. *)
OtherRequest(c) ==
    /\ dangling' = (dangling \/ context[c] \notin DOMAIN sessions \cup {NoSession})
    /\ swept' = FALSE
    /\ UNCHANGED <<now, sessions, nextCleanupTime, context>>

(* The connection is closed and another one takes its place. *)
Reconnect(c) ==
    /\ context[c] # NoSession
    /\ context' = [context EXCEPT ![c] = NoSession]
    /\ swept' = FALSE
    /\ UNCHANGED <<now, sessions, nextCleanupTime, dangling>>

ExpiredIds == {id \in DOMAIN sessions : Expired(sessions[id], now)}

(* Mutants of cleanup(): the next one is due at the last expiry, or marked *)
(* as unset by -1.                                                         *)
CleanupOfLast ==
    /\ IF nextCleanupTime = 0 \/ nextCleanupTime <= now
       THEN LET kept == Erase(sessions, ExpiredIds)
                expiries == {Expiry(kept[id]) : id \in DOMAIN kept}
            IN /\ sessions' = kept
               /\ nextCleanupTime' = IF expiries = {} THEN 0 ELSE Max(expiries)
       ELSE UNCHANGED <<sessions, nextCleanupTime>>
    /\ swept' = TRUE
    /\ UNCHANGED <<now, context, dangling>>
CleanupUnset ==
    /\ nextCleanupTime = 0 \/ nextCleanupTime <= now
    /\ sessions' = Erase(sessions, ExpiredIds)
    /\ nextCleanupTime' = -1
    /\ swept' = TRUE
    /\ UNCHANGED <<now, context, dangling>>

(* cleanup(): nothing before the time is up; then every expired session is *)
(* deleted and the next time is the first expiry of those that stay.       *)
Cleanup ==
    /\ IF nextCleanupTime = 0 \/ nextCleanupTime <= now
       THEN LET kept == Erase(sessions, ExpiredIds)
                expiries == {Expiry(kept[id]) : id \in DOMAIN kept}
            IN /\ sessions' = kept
               /\ nextCleanupTime' = IF expiries = {} THEN 0 ELSE Min(expiries)
       ELSE UNCHANGED <<sessions, nextCleanupTime>>
    /\ swept' = TRUE
    /\ UNCHANGED <<now, context, dangling>>

Next ==
    \/ Tick
    \/ Cleanup
    \/ \E c \in Conns :
          \/ OtherRequest(c)
          \/ Reconnect(c)
          \/ \E cookie \in Ids \cup {NoSession}, timeout \in Timeouts :
                SessionRequest(c, cookie, timeout)

Spec == Init /\ [][Next]_vars

-----------------------------------------------------------------------------
TypeOK ==
    /\ now \in Nat
    /\ sessions \in [DOMAIN sessions -> [last : Nat, timeout : Timeouts]]
    /\ DOMAIN sessions \subseteq Ids
    /\ nextCleanupTime \in Nat
    /\ context \in [Conns -> Ids \cup {NoSession}]
    /\ dangling \in BOOLEAN
    /\ swept \in BOOLEAN

(* cleanup() looks at one number instead of the sessions.  It is never     *)
(* later than the expiry of a session, whatever was created, renewed and   *)
(* deleted since it was computed.  This needs every timeout to be          *)
(* positive: 0 in _nextCleanupTime means both "sweep now" and "unset", and *)
(* a session created after one with timeout 0 in the same turn of the loop *)
(* replaces it by its own expiry, however late.                            *)
CleanupNotLate ==
    \A id \in DOMAIN sessions :
       /\ sessions[id].last <= now
       /\ nextCleanupTime # 0 => nextCleanupTime <= Expiry(sessions[id])

(* No turn of the loop leaves an expired session behind, though it mostly  *)
(* does not look at them (with positive timeouts, as above).               *)
SweepIsComplete ==
    swept => \A id \in DOMAIN sessions : ~Expired(sessions[id], now)

(* Only expired sessions are deleted: neither a request with its cookie    *)
(* nor a sweep logs a visitor out before the timeout of the session.       *)
UnexpiredIsKept ==
    [][\A id \in DOMAIN sessions :
          ~Expired(sessions[id], now) => id \in DOMAIN sessions']_vars

(* test_keepalive.py, line 97: the context is reset between the requests   *)
(* of a connection, so a request does not see what an earlier one left     *)
(* there.  PipelineContext::reset() leaves the session pointer, and the    *)
(* access log of the next request reads it after the session was deleted:  *)
(* the code does not have this property, and no run checks it.             *)
NoDanglingSession == ~dangling
=============================================================================
