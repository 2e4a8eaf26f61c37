------------------------ MODULE SessionManager_proofs ------------------------
(***************************************************************************)
(* Theorems about SessionManager for every set of connections and sessions *)
(* and every bound on the clock.  What is said of the time of the cleanup  *)
(* assumes positive session timeouts.                                      *)
(***************************************************************************)
EXTENDS SessionManager, WellFoundedInduction, TLAPS

(* The first expiry of those that stay is one of them and no later than    *)
(* any.                                                                    *)
LEMMA FirstExpiry ==
    ASSUME NEW S \in SUBSET Nat, S # {}
    PROVE  Min(S) \in S /\ \A x \in S : Min(S) <= x
<1>1. PICK m \in S : \A x \in S : ~(<<x, m>> \in OpToRel(<, Nat))
  BY WFMin, NatLessThanWellFounded, Zenon
<1>2. \A x \in S : m <= x
  <2>1. TAKE x \in S
  <2>2. ~(x < m)
    BY <1>1, Zenon DEF OpToRel
  <2>3. QED BY <2>2
<1>3. QED BY <1>2 DEF Min

(* The types of a store, and what holds of it between two calls. *)
StoreType(ss) ==
    /\ ss \in [DOMAIN ss -> [last : Nat, timeout : Timeouts]]
    /\ DOMAIN ss \subseteq Ids
Scheduled(ss, next, time) ==
    \A id \in DOMAIN ss :
       /\ ss[id].last <= time
       /\ next # 0 => next <= Expiry(ss[id])

(* getSession() deletes nothing that has not expired, brings in nothing    *)
(* and moves no expiry forward, so that the next cleanup stays in time.    *)
LEMMA GetSessionOK ==
    ASSUME NEW ss, NEW id, NEW time \in Nat, NEW next \in Nat,
           StoreType(ss), \A i \in DOMAIN ss : ss[i].last <= time
    PROVE  LET g == GetSession(ss, id, time)
           IN /\ StoreType(g)
              /\ DOMAIN g \subseteq DOMAIN ss
              /\ \A i \in DOMAIN ss : ~Expired(ss[i], time) => i \in DOMAIN g
              /\ Scheduled(ss, next, time) => Scheduled(g, next, time)
<1> DEFINE g == GetSession(ss, id, time)
<1>1. CASE id \notin DOMAIN ss
  BY <1>1 DEF GetSession
<1>2. CASE id \in DOMAIN ss /\ Expired(ss[id], time)
  <2>1. g = [i \in DOMAIN ss \ {id} |-> ss[i]]
    BY <1>2 DEF GetSession, Erase, Restrict
  <2> HIDE DEF g
  <2>2. StoreType(g)
    BY <2>1 DEF StoreType
  <2>3. Scheduled(ss, next, time) => Scheduled(g, next, time)
    BY <2>1 DEF Scheduled
  <2>4. QED BY <1>2, <2>1, <2>2, <2>3 DEF g
<1>3. CASE id \in DOMAIN ss /\ ~Expired(ss[id], time)
  <2> DEFINE new == [last |-> time, timeout |-> ss[id].timeout]
  <2>1. g = [i \in DOMAIN ss |-> IF i = id THEN new ELSE ss[i]]
    <3>1. DOMAIN ss \cup {id} = DOMAIN ss
      BY <1>3
    <3>2. QED BY <1>3, <3>1 DEF GetSession, Put
  <2>2. /\ ss[id] \in [last : Nat, timeout : Timeouts]
        /\ new \in [last : Nat, timeout : Timeouts]
        /\ ss[id].last <= time
    BY <1>3 DEF StoreType
  <2>3. StoreType(g)
    BY <2>1, <2>2 DEF StoreType
  <2>4. ASSUME Scheduled(ss, next, time)
        PROVE  Scheduled(g, next, time)
    <3>1. ASSUME NEW i \in DOMAIN g
          PROVE  g[i].last <= time /\ (next # 0 => next <= Expiry(g[i]))
      <4>1. CASE i = id
        <5>1. g[i].last = time /\ Expiry(g[i]) = time + ss[id].timeout
          BY <2>1, <4>1 DEF Expiry
        <5>2. Expiry(ss[id]) = ss[id].last + ss[id].timeout
          BY DEF Expiry
        <5>3. ss[id].last \in Nat /\ ss[id].timeout \in Nat
          BY <2>2, SessionAssumption
        <5>4. next # 0 => next <= Expiry(ss[id])
          BY <1>3, <2>4 DEF Scheduled
        <5>5. QED BY <5>1, <5>2, <5>3, <5>4, <2>2
      <4>2. CASE i # id
        <5>1. i \in DOMAIN ss /\ g[i] = ss[i]
          BY <2>1, <4>2
        <5>2. QED BY <5>1, <2>4 DEF Scheduled
      <4>3. QED BY <4>1, <4>2
    <3>2. QED BY <3>1 DEF Scheduled
  <2>5. DOMAIN g = DOMAIN ss
    BY <2>1
  <2>6. QED BY <2>3, <2>4, <2>5
<1>4. QED BY <1>1, <1>2, <1>3

(* What createSession() makes of the store ss and the cleanup time next:   *)
(* no session is lost, and the cleanup is no later than any expiry.        *)
Created(ss, next, time, p, n) ==
    /\ StoreType(p)
    /\ n \in Nat
    /\ \A i \in DOMAIN ss : i \in DOMAIN p
    /\ \A i \in DOMAIN p : p[i].last <= time
    /\ (0 \notin Timeouts /\ Scheduled(ss, next, time)
           /\ (next = 0 => DOMAIN ss = {}))
          => Scheduled(p, n, time) /\ n # 0

(* createSession() schedules the cleanup no later than the new expiry nor  *)
(* than any expiry there was.                                              *)
LEMMA CreateSessionOK ==
    ASSUME NEW ss, NEW id \in Ids, NEW time \in Nat, NEW next \in Nat,
           NEW timeout \in Timeouts,
           StoreType(ss), id \notin DOMAIN ss,
           \A i \in DOMAIN ss : ss[i].last <= time,
           NEW new, new = [last |-> time, timeout |-> timeout],
           NEW p, p = Put(ss, id, new),
           NEW n, n = CleanupAfterCreate(ss, next, time, timeout)
    PROVE  Created(ss, next, time, p, n)
<1>1. p = [i \in DOMAIN ss \cup {id} |-> IF i = id THEN new ELSE ss[i]]
  BY DEF Put
<1>2. timeout \in Nat /\ new \in [last : Nat, timeout : Timeouts]
  BY SessionAssumption
<1>3. n = IF timeout = 0 THEN 0
          ELSE IF DOMAIN ss = {} \/ next = 0 \/ time + timeout < next THEN time + timeout
          ELSE next
  BY DEF CleanupAfterCreate
<1>4. StoreType(p)
  BY <1>1, <1>2 DEF StoreType
<1>5. n \in Nat
  BY <1>2, <1>3
<1>6. \A i \in DOMAIN p : p[i].last <= time
  BY <1>1
<1>7. ASSUME 0 \notin Timeouts, Scheduled(ss, next, time), next = 0 => DOMAIN ss = {}
      PROVE  Scheduled(p, n, time) /\ n # 0
  <2>1. timeout # 0 /\ n # 0 /\ n <= time + timeout
        /\ (DOMAIN ss # {} => next # 0 /\ n <= next)
    BY <1>2, <1>3, <1>7
  <2>2. ASSUME NEW i \in DOMAIN p
        PROVE  n <= Expiry(p[i])
    <3>1. CASE i = id
      BY <1>1, <2>1, <3>1 DEF Expiry
    <3>2. CASE i # id
      <4>1. i \in DOMAIN ss /\ p[i] = ss[i]
        BY <1>1, <3>2
      <4>2. next <= Expiry(ss[i]) /\ n <= next
        BY <4>1, <2>1, <1>7 DEF Scheduled
      <4>3. Expiry(ss[i]) \in Nat
        BY <4>1, SessionAssumption DEF StoreType, Expiry
      <4>4. QED BY <4>1, <4>2, <4>3, <1>5
    <3>3. QED BY <3>1, <3>2
  <2>3. QED BY <2>1, <2>2, <1>6 DEF Scheduled
<1>8. \A i \in DOMAIN ss : i \in DOMAIN p
  BY <1>1
<1>9. QED BY <1>4, <1>5, <1>6, <1>7, <1>8 DEF Created

-----------------------------------------------------------------------------
(* The inductive invariant.  That the cleanup is in time needs one more    *)
(* fact about the value 0: with positive timeouts it means an empty store. *)
OnTime ==
    /\ Scheduled(sessions, nextCleanupTime, now)
    /\ nextCleanupTime = 0 => DOMAIN sessions = {}
IInv ==
    /\ TypeOK
    /\ \A id \in DOMAIN sessions : sessions[id].last <= now
    /\ 0 \notin Timeouts => OnTime /\ SweepIsComplete

LEMMA InitInv == Init => IInv
<1> SUFFICES ASSUME Init PROVE IInv
  OBVIOUS
<1>1. DOMAIN sessions = {}
  BY DEF Init
<1>2. sessions \in [DOMAIN sessions -> [last : Nat, timeout : Timeouts]]
  BY <1>1 DEF Init
<1>3. TypeOK
  BY <1>1, <1>2 DEF Init, TypeOK
<1>4. OnTime
  BY <1>1 DEF OnTime, Scheduled
<1>5. SweepIsComplete
  BY <1>1 DEF SweepIsComplete
<1>6. QED BY <1>1, <1>3, <1>4, <1>5 DEF IInv

(* Every step keeps it and deletes expired sessions only. *)
LEMMA RequestStep ==
    ASSUME IInv, NEW c \in Conns, NEW cookie \in Ids \cup {NoSession},
           NEW timeout \in Timeouts, SessionRequest(c, cookie, timeout)
    PROVE  /\ IInv'
           /\ \A id \in DOMAIN sessions :
                 ~Expired(sessions[id], now) => id \in DOMAIN sessions'
<1> DEFINE g == GetSession(sessions, cookie, now)
<1>1. /\ StoreType(sessions) /\ now \in Nat /\ nextCleanupTime \in Nat
      /\ \A i \in DOMAIN sessions : sessions[i].last <= now
      /\ now' = now /\ dangling' = dangling /\ swept' = FALSE
  BY DEF IInv, TypeOK, StoreType, SessionRequest
<1>2. /\ StoreType(g)
      /\ DOMAIN g \subseteq DOMAIN sessions
      /\ \A i \in DOMAIN sessions : ~Expired(sessions[i], now) => i \in DOMAIN g
      /\ Scheduled(sessions, nextCleanupTime, now) => Scheduled(g, nextCleanupTime, now)
  BY <1>1, GetSessionOK
<1>3. \A i \in DOMAIN g : g[i].last <= now
  <2>1. Scheduled(sessions, 0, now)
    BY <1>1 DEF Scheduled
  <2>2. Scheduled(g, 0, now)
    BY <1>1, <2>1, GetSessionOK
  <2>3. QED BY <2>2 DEF Scheduled
<1>4. 0 \notin Timeouts => Scheduled(g, nextCleanupTime, now)
                           /\ (nextCleanupTime = 0 => DOMAIN g = {})
  BY <1>2 DEF IInv, OnTime
<1>5. CASE /\ cookie \in DOMAIN g
           /\ sessions' = g
           /\ context' = [context EXCEPT ![c] = cookie]
           /\ UNCHANGED nextCleanupTime
  <2> HIDE DEF g
  <2>1. context' \in [Conns -> Ids \cup {NoSession}]
    BY <1>2, <1>5 DEF IInv, TypeOK, StoreType
  <2>2. TypeOK'
    BY <1>1, <1>2, <1>5, <2>1 DEF IInv, TypeOK, StoreType
  <2>3. 0 \notin Timeouts => OnTime'
    BY <1>1, <1>4, <1>5 DEF OnTime, Scheduled, Expiry
  <2>4. QED BY <1>1, <1>2, <1>3, <1>5, <2>2, <2>3 DEF IInv, SweepIsComplete
<1>6. CASE /\ cookie \notin DOMAIN g
           /\ \E id \in Ids \ DOMAIN g :
                 /\ sessions' = Put(g, id, [last |-> now, timeout |-> timeout])
                 /\ context' = [context EXCEPT ![c] = id]
           /\ nextCleanupTime' = CleanupAfterCreate(g, nextCleanupTime, now, timeout)
  <2> HIDE DEF g
  <2>1. PICK id \in Ids \ DOMAIN g :
                 /\ sessions' = Put(g, id, [last |-> now, timeout |-> timeout])
                 /\ context' = [context EXCEPT ![c] = id]
    BY <1>6
  <2>2. Created(g, nextCleanupTime, now, sessions', nextCleanupTime')
    <3>1. /\ id \in Ids /\ id \notin DOMAIN g /\ StoreType(g)
          /\ now \in Nat /\ nextCleanupTime \in Nat /\ timeout \in Timeouts
          /\ \A i \in DOMAIN g : g[i].last <= now
          /\ nextCleanupTime' = CleanupAfterCreate(g, nextCleanupTime, now, timeout)
      BY <1>1, <1>2, <1>3, <1>6, <2>1
    <3> DEFINE new == [last |-> now, timeout |-> timeout]
    <3>2. sessions' = Put(g, id, new)
      BY <2>1
    <3>3. new = [last |-> now, timeout |-> timeout]
      OBVIOUS
    <3> HIDE DEF new
    <3>4. QED BY <3>1, <3>2, <3>3, CreateSessionOK
  <2>3. context' \in [Conns -> Ids \cup {NoSession}]
    BY <2>1 DEF IInv, TypeOK
  <2>4. TypeOK'
    BY <1>1, <2>2, <2>3 DEF Created, IInv, TypeOK, StoreType
  <2>5. 0 \notin Timeouts => OnTime'
    BY <1>1, <1>4, <2>2 DEF Created, OnTime, Scheduled, Expiry
  <2>6. QED BY <1>1, <1>2, <2>2, <2>4, <2>5 DEF Created, IInv, SweepIsComplete
<1>7. QED BY <1>5, <1>6 DEF SessionRequest

LEMMA CleanupStep ==
    ASSUME IInv, Cleanup
    PROVE  /\ IInv'
           /\ \A id \in DOMAIN sessions :
                 ~Expired(sessions[id], now) => id \in DOMAIN sessions'
<1>1. /\ StoreType(sessions) /\ now \in Nat /\ nextCleanupTime \in Nat
      /\ \A i \in DOMAIN sessions : sessions[i].last <= now
      /\ now' = now /\ dangling' = dangling /\ context' = context /\ swept' = TRUE
  BY DEF IInv, TypeOK, StoreType, Cleanup
<1>2. CASE nextCleanupTime = 0 \/ nextCleanupTime <= now
  <2> DEFINE expiries == {Expiry(sessions'[i]) : i \in DOMAIN sessions'}
  <2>1. sessions' = [i \in DOMAIN sessions \ ExpiredIds |-> sessions[i]]
    BY <1>2 DEF Cleanup, Erase, Restrict
  <2>2. nextCleanupTime' = IF expiries = {} THEN 0 ELSE Min(expiries)
    BY <1>2 DEF Cleanup
  <2>3. StoreType(sessions')
    BY <1>1, <2>1 DEF StoreType
  <2>4. /\ \A i \in DOMAIN sessions : ~Expired(sessions[i], now) => i \in DOMAIN sessions'
        /\ \A i \in DOMAIN sessions' : i \in DOMAIN sessions /\ sessions'[i] = sessions[i]
        /\ \A i \in DOMAIN sessions' : ~Expired(sessions'[i], now)
    BY <2>1 DEF ExpiredIds
  <2>5. \A i \in DOMAIN sessions' :
           sessions'[i].last \in Nat /\ sessions'[i].timeout \in Nat
           /\ sessions'[i].timeout \in Timeouts
    BY <2>3, SessionAssumption DEF StoreType
  <2>6. \A i \in DOMAIN sessions' : sessions'[i].last <= now
    BY <1>1, <2>4
  <2>7. expiries \subseteq Nat
    BY <2>5 DEF Expiry
  <2>8. nextCleanupTime' \in Nat /\ (0 \notin Timeouts => OnTime')
    <3>1. CASE expiries = {}
      <4>1. DOMAIN sessions' = {}
        BY <3>1
      <4>2. QED BY <2>2, <3>1, <4>1 DEF OnTime, Scheduled
    <3>2. CASE expiries # {}
      <4> HIDE DEF expiries
      <4>1. nextCleanupTime' \in expiries /\ \A x \in expiries : nextCleanupTime' <= x
        BY <2>2, <2>7, <3>2, FirstExpiry
      <4>2. \A i \in DOMAIN sessions' : nextCleanupTime' <= Expiry(sessions'[i])
        BY <4>1 DEF expiries
      <4>3. ASSUME 0 \notin Timeouts
            PROVE  nextCleanupTime' # 0
        <5>1. PICK i \in DOMAIN sessions' : nextCleanupTime' = Expiry(sessions'[i])
          BY <4>1 DEF expiries
        <5>2. sessions'[i].last \in Nat /\ sessions'[i].timeout \in Nat \ {0}
          BY <2>5, <4>3
        <5>3. nextCleanupTime' = sessions'[i].last + sessions'[i].timeout
          BY <5>1 DEF Expiry
        <5>4. \A x \in Nat, y \in Nat \ {0} : x + y # 0
          OBVIOUS
        <5>5. QED BY <5>2, <5>3, <5>4
      <4>4. QED BY <1>1, <2>6, <2>7, <4>1, <4>2, <4>3 DEF OnTime, Scheduled, Expiry
    <3>3. QED BY <3>1, <3>2
  <2>9. TypeOK'
    BY <1>1, <2>3, <2>8 DEF IInv, TypeOK, StoreType
  <2>10. IInv'
    BY <1>1, <2>4, <2>6, <2>8, <2>9 DEF IInv, SweepIsComplete, Expired
  <2>11. QED BY <2>4, <2>10
<1>3. CASE nextCleanupTime # 0 /\ ~(nextCleanupTime <= now)
  <2>1. sessions' = sessions /\ nextCleanupTime' = nextCleanupTime
    BY <1>3 DEF Cleanup
  <2>2. ASSUME 0 \notin Timeouts, NEW id \in DOMAIN sessions
        PROVE  ~Expired(sessions[id], now)
    <3>1. nextCleanupTime <= Expiry(sessions[id])
      BY <1>3, <2>2 DEF IInv, OnTime, Scheduled
    <3>2. /\ sessions[id].last \in Nat /\ sessions[id].timeout \in Nat
          /\ sessions[id].timeout # 0
      BY <1>1, <2>2, SessionAssumption DEF StoreType
    <3>3. QED BY <1>1, <1>3, <3>1, <3>2 DEF Expiry, Expired
  <2>3. TypeOK' /\ (0 \notin Timeouts => OnTime')
    BY <1>1, <2>1 DEF IInv, TypeOK, OnTime, Scheduled, Expiry
  <2>4. 0 \notin Timeouts => SweepIsComplete'
    BY <1>1, <2>1, <2>2 DEF SweepIsComplete, Expired
  <2>5. QED BY <1>1, <2>1, <2>3, <2>4 DEF IInv
<1>4. QED BY <1>2, <1>3

LEMMA NextInv ==
    ASSUME IInv, [Next]_vars
    PROVE  /\ IInv'
           /\ \A id \in DOMAIN sessions :
                 ~Expired(sessions[id], now) => id \in DOMAIN sessions'
<1>1. CASE Tick
  <2>1. now \in Nat /\ now' = now + 1
    BY <1>1 DEF Tick, IInv, TypeOK
  <2>2. sessions' = sessions /\ nextCleanupTime' = nextCleanupTime
        /\ context' = context /\ dangling' = dangling /\ swept' = FALSE
    BY <1>1 DEF Tick
  <2>3. \A id \in DOMAIN sessions : sessions[id].last <= now'
    <3>1. \A id \in DOMAIN sessions : sessions[id].last \in Nat /\ sessions[id].last <= now
      BY DEF IInv, TypeOK
    <3>2. QED BY <2>1, <3>1
  <2>4. TypeOK'
    <3>1. now' \in Nat
      BY <2>1
    <3>2. swept' \in BOOLEAN
      BY <2>2
    <3>3. QED BY <2>2, <2>3, <3>1, <3>2 DEF IInv, TypeOK
  <2>5. 0 \notin Timeouts => OnTime'
    BY <2>2, <2>3 DEF IInv, OnTime, Scheduled, Expiry
  <2>6. QED BY <2>2, <2>3, <2>4, <2>5 DEF IInv, SweepIsComplete
<1>2. CASE Cleanup
  BY <1>2, CleanupStep
<1>3. ASSUME NEW c \in Conns, OtherRequest(c) \/ Reconnect(c)
      PROVE  IInv' /\ sessions' = sessions
  <2>1. /\ sessions' = sessions /\ nextCleanupTime' = nextCleanupTime /\ now' = now
        /\ context' \in [Conns -> Ids \cup {NoSession}]
        /\ dangling' \in BOOLEAN /\ swept' = FALSE
    BY <1>3 DEF OtherRequest, Reconnect, IInv, TypeOK
  <2>2. QED BY <2>1 DEF IInv, TypeOK, OnTime, SweepIsComplete, Scheduled, Expiry, Expired
<1>4. ASSUME NEW c \in Conns, NEW cookie \in Ids \cup {NoSession}, NEW timeout \in Timeouts,
             SessionRequest(c, cookie, timeout)
      PROVE  /\ IInv'
             /\ \A id \in DOMAIN sessions :
                   ~Expired(sessions[id], now) => id \in DOMAIN sessions'
  BY <1>4, RequestStep
<1>5. CASE UNCHANGED vars
  BY <1>5 DEF vars, IInv, TypeOK, OnTime, SweepIsComplete, Scheduled, Expiry, Expired
<1>6. QED BY <1>1, <1>2, <1>3, <1>4, <1>5 DEF Next

-----------------------------------------------------------------------------
(* The invariant holds in every reachable state. *)
THEOREM Invariance == Spec => []IInv
<1>1. Init => IInv
  BY InitInv
<1>2. IInv /\ [Next]_vars => IInv'
  BY NextInv
<1>3. QED BY <1>1, <1>2, PTL DEF Spec

(* The store, its schedule and the contexts keep their types: what         *)
(* createSession(), getSession() and cleanup() leave behind is well formed.*)
THEOREM TypeCorrect == Spec => []TypeOK
<1>1. IInv => TypeOK
  BY DEF IInv
<1>2. QED BY <1>1, Invariance, PTL

(* With positive timeouts _nextCleanupTime is never later than the expiry  *)
(* of a session.                                                           *)
THEOREM CleanupInTime ==
    ASSUME 0 \notin Timeouts
    PROVE  Spec => []CleanupNotLate
<1>1. IInv => CleanupNotLate
  BY DEF IInv, OnTime, Scheduled, CleanupNotLate
<1>2. QED BY <1>1, Invariance, PTL

(* With positive timeouts no turn of the loop leaves an expired session.   *)
THEOREM CleanupComplete ==
    ASSUME 0 \notin Timeouts
    PROVE  Spec => []SweepIsComplete
<1>1. IInv => SweepIsComplete
  BY DEF IInv
<1>2. QED BY <1>1, Invariance, PTL

(* Whatever the timeouts, no request and no sweep deletes a session before *)
(* its timeout.                                                            *)
THEOREM NoEarlyLogout == Spec => UnexpiredIsKept
<1>1. IInv /\ [Next]_vars =>
         [\A id \in DOMAIN sessions :
             ~Expired(sessions[id], now) => id \in DOMAIN sessions']_vars
  BY NextInv
<1>2. QED BY <1>1, Invariance, PTL DEF Spec, UnexpiredIsKept
=============================================================================
