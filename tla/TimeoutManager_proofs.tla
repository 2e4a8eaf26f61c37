------------------------ MODULE TimeoutManager_proofs ------------------------
(***************************************************************************)
(* Theorems about TimeoutManager for every set of connections, every set   *)
(* of timeouts and every bound on the clock and on the sleep.              *)
(***************************************************************************)
EXTENDS TimeoutManager, FiniteSetTheorems, WellFoundedInduction, TLAPS

(* The state of the maps between two calls: their types, their agreement   *)
(* and the counter.                                                        *)
TimersType(t) ==
    /\ t = [byTime |-> t.byTime, byObj |-> t.byObj, active |-> t.active]
    /\ t.byTime \in [DOMAIN t.byTime -> SUBSET Clients]
    /\ DOMAIN t.byTime \subseteq Nat
    /\ t.byObj \in [DOMAIN t.byObj -> Nat]
    /\ DOMAIN t.byObj \subseteq Clients
TimersOK(t) ==
    /\ TimersType(t)
    /\ MapsAgree(t)
    /\ t.active = Cardinality(DOMAIN t.byObj)

(* Only finitely many objects can be watched. *)
LEMMA WatchedFinite ==
    ASSUME NEW t, TimersType(t)
    PROVE  IsFiniteSet(DOMAIN t.byObj)
  BY TimeoutAssumption, FS_Subset DEF TimersType

(* remove() keeps the maps in order, forgets the object and no other. *)
LEMMA RemoveTimerOK ==
    ASSUME NEW t, NEW obj \in Clients, TimersOK(t)
    PROVE  /\ TimersOK(RemoveTimer(t, obj))
           /\ DOMAIN RemoveTimer(t, obj).byObj = DOMAIN t.byObj \ {obj}
           /\ \A o \in DOMAIN t.byObj \ {obj} :
                 RemoveTimer(t, obj).byObj[o] = t.byObj[o]
<1> DEFINE r == RemoveTimer(t, obj)
<1>1. CASE obj \notin DOMAIN t.byObj
  BY <1>1 DEF RemoveTimer
<1>2. CASE obj \in DOMAIN t.byObj
  <2> DEFINE time == t.byObj[obj]
             rest == t.byTime[time] \ {obj}
  <2>1. time \in DOMAIN t.byTime /\ time \in Nat /\ Listed(t, time) = t.byTime[time]
    BY <1>2 DEF TimersOK, TimersType, MapsAgree, Listed
  <2>2. /\ r.byTime = IF rest = {} THEN Erase(t.byTime, {time})
                                   ELSE Put(t.byTime, time, rest)
        /\ r.byObj = Erase(t.byObj, {obj})
        /\ r.active = t.active - 1
        /\ r = [byTime |-> r.byTime, byObj |-> r.byObj, active |-> r.active]
    BY <1>2, <2>1 DEF RemoveTimer
  <2> HIDE DEF r
  <2>3. /\ DOMAIN r.byObj = DOMAIN t.byObj \ {obj}
        /\ \A o \in DOMAIN t.byObj \ {obj} : r.byObj[o] = t.byObj[o]
        /\ r.byObj = [o \in DOMAIN t.byObj \ {obj} |-> t.byObj[o]]
    BY <2>2 DEF Erase, Restrict
  <2>4. /\ r.byTime \in [DOMAIN r.byTime -> SUBSET Clients]
        /\ DOMAIN r.byTime = IF rest = {} THEN DOMAIN t.byTime \ {time}
                                          ELSE DOMAIN t.byTime
        /\ \A e \in DOMAIN r.byTime :
              r.byTime[e] = IF e = time THEN rest ELSE t.byTime[e]
    <3>1. t.byTime \in [DOMAIN t.byTime -> SUBSET Clients]
      BY DEF TimersOK, TimersType
    <3>2. CASE rest = {}
      <4>1. r.byTime = Erase(t.byTime, {time})
        BY <2>2, <3>2
      <4>2. QED
        BY <4>1, <3>1, <3>2, <2>1 DEF Erase, Restrict
    <3>3. CASE rest # {}
      <4>1. r.byTime = Put(t.byTime, time, rest)
        BY <2>2, <3>3
      <4>2. r.byTime = [k \in DOMAIN t.byTime \cup {time} |->
                           IF k = time THEN rest ELSE t.byTime[k]]
        BY <4>1 DEF Put
      <4>3. QED
        BY <4>2, <3>1, <3>3, <2>1
    <3>4. QED BY <3>2, <3>3
  <2>5. TimersType(r)
    <3>1. /\ DOMAIN t.byTime \subseteq Nat /\ DOMAIN t.byObj \subseteq Clients
          /\ t.byObj \in [DOMAIN t.byObj -> Nat]
      BY DEF TimersOK, TimersType
    <3>2. r.byObj \in [DOMAIN r.byObj -> Nat] /\ DOMAIN r.byObj \subseteq Clients
      BY <3>1, <2>3
    <3>3. DOMAIN r.byTime \subseteq Nat
      BY <3>1, <2>4
    <3>4. r = [byTime |-> r.byTime, byObj |-> r.byObj, active |-> r.active]
      BY <2>2
    <3>5. QED BY <2>4, <3>2, <3>3, <3>4 DEF TimersType
  <2>6. MapsAgree(r)
    <3>1. ASSUME NEW o \in DOMAIN r.byObj
          PROVE  r.byObj[o] \in DOMAIN r.byTime /\ o \in r.byTime[r.byObj[o]]
      <4>1. o # obj /\ o \in DOMAIN t.byObj /\ r.byObj[o] = t.byObj[o]
        BY <2>3
      <4>2. t.byObj[o] \in DOMAIN t.byTime /\ o \in t.byTime[t.byObj[o]]
        BY <4>1 DEF TimersOK, MapsAgree
      <4>3. QED
        BY <4>1, <4>2, <2>4
    <3>2. ASSUME NEW e \in DOMAIN r.byTime
          PROVE  r.byTime[e] # {} /\ \A o \in r.byTime[e] :
                    o \in DOMAIN r.byObj /\ r.byObj[o] = e
      <4>1. e \in DOMAIN t.byTime
        BY <2>4
      <4>2. t.byTime[e] # {} /\ \A o \in t.byTime[e] :
                    o \in DOMAIN t.byObj /\ t.byObj[o] = e
        BY <4>1 DEF TimersOK, MapsAgree
      <4>3. QED
        BY <4>1, <4>2, <2>4, <2>3
    <3>3. QED BY <3>1, <3>2 DEF MapsAgree
  <2>7. r.active = Cardinality(DOMAIN r.byObj)
    <3>1. TimersType(t) /\ t.active = Cardinality(DOMAIN t.byObj)
      BY DEF TimersOK
    <3>2. IsFiniteSet(DOMAIN t.byObj)
      BY <3>1, WatchedFinite
    <3>3. Cardinality(DOMAIN t.byObj \ {obj}) = Cardinality(DOMAIN t.byObj) - 1
      BY <1>2, <3>2, FS_RemoveElement
    <3>4. QED BY <3>1, <3>3, <2>2, <2>3
  <2>8. QED BY <2>3, <2>5, <2>6, <2>7 DEF TimersOK, r
<1>3. QED BY <1>1, <1>2

(* add() keeps the maps in order, watches the object until the given time  *)
(* and changes no other timer.                                             *)
LEMMA AddTimerOK ==
    ASSUME NEW t, NEW obj \in Clients, NEW time \in Nat, TimersOK(t)
    PROVE  /\ TimersOK(AddTimer(t, obj, time))
           /\ DOMAIN AddTimer(t, obj, time).byObj = DOMAIN t.byObj \cup {obj}
           /\ AddTimer(t, obj, time).byObj[obj] = time
           /\ \A o \in DOMAIN t.byObj \ {obj} :
                 AddTimer(t, obj, time).byObj[o] = t.byObj[o]
<1> DEFINE r == RemoveTimer(t, obj)
           a == AddTimer(t, obj, time)
<1>1. /\ TimersOK(r)
      /\ DOMAIN r.byObj = DOMAIN t.byObj \ {obj}
      /\ \A o \in DOMAIN t.byObj \ {obj} : r.byObj[o] = t.byObj[o]
  BY RemoveTimerOK
<1>2. /\ a.byTime = Put(r.byTime, time, Listed(r, time) \cup {obj})
      /\ a.byObj = Put(r.byObj, obj, time)
      /\ a.active = r.active + 1
      /\ a = [byTime |-> a.byTime, byObj |-> a.byObj, active |-> a.active]
  BY DEF AddTimer
<1> HIDE DEF r, a
<1>3. TimersType(r) /\ MapsAgree(r) /\ r.active = Cardinality(DOMAIN r.byObj)
  BY <1>1 DEF TimersOK
<1>4. /\ a.byObj \in [DOMAIN a.byObj -> Nat]
      /\ DOMAIN a.byObj = DOMAIN r.byObj \cup {obj}
      /\ \A o \in DOMAIN a.byObj :
            a.byObj[o] = IF o = obj THEN time ELSE r.byObj[o]
  BY <1>2, <1>3 DEF Put, TimersType
<1>5. /\ a.byTime \in [DOMAIN a.byTime -> SUBSET Clients]
      /\ DOMAIN a.byTime = DOMAIN r.byTime \cup {time}
      /\ \A e \in DOMAIN a.byTime :
            a.byTime[e] = IF e = time THEN Listed(r, time) \cup {obj}
                                      ELSE r.byTime[e]
  BY <1>2, <1>3 DEF Put, TimersType, Listed
<1>6. TimersType(a)
  <2>1. DOMAIN a.byTime \subseteq Nat /\ DOMAIN a.byObj \subseteq Clients
    BY <1>3, <1>4, <1>5 DEF TimersType
  <2>2. QED BY <2>1, <1>2, <1>4, <1>5 DEF TimersType
<1>7. MapsAgree(a)
  <2>1. ASSUME NEW o \in DOMAIN a.byObj
        PROVE  a.byObj[o] \in DOMAIN a.byTime /\ o \in a.byTime[a.byObj[o]]
    <3>1. CASE o = obj
      BY <3>1, <1>4, <1>5
    <3>2. CASE o # obj
      <4>1. o \in DOMAIN r.byObj /\ a.byObj[o] = r.byObj[o]
        BY <3>2, <1>4
      <4>2. r.byObj[o] \in DOMAIN r.byTime /\ o \in r.byTime[r.byObj[o]]
        BY <4>1, <1>3 DEF MapsAgree
      <4>3. QED BY <4>1, <4>2, <1>5 DEF Listed
    <3>3. QED BY <3>1, <3>2
  <2>2. ASSUME NEW e \in DOMAIN a.byTime
        PROVE  a.byTime[e] # {} /\ \A o \in a.byTime[e] :
                  o \in DOMAIN a.byObj /\ a.byObj[o] = e
    <3>1. e \in DOMAIN r.byTime =>
             r.byTime[e] # {} /\ \A o \in r.byTime[e] :
                o \in DOMAIN r.byObj /\ r.byObj[o] = e
      BY <1>3 DEF MapsAgree
    <3>2. obj \notin DOMAIN r.byObj
      BY <1>1
    <3>3. QED BY <3>1, <3>2, <1>4, <1>5 DEF Listed
  <2>3. QED BY <2>1, <2>2 DEF MapsAgree
<1>8. a.active = Cardinality(DOMAIN a.byObj)
  <2>1. IsFiniteSet(DOMAIN r.byObj)
    BY <1>3, WatchedFinite
  <2>2. obj \notin DOMAIN r.byObj
    BY <1>1
  <2>3. Cardinality(DOMAIN r.byObj \cup {obj}) = Cardinality(DOMAIN r.byObj) + 1
    BY <2>1, <2>2, FS_AddElement
  <2>4. QED BY <2>3, <1>2, <1>3, <1>4
<1>9. TimersOK(a)
  BY <1>6, <1>7, <1>8 DEF TimersOK
<1>10. QED BY <1>1, <1>4, <1>9 DEF a

(* The objects listed under the keys up to now are those whose expiry time *)
(* has come.                                                               *)
LEMMA DueTimersAreDue ==
    ASSUME NEW t, NEW n \in Nat, TimersOK(t)
    PROVE  DueTimers(t, n) = {o \in DOMAIN t.byObj : t.byObj[o] <= n}
<1>1. MapsAgree(t) /\ TimersType(t)
  BY DEF TimersOK
<1>2. ASSUME NEW o \in DueTimers(t, n)
      PROVE  o \in DOMAIN t.byObj /\ t.byObj[o] <= n
  <2>1. PICK e \in DOMAIN t.byTime : e <= n /\ o \in t.byTime[e]
    BY <1>2 DEF DueTimers, DueTimes
  <2>2. QED BY <2>1, <1>1 DEF MapsAgree
<1>3. ASSUME NEW o \in DOMAIN t.byObj, t.byObj[o] <= n
      PROVE  o \in DueTimers(t, n)
  <2>1. t.byObj[o] \in DOMAIN t.byTime /\ o \in t.byTime[t.byObj[o]]
    BY <1>1 DEF MapsAgree
  <2>2. t.byObj[o] \in DueTimes(t, n)
    BY <2>1, <1>3 DEF DueTimes
  <2>3. QED BY <2>1, <2>2 DEF DueTimers
<1>4. QED BY <1>2, <1>3

(* Taking the due timers keeps the maps in order and changes no other. *)
LEMMA DropDueTimersOK ==
    ASSUME NEW t, NEW n \in Nat, TimersOK(t)
    PROVE  /\ TimersOK(DropDueTimers(t, n))
           /\ DOMAIN DropDueTimers(t, n).byObj =
                 DOMAIN t.byObj \ DueTimers(t, n)
           /\ \A o \in DOMAIN t.byObj \ DueTimers(t, n) :
                 DropDueTimers(t, n).byObj[o] = t.byObj[o]
<1> DEFINE r == DropDueTimers(t, n)
           due == DueTimers(t, n)
<1>1. TimersType(t) /\ MapsAgree(t) /\ t.active = Cardinality(DOMAIN t.byObj)
  BY DEF TimersOK
<1>2. due = {o \in DOMAIN t.byObj : t.byObj[o] <= n}
  BY DueTimersAreDue
<1>3. /\ r.byTime = Erase(t.byTime, DueTimes(t, n))
      /\ r.byObj = Erase(t.byObj, due)
      /\ r.active = t.active - Cardinality(due)
      /\ r = [byTime |-> r.byTime, byObj |-> r.byObj, active |-> r.active]
  BY DEF DropDueTimers
<1> HIDE DEF r, due
<1>4. /\ r.byObj \in [DOMAIN r.byObj -> Nat]
      /\ DOMAIN r.byObj = DOMAIN t.byObj \ due
      /\ \A o \in DOMAIN r.byObj : r.byObj[o] = t.byObj[o]
  BY <1>1, <1>3 DEF Erase, Restrict, TimersType
<1>5. /\ r.byTime \in [DOMAIN r.byTime -> SUBSET Clients]
      /\ DOMAIN r.byTime = DOMAIN t.byTime \ DueTimes(t, n)
      /\ \A e \in DOMAIN r.byTime : r.byTime[e] = t.byTime[e]
  BY <1>1, <1>3 DEF Erase, Restrict, TimersType
<1>6. TimersType(r)
  <2>1. DOMAIN r.byTime \subseteq Nat /\ DOMAIN r.byObj \subseteq Clients
    BY <1>1, <1>4, <1>5 DEF TimersType
  <2>2. QED BY <2>1, <1>3, <1>4, <1>5 DEF TimersType
<1>7. MapsAgree(r)
  <2>1. ASSUME NEW o \in DOMAIN r.byObj
        PROVE  r.byObj[o] \in DOMAIN r.byTime /\ o \in r.byTime[r.byObj[o]]
    <3>1. /\ o \in DOMAIN t.byObj /\ r.byObj[o] = t.byObj[o]
          /\ ~(t.byObj[o] <= n)
      BY <1>2, <1>4
    <3>2. t.byObj[o] \in DOMAIN t.byTime /\ o \in t.byTime[t.byObj[o]]
      BY <3>1, <1>1 DEF MapsAgree
    <3>3. t.byObj[o] \in DOMAIN r.byTime
      BY <3>1, <3>2, <1>5 DEF DueTimes
    <3>4. QED BY <3>1, <3>2, <3>3, <1>5
  <2>2. ASSUME NEW e \in DOMAIN r.byTime
        PROVE  r.byTime[e] # {} /\ \A o \in r.byTime[e] :
                  o \in DOMAIN r.byObj /\ r.byObj[o] = e
    <3>1. /\ e \in DOMAIN t.byTime /\ ~(e <= n) /\ r.byTime[e] = t.byTime[e]
      BY <1>5 DEF DueTimes
    <3>2. t.byTime[e] # {} /\ \A o \in t.byTime[e] :
                  o \in DOMAIN t.byObj /\ t.byObj[o] = e
      BY <3>1, <1>1 DEF MapsAgree
    <3>3. QED BY <3>1, <3>2, <1>2, <1>4
  <2>3. QED BY <2>1, <2>2 DEF MapsAgree
<1>8. r.active = Cardinality(DOMAIN r.byObj)
  <2>1. IsFiniteSet(DOMAIN t.byObj)
    BY <1>1, WatchedFinite
  <2>2. due \subseteq DOMAIN t.byObj
    BY <1>2
  <2>3. DOMAIN t.byObj \cap due = due
    BY <2>2
  <2>4. Cardinality(DOMAIN t.byObj \ due)
           = Cardinality(DOMAIN t.byObj) - Cardinality(DOMAIN t.byObj \cap due)
    BY <2>1, FS_Difference
  <2>5. QED BY <2>3, <2>4, <1>1, <1>3, <1>4
<1>9. QED BY <1>4, <1>6, <1>7, <1>8 DEF TimersOK, r, due

-----------------------------------------------------------------------------
(* Between the timeouts check and the first event nothing is forgotten:    *)
(* the inductive invariant says in addition to the checked properties that *)
(* the vector of expired objects is empty outside of the callbacks.        *)
NoneExpired == pc # "callbacks" => expired = {}
LoopType ==
    /\ now \in Nat
    /\ expired \subseteq Clients
    /\ pc \in {"compute", "wait", "check", "callbacks", "events"}
    /\ wakeAt \in Nat \cup {-1}
IInv ==
    /\ TimersOK(timers)
    /\ LoopType
    /\ EveryConnectionTimed
    /\ NoneExpired
    /\ SleepRespectsDeadlines

(* A set of times has a first one, the key begin() of the map refers to. *)
LEMMA FirstKey ==
    ASSUME NEW S \in SUBSET Nat, S # {}
    PROVE  Min(S) \in S /\ \A y \in S : Min(S) <= y
<1>1. PICK x \in S : \A y \in S : ~(<<y, x>> \in OpToRel(<, Nat))
  BY WFMin, NatLessThanWellFounded, Zenon
<1>2. \A y \in S : x <= y
  <2>1. TAKE y \in S
  <2>2. ~(y < x)
    BY <1>1, Zenon DEF OpToRel
  <2>3. QED BY <2>2
<1>3. QED BY <1>2 DEF Min

(* No timers are in order. *)
LEMMA NoTimersOK == TimersOK(NoTimers) /\ DOMAIN NoTimers.byObj = {}
<1>1. DOMAIN NoTimers.byObj = {} /\ DOMAIN NoTimers.byTime = {}
  BY DEF NoTimers
<1>2. Cardinality({}) = 0
  BY FS_EmptySet
<1>3. QED
  BY <1>1, <1>2 DEF NoTimers, TimersOK, TimersType, MapsAgree

(* getNextTimeoutInterval() is negative only without timers and never      *)
(* sleeps past a deadline that has not come.                               *)
LEMMA IntervalOK ==
    ASSUME NEW t, NEW n \in Nat, TimersOK(t)
    PROVE  LET i == NextTimeoutInterval(t, n, LongestSleep)
           IN IF DOMAIN t.byObj = {} THEN i = -1
              ELSE /\ i \in Nat
                   /\ \A o \in DOMAIN t.byObj : n + i <= t.byObj[o] \/ i = 0
<1> DEFINE i == NextTimeoutInterval(t, n, LongestSleep)
           first == Min(DOMAIN t.byTime)
<1>1. MapsAgree(t) /\ DOMAIN t.byTime \subseteq Nat
  BY DEF TimersOK, TimersType
<1>2. CASE DOMAIN t.byObj = {}
  <2>1. DOMAIN t.byTime = {}
    BY <1>1, <1>2 DEF MapsAgree
  <2>2. QED BY <1>2, <2>1 DEF NextTimeoutInterval
<1>3. CASE DOMAIN t.byObj # {}
  <2>1. DOMAIN t.byTime # {}
    BY <1>1, <1>3 DEF MapsAgree
  <2>2. first \in Nat /\ \A e \in DOMAIN t.byTime : first <= e
    BY <1>1, <2>1, FirstKey
  <2>3. i = IF first <= n THEN 0
            ELSE IF first - n > LongestSleep THEN LongestSleep ELSE first - n
    BY <2>1 DEF NextTimeoutInterval
  <2> HIDE DEF i, first
  <2>4. i \in Nat /\ (i = 0 \/ n + i <= first)
    BY <2>2, <2>3, TimeoutAssumption
  <2>5. ASSUME NEW o \in DOMAIN t.byObj
        PROVE  n + i <= t.byObj[o] \/ i = 0
    <3>1. t.byObj[o] \in DOMAIN t.byTime /\ t.byObj[o] \in Nat
      BY <1>1 DEF MapsAgree
    <3>2. first <= t.byObj[o]
      BY <3>1, <2>2
    <3>3. QED BY <3>1, <3>2, <2>2, <2>4
  <2>6. QED BY <1>3, <2>4, <2>5 DEF i
<1>4. QED BY <1>2, <1>3

(* The invariant holds at start. *)
LEMMA InitInv == Init => IInv
<1> SUFFICES ASSUME Init PROVE IInv
  OBVIOUS
<1>1. TimersOK(timers) /\ DOMAIN timers.byObj = {}
  BY NoTimersOK DEF Init
<1>2. QED
  BY <1>1 DEF Init, IInv, LoopType, EveryConnectionTimed, NoneExpired,
              SleepRespectsDeadlines

(* The steps that leave timers, connections and expired objects alone. *)
LEMMA QuietStep ==
    ASSUME IInv, UNCHANGED <<timers, open, expired>>, LoopType',
           (pc = "callbacks" /\ pc' # "callbacks") => expired = {},
           SleepRespectsDeadlines'
    PROVE  IInv'
  BY DEF IInv, EveryConnectionTimed, NoneExpired

(* Every action keeps the invariant. *)
LEMMA NextInv == IInv /\ [Next]_vars => IInv'
<1> SUFFICES ASSUME IInv, [Next]_vars PROVE IInv'
  OBVIOUS
<1> USE DEF LoopType
<1>1. LoopType /\ TimersOK(timers) /\ EveryConnectionTimed /\ NoneExpired
  BY DEF IInv
<1>2. CASE Tick
  <2>1. SleepRespectsDeadlines'
    BY <1>1, <1>2 DEF IInv, SleepRespectsDeadlines, Tick
  <2>2. QED
    BY <1>1, <1>2, <2>1, QuietStep DEF Tick
<1>3. CASE ComputeInterval
  <2> DEFINE i == NextTimeoutInterval(timers, now, LongestSleep)
  <2>1. /\ wakeAt' = IF i = -1 THEN -1 ELSE now + i
        /\ pc = "compute" /\ pc' = "wait" /\ UNCHANGED <<now, timers, open, expired>>
    BY <1>3 DEF ComputeInterval
  <2>2. IF DOMAIN timers.byObj = {} THEN i = -1
        ELSE /\ i \in Nat
             /\ \A o \in DOMAIN timers.byObj : now + i <= timers.byObj[o] \/ i = 0
    BY <1>1, IntervalOK
  <2> HIDE DEF i
  <2>3. open = DOMAIN timers.byObj
    BY <1>1, <2>1 DEF EveryConnectionTimed, NoneExpired
  <2>4. SleepRespectsDeadlines'
    BY <1>1, <2>1, <2>2, <2>3 DEF SleepRespectsDeadlines
  <2>5. wakeAt' \in Nat \cup {-1}
    BY <1>1, <2>1, <2>2
  <2>6. QED
    BY <1>1, <2>1, <2>4, <2>5, QuietStep
<1>4. CASE WakeForEvents \/ WakeForTimeout
  BY <1>1, <1>4, QuietStep DEF WakeForEvents, WakeForTimeout, SleepRespectsDeadlines
<1>5. CASE CheckTimeouts
  <2>1. /\ TimersOK(timers')
        /\ DOMAIN timers'.byObj = DOMAIN timers.byObj \ expired'
        /\ expired' \subseteq DOMAIN timers.byObj
    BY <1>1, <1>5, DropDueTimersOK, DueTimersAreDue DEF CheckTimeouts
  <2>2. open = DOMAIN timers.byObj /\ DOMAIN timers.byObj \subseteq Clients
    BY <1>1, <1>5 DEF CheckTimeouts, EveryConnectionTimed, NoneExpired,
                      TimersOK, TimersType
  <2>3. EveryConnectionTimed'
    BY <1>5, <2>1, <2>2 DEF CheckTimeouts, EveryConnectionTimed
  <2>4. LoopType' /\ NoneExpired' /\ SleepRespectsDeadlines'
    BY <1>1, <1>5, <2>1, <2>2
    DEF CheckTimeouts, NoneExpired, SleepRespectsDeadlines
  <2>5. QED BY <2>1, <2>3, <2>4 DEF IInv
<1>6. ASSUME NEW c \in Clients, CallOnTimeout(c)
      PROVE  IInv'
  <2>1. /\ pc = "callbacks" /\ c \in expired /\ expired' = expired \ {c}
        /\ open' = open \ {c} /\ UNCHANGED <<now, pc, wakeAt>>
    BY <1>6 DEF CallOnTimeout
  <2>2. PICK t \in {timers} \cup {AddTimer(timers, c, now + d) : d \in Delays} :
           timers' = RemoveTimer(t, c)
    BY <1>6 DEF CallOnTimeout
  <2>3. TimersOK(t) /\ DOMAIN t.byObj \ {c} = DOMAIN timers.byObj \ {c}
    <3>1. CASE t = timers
      BY <1>1, <3>1
    <3>2. CASE \E d \in Delays : t = AddTimer(timers, c, now + d)
      <4>1. PICK d \in Delays : t = AddTimer(timers, c, now + d)
        BY <3>2
      <4>2. now + d \in Nat
        BY <1>1, TimeoutAssumption
      <4>3. QED BY <1>1, <4>1, <4>2, AddTimerOK
    <3>3. QED BY <2>2, <3>1, <3>2
  <2>4. /\ TimersOK(timers')
        /\ DOMAIN timers'.byObj = DOMAIN timers.byObj \ {c}
    BY <2>2, <2>3, RemoveTimerOK
  <2>5. EveryConnectionTimed'
    BY <1>1, <2>1, <2>4 DEF EveryConnectionTimed
  <2>6. LoopType' /\ NoneExpired' /\ SleepRespectsDeadlines'
    BY <1>1, <2>1 DEF NoneExpired, SleepRespectsDeadlines
  <2>7. QED BY <2>4, <2>5, <2>6 DEF IInv
<1>7. CASE EndCallbacks \/ EndEvents
  BY <1>1, <1>7, QuietStep DEF EndCallbacks, EndEvents, SleepRespectsDeadlines
<1>8. ASSUME NEW c \in Clients, OpenConnection(c) \/ RenewConnection(c)
      PROVE  IInv'
  <2>1. /\ pc = "events" /\ open' = open \cup {c}
        /\ UNCHANGED <<now, pc, wakeAt, expired>>
    BY <1>8 DEF OpenConnection, RenewConnection
  <2>2. PICK d \in Delays : timers' = AddTimer(timers, c, now + d)
    BY <1>8 DEF OpenConnection, RenewConnection
  <2>3. /\ TimersOK(timers')
        /\ DOMAIN timers'.byObj = DOMAIN timers.byObj \cup {c}
    BY <1>1, <2>2, AddTimerOK, TimeoutAssumption
  <2>4. EveryConnectionTimed'
    BY <1>1, <2>1, <2>3 DEF EveryConnectionTimed, NoneExpired
  <2>5. LoopType' /\ NoneExpired' /\ SleepRespectsDeadlines'
    BY <1>1, <2>1 DEF NoneExpired, SleepRespectsDeadlines
  <2>6. QED BY <2>3, <2>4, <2>5 DEF IInv
<1>9. ASSUME NEW c \in Clients, CloseConnection(c)
      PROVE  IInv'
  <2>1. /\ pc = "events" /\ open' = open \ {c}
        /\ UNCHANGED <<now, pc, wakeAt, expired>>
        /\ timers' = RemoveTimer(timers, c)
    BY <1>9 DEF CloseConnection
  <2>2. /\ TimersOK(timers')
        /\ DOMAIN timers'.byObj = DOMAIN timers.byObj \ {c}
    BY <1>1, <2>1, RemoveTimerOK
  <2>3. EveryConnectionTimed'
    BY <1>1, <2>1, <2>2 DEF EveryConnectionTimed, NoneExpired
  <2>4. LoopType' /\ NoneExpired' /\ SleepRespectsDeadlines'
    BY <1>1, <2>1 DEF NoneExpired, SleepRespectsDeadlines
  <2>5. QED BY <2>2, <2>3, <2>4 DEF IInv
<1>10. CASE UNCHANGED vars
  BY <1>1, <1>10, QuietStep DEF vars, IInv, SleepRespectsDeadlines
<1>11. QED
  BY <1>2, <1>3, <1>4, <1>5, <1>6, <1>7, <1>8, <1>9, <1>10 DEF Next, Loop

(* The invariant holds in every reachable state. *)
THEOREM Invariance == Spec => []IInv
  BY InitInv, NextInv, PTL DEF Spec

(* Type correctness; in particular getActiveTimeoutCount(), an unsigned    *)
(* counter decremented by remove() and by the check, never goes below 0.   *)
THEOREM TypeCorrect == Spec => []TypeOK
<1>1. IInv => TypeOK
  <2> SUFFICES ASSUME IInv PROVE TypeOK
    OBVIOUS
  <2>1. TimersType(timers) /\ timers.active = Cardinality(DOMAIN timers.byObj)
    BY DEF IInv, TimersOK
  <2>2. timers.active \in Nat
    BY <2>1, WatchedFinite, FS_CardinalityType
  <2>3. open \subseteq Clients
    BY <2>1 DEF IInv, LoopType, EveryConnectionTimed, TimersType
  <2>4. QED
    BY <2>1, <2>2, <2>3 DEF TypeOK, IInv, LoopType, TimersType
<1>2. QED BY Invariance, <1>1, PTL

(* The two maps of the TimeoutManager always hold the same timers. *)
THEOREM MapsConsistent == Spec => []TimersConsistent
<1>1. IInv => TimersConsistent
  BY DEF IInv, TimersOK, TimersConsistent
<1>2. QED BY Invariance, <1>1, PTL

(* Every open connection has a timer or a pending callback, and nothing    *)
(* else has: the raw pointers the manager stores are those of live objects.*)
THEOREM ConnectionsTimed == Spec => []EveryConnectionTimed
<1>1. IInv => EveryConnectionTimed
  BY DEF IInv
<1>2. QED BY Invariance, <1>1, PTL

(* The server never sleeps past a deadline. *)
THEOREM NoOversleep == Spec => []SleepRespectsDeadlines
<1>1. IInv => SleepRespectsDeadlines
  BY DEF IInv
<1>2. QED BY Invariance, <1>1, PTL

-----------------------------------------------------------------------------
(* The deadline of an object after add() and after remove(). *)
LEMMA DeadlinesAfterAdd ==
    ASSUME NEW t, NEW obj \in Clients, NEW time \in Nat, TimersOK(t)
    PROVE  DeadlinesOf(AddTimer(t, obj, time))
              = [DeadlinesOf(t) EXCEPT ![obj] = time]
<1> DEFINE a == AddTimer(t, obj, time)
<1>1. /\ DOMAIN a.byObj = DOMAIN t.byObj \cup {obj}
      /\ a.byObj[obj] = time
      /\ \A o \in DOMAIN t.byObj \ {obj} : a.byObj[o] = t.byObj[o]
  BY AddTimerOK
<1> HIDE DEF a
<1>2. DeadlinesOf(a) = [DeadlinesOf(t) EXCEPT ![obj] = time]
  BY <1>1 DEF DeadlinesOf
<1>3. QED BY <1>2 DEF a

LEMMA DeadlinesAfterRemove ==
    ASSUME NEW t, NEW obj \in Clients, TimersOK(t)
    PROVE  DeadlinesOf(RemoveTimer(t, obj))
              = [DeadlinesOf(t) EXCEPT ![obj] = None]
<1> DEFINE r == RemoveTimer(t, obj)
<1>1. /\ DOMAIN r.byObj = DOMAIN t.byObj \ {obj}
      /\ \A o \in DOMAIN t.byObj \ {obj} : r.byObj[o] = t.byObj[o]
  BY RemoveTimerOK
<1> HIDE DEF r
<1>2. DeadlinesOf(r) = [DeadlinesOf(t) EXCEPT ![obj] = None]
  BY <1>1 DEF DeadlinesOf
<1>3. QED BY <1>2 DEF r

(* A check of the timers fires exactly the objects whose deadline has come.*)
LEMMA DeadlinesAfterCheck ==
    ASSUME NEW t, NEW n \in Nat, TimersOK(t)
    PROVE  /\ DueTimers(t, n) = {o \in Clients : /\ DeadlinesOf(t)[o] # None
                                                 /\ DeadlinesOf(t)[o] <= n}
           /\ DeadlinesOf(DropDueTimers(t, n))
                 = [o \in Clients |-> IF o \in DueTimers(t, n) THEN None
                                      ELSE DeadlinesOf(t)[o]]
<1>1. /\ DOMAIN t.byObj \subseteq Clients
      /\ \A o \in DOMAIN t.byObj : t.byObj[o] \in Nat
  BY DEF TimersOK, TimersType
<1>2. DueTimers(t, n) = {o \in DOMAIN t.byObj : t.byObj[o] <= n}
  BY DueTimersAreDue
<1>3. \A o \in Clients : /\ o \in DOMAIN t.byObj => DeadlinesOf(t)[o] = t.byObj[o]
                         /\ o \notin DOMAIN t.byObj => DeadlinesOf(t)[o] = None
  BY DEF DeadlinesOf
<1>4. DueTimers(t, n) = {o \in Clients : DeadlinesOf(t)[o] # None
                                         /\ DeadlinesOf(t)[o] <= n}
  BY <1>1, <1>2, <1>3, TimeoutAssumption
<1>5. /\ DOMAIN DropDueTimers(t, n).byObj = DOMAIN t.byObj \ DueTimers(t, n)
      /\ \A o \in DOMAIN t.byObj \ DueTimers(t, n) :
            DropDueTimers(t, n).byObj[o] = t.byObj[o]
  BY DropDueTimersOK
<1>6. DeadlinesOf(DropDueTimers(t, n))
         = [o \in Clients |-> IF o \in DueTimers(t, n) THEN None
                              ELSE DeadlinesOf(t)[o]]
  BY <1>5, <1>3 DEF DeadlinesOf
<1>7. QED BY <1>4, <1>6

(* The maps implement the abstract timers of module Deadlines: every step  *)
(* of the loop is a step of one object's deadline, a check, a callback or  *)
(* nothing at all.                                                         *)
THEOREM Refinement == Spec => ImplementsDeadlines
<1>1. Init => Promise!Init
  BY NoTimersOK DEF Init, Promise!Init, DeadlinesOf
<1>2. ASSUME IInv, [Next]_vars
      PROVE  [Promise!Next]_(Promise!vars)
  <2>1. TimersOK(timers) /\ LoopType /\ NoneExpired
    BY <1>2 DEF IInv
  <2>2. CASE Tick
    BY <2>2 DEF Tick, Promise!Next, Promise!Tick
  <2>3. CASE ComputeInterval \/ WakeForEvents \/ WakeForTimeout
             \/ EndCallbacks \/ EndEvents \/ UNCHANGED vars
    BY <2>3 DEF ComputeInterval, WakeForEvents, WakeForTimeout, EndCallbacks,
                EndEvents, vars, Promise!vars
  <2>4. CASE CheckTimeouts
    <3>1. expired = {} /\ UNCHANGED now
      BY <2>1, <2>4 DEF CheckTimeouts, NoneExpired
    <3>2. expired' = Promise!Due
      BY <2>1, <2>4, DeadlinesAfterCheck DEF CheckTimeouts, Promise!Due, LoopType
    <3>3. DeadlinesOf(timers')
             = [o \in Clients |-> IF o \in Promise!Due THEN None
                                  ELSE DeadlinesOf(timers)[o]]
      <4>1. /\ now \in Nat /\ timers' = DropDueTimers(timers, now)
            /\ expired' = DueTimers(timers, now)
        BY <2>1, <2>4 DEF CheckTimeouts, LoopType
      <4>2. DeadlinesOf(DropDueTimers(timers, now))
               = [o \in Clients |-> IF o \in DueTimers(timers, now) THEN None
                                    ELSE DeadlinesOf(timers)[o]]
        BY <2>1, <4>1, DeadlinesAfterCheck
      <4>3. DueTimers(timers, now) = Promise!Due
        BY <3>2, <4>1
      <4>4. QED BY <4>1, <4>2, <4>3
    <3>4. Promise!Fire
      BY <3>1, <3>2, <3>3 DEF Promise!Fire
    <3>5. QED BY <3>4 DEF Promise!Next
  <2>5. ASSUME NEW c \in Clients, CallOnTimeout(c)
        PROVE  [Promise!Next]_(Promise!vars)
    <3>1. c \in expired /\ expired' = expired \ {c} /\ UNCHANGED now
      BY <2>5 DEF CallOnTimeout
    <3>2. c \notin DOMAIN timers.byObj
      BY <1>2, <3>1 DEF IInv, EveryConnectionTimed
    <3>3. PICK t \in {timers} \cup {AddTimer(timers, c, now + d) : d \in Delays} :
             timers' = RemoveTimer(t, c)
      BY <2>5 DEF CallOnTimeout
    <3>4. TimersOK(t) /\ [DeadlinesOf(t) EXCEPT ![c] = None]
                            = [DeadlinesOf(timers) EXCEPT ![c] = None]
      <4>1. CASE t = timers
        BY <2>1, <4>1
      <4>2. CASE \E d \in Delays : t = AddTimer(timers, c, now + d)
        <5>1. PICK d \in Delays : t = AddTimer(timers, c, now + d)
          BY <4>2
        <5>2. now + d \in Nat
          BY <2>1, TimeoutAssumption DEF LoopType
        <5>3. TimersOK(t)
          BY <2>1, <5>1, <5>2, AddTimerOK
        <5>4. DeadlinesOf(t) = [DeadlinesOf(timers) EXCEPT ![c] = now + d]
          BY <2>1, <5>1, <5>2, DeadlinesAfterAdd
        <5>5. QED BY <5>3, <5>4 DEF DeadlinesOf
      <4>3. QED BY <3>3, <4>1, <4>2
    <3>5. DeadlinesOf(timers') = [DeadlinesOf(timers) EXCEPT ![c] = None]
      BY <3>3, <3>4, DeadlinesAfterRemove
    <3>6. DeadlinesOf(timers') = DeadlinesOf(timers)
      BY <3>2, <3>5 DEF DeadlinesOf
    <3>7. Promise!CallBack(c)
      BY <3>1, <3>6 DEF Promise!CallBack
    <3>8. QED BY <3>7 DEF Promise!Next
  <2>6. ASSUME NEW c \in Clients, OpenConnection(c) \/ RenewConnection(c)
        PROVE  [Promise!Next]_(Promise!vars)
    <3>1. pc = "events" /\ UNCHANGED <<now, expired>>
      BY <2>6 DEF OpenConnection, RenewConnection
    <3>2. PICK d \in Delays : timers' = AddTimer(timers, c, now + d)
      BY <2>6 DEF OpenConnection, RenewConnection
    <3>3. now + d \in Nat /\ now + d >= now
      BY <2>1, TimeoutAssumption DEF LoopType
    <3>4. DeadlinesOf(timers') = [DeadlinesOf(timers) EXCEPT ![c] = now + d]
      BY <2>1, <3>2, <3>3, DeadlinesAfterAdd
    <3>5. DeadlinesOf(timers')[c] = now + d
      BY <3>4 DEF DeadlinesOf
    <3>6. Promise!SetDeadline(c)
      BY <2>1, <3>1, <3>3, <3>4, <3>5 DEF Promise!SetDeadline, NoneExpired
    <3>7. QED BY <3>6 DEF Promise!Next
  <2>7. ASSUME NEW c \in Clients, CloseConnection(c)
        PROVE  [Promise!Next]_(Promise!vars)
    <3>1. DeadlinesOf(timers') = [DeadlinesOf(timers) EXCEPT ![c] = None]
      BY <2>1, <2>7, DeadlinesAfterRemove DEF CloseConnection
    <3>2. Promise!ClearDeadline(c)
      BY <2>1, <2>7, <3>1 DEF CloseConnection, Promise!ClearDeadline, NoneExpired
    <3>3. QED BY <3>2 DEF Promise!Next
  <2>8. QED
    BY <1>2, <2>2, <2>3, <2>4, <2>5, <2>6, <2>7 DEF Next, Loop
<1>3. QED
  BY Invariance, <1>1, <1>2, PTL DEF Spec, ImplementsDeadlines, Promise!Spec
=============================================================================
