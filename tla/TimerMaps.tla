----------------------------- MODULE TimerMaps -----------------------------
(***************************************************************************)
(* The two maps of src/src/Lib/Timeout/TimeoutManager.cpp and the pure     *)
(* part of its methods.  A value t of this module is                       *)
(*   t.byTime : _timeoutMap, expiry time -> the objects listed under it    *)
(*   t.byObj  : _reverseMap, object -> its expiry time                     *)
(*   t.active : _stats._activeConnections                                  *)
(* The std::list under a key is a set: nothing depends on its order, and   *)
(* add() removes an object before it lists it, so that no list holds it    *)
(* twice.                                                                  *)
(***************************************************************************)
EXTENDS Maps, FiniteSets, FiniteSetsExt

NoTimers == [byTime |-> <<>>, byObj |-> <<>>, active |-> 0]

(* The list under a key, empty when operator[] has to make it. *)
Listed(t, time) == IF time \in DOMAIN t.byTime THEN t.byTime[time] ELSE {}

-----------------------------------------------------------------------------
(* Mutants of remove(): one counts an object that is not watched, one      *)
(* leaves the empty list under its key.                                    *)
RemoveTimerAlwaysCounts(t, obj) ==
    [byTime |-> t.byTime, byObj |-> Erase(t.byObj, {obj}), active |-> t.active - 1]
RemoveTimerKeepsBucket(t, obj) ==
    IF obj \notin DOMAIN t.byObj THEN t
    ELSE [byTime |-> Put(t.byTime, t.byObj[obj], Listed(t, t.byObj[obj]) \ {obj}),
          byObj  |-> Erase(t.byObj, {obj}),
          active |-> t.active - 1]

(* remove(): an object that is not watched is left alone; the list that    *)
(* becomes empty goes with its key.                                        *)
RemoveTimer(t, obj) ==
    IF obj \notin DOMAIN t.byObj THEN t
    ELSE LET time == t.byObj[obj]
             rest == Listed(t, time) \ {obj}
         IN [byTime |-> IF rest = {} THEN Erase(t.byTime, {time})
                                     ELSE Put(t.byTime, time, rest),
             byObj  |-> Erase(t.byObj, {obj}),
             active |-> t.active - 1]

(* Mutant of add(): the object stays listed under its former expiry time.  *)
AddTimerWithoutRemove(t, obj, time) ==
    [byTime |-> Put(t.byTime, time, Listed(t, time) \cup {obj}),
     byObj  |-> Put(t.byObj, obj, time),
     active |-> IF obj \in DOMAIN t.byObj THEN t.active ELSE t.active + 1]

(* add(): remove(), then list the object under its new expiry time. *)
AddTimer(t, obj, time) ==
    LET r == RemoveTimer(t, obj)
    IN [byTime |-> Put(r.byTime, time, Listed(r, time) \cup {obj}),
        byObj  |-> Put(r.byObj, obj, time),
        active |-> r.active + 1]

(* The first loop of checkAndHandleTimeouts(): the keys up to now, the     *)
(* objects listed under them, and the maps once both are erased.           *)
DueTimes(t, now) == {time \in DOMAIN t.byTime : time <= now}
DueTimers(t, now) == UNION {t.byTime[time] : time \in DueTimes(t, now)}
DropDueTimers(t, now) ==
    [byTime |-> Erase(t.byTime, DueTimes(t, now)),
     byObj  |-> Erase(t.byObj, DueTimers(t, now)),
     active |-> t.active - Cardinality(DueTimers(t, now))]

(* Mutants of getNextTimeoutInterval(): one takes the last key, one turns a *)
(* sleep that is too long for an int into a negative number.               *)
NextTimeoutIntervalOfLast(t, now, longest) ==
    IF DOMAIN t.byTime = {} THEN -1
    ELSE LET last == Max(DOMAIN t.byTime)
         IN IF last <= now THEN 0
            ELSE IF last - now > longest THEN longest ELSE last - now
NextTimeoutIntervalOverflows(t, now, longest) ==
    IF DOMAIN t.byTime = {} THEN -1
    ELSE LET first == Min(DOMAIN t.byTime)
         IN IF first <= now THEN 0
            ELSE IF first - now > longest THEN -1 ELSE first - now

(* getNextTimeoutInterval(), in seconds: -1 without timers, 0 when the     *)
(* first key is due, at most the longest sleep an int of milliseconds can  *)
(* express.                                                                *)
NextTimeoutInterval(t, now, longest) ==
    IF DOMAIN t.byTime = {} THEN -1
    ELSE LET first == Min(DOMAIN t.byTime)
         IN IF first <= now THEN 0
            ELSE IF first - now > longest THEN longest ELSE first - now

-----------------------------------------------------------------------------
(* The two maps are inverse to each other and no key has an empty list. *)
MapsAgree(t) ==
    /\ \A obj \in DOMAIN t.byObj :
          t.byObj[obj] \in DOMAIN t.byTime /\ obj \in t.byTime[t.byObj[obj]]
    /\ \A time \in DOMAIN t.byTime :
          /\ t.byTime[time] # {}
          /\ \A obj \in t.byTime[time] :
                obj \in DOMAIN t.byObj /\ t.byObj[obj] = time
=============================================================================
