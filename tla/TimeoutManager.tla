--------------------------- MODULE TimeoutManager ---------------------------
(***************************************************************************)
(* The TimeoutManager inside the server's loop (src/src/Server/Server.cpp, *)
(* run()): compute how long epoll_wait may sleep, sleep, take the timers   *)
(* that are due, call each of them back, then handle the batch of events,  *)
(* which open, renew and close connections.  Each open connection is one   *)
(* timed object, a Client.                                                 *)
(*                                                                         *)
(* Time is std::time(), whole seconds.  It advances at any moment, so a    *)
(* handler may run late; it is bounded by MaxTime.                         *)
(***************************************************************************)
EXTENDS TimerMaps

CONSTANTS Clients,      \* the addresses a Client object can have
          Delays,       \* the configured timeouts, in seconds
          MaxTime,      \* bound on the clock
          LongestSleep, \* INT_MAX milliseconds, in seconds
          None          \* "no deadline" of the abstract specification

ASSUME TimeoutAssumption ==
    /\ IsFiniteSet(Clients)
    /\ Delays \subseteq Nat
    /\ MaxTime \in Nat
    /\ LongestSleep \in Nat \ {0}
    /\ None \notin Nat

VARIABLES now,     \* the clock
          timers,  \* the maps
          open,    \* the Client objects that exist
          pc,      \* where the loop is
          wakeAt,  \* when epoll_wait gives up; -1 is never
          expired  \* the vector of expired objects, still to be called back

vars == <<now, timers, open, pc, wakeAt, expired>>

Init ==
    /\ now = 0
    /\ timers = NoTimers
    /\ open = {}
    /\ pc = "compute"
    /\ wakeAt = -1
    /\ expired = {}

Tick ==
    /\ now < MaxTime
    /\ now' = now + 1
    /\ UNCHANGED <<timers, open, pc, wakeAt, expired>>

ComputeInterval ==
    /\ pc = "compute"
    /\ pc' = "wait"
    /\ LET interval == NextTimeoutInterval(timers, now, LongestSleep)
       IN wakeAt' = IF interval = -1 THEN -1 ELSE now + interval
    /\ UNCHANGED <<now, timers, open, expired>>

(* epoll_wait returns because descriptors are ready, or because it slept   *)
(* for its interval.                                                       *)
WakeForEvents ==
    /\ pc = "wait"
    /\ pc' = "check"
    /\ UNCHANGED <<now, timers, open, wakeAt, expired>>

WakeForTimeout ==
    /\ pc = "wait"
    /\ wakeAt # -1
    /\ now >= wakeAt
    /\ pc' = "check"
    /\ UNCHANGED <<now, timers, open, wakeAt, expired>>

CheckTimeouts ==
    /\ pc = "check"
    /\ pc' = "callbacks"
    /\ expired' = DueTimers(timers, now)
    /\ timers' = DropDueTimers(timers, now)
    /\ UNCHANGED <<now, open, wakeAt>>

(* Mutant: onTimeout() leaves the connection to its handlers. *)
CallOnTimeoutKeepsOpen(c) ==
    /\ pc = "callbacks"
    /\ c \in expired
    /\ expired' = expired \ {c}
    /\ UNCHANGED <<now, timers, open, pc, wakeAt>>

(* onTimeout() of one expired object.  When the answer it sends leaves the *)
(* connection alive (keep-alive) HttpConnection renews the timer; in any   *)
(* case the connection is closed before onTimeout() returns, and closing   *)
(* removes the timer.                                                      *)
CallOnTimeout(c) ==
    /\ pc = "callbacks"
    /\ c \in expired
    /\ expired' = expired \ {c}
    /\ \E t \in {timers} \cup {AddTimer(timers, c, now + d) : d \in Delays} :
          timers' = RemoveTimer(t, c)
    /\ open' = open \ {c}
    /\ UNCHANGED <<now, pc, wakeAt>>

EndCallbacks ==
    /\ pc = "callbacks"
    /\ expired = {}
    /\ pc' = "events"
    /\ UNCHANGED <<now, timers, open, wakeAt, expired>>

(* Events of the batch: a connection is accepted, data renews its timer,   *)
(* it is closed.                                                           *)
OpenConnection(c) ==
    /\ pc = "events"
    /\ c \notin open
    /\ open' = open \cup {c}
    /\ \E d \in Delays : timers' = AddTimer(timers, c, now + d)
    /\ UNCHANGED <<now, pc, wakeAt, expired>>

RenewConnection(c) ==
    /\ pc = "events"
    /\ c \in open
    /\ \E d \in Delays : timers' = AddTimer(timers, c, now + d)
    /\ UNCHANGED <<now, open, pc, wakeAt, expired>>

(* Mutant: closeConnection() deletes the Client and leaves its timer. *)
CloseConnectionKeepsTimer(c) ==
    /\ pc = "events"
    /\ c \in open
    /\ open' = open \ {c}
    /\ UNCHANGED <<now, timers, pc, wakeAt, expired>>

CloseConnection(c) ==
    /\ pc = "events"
    /\ c \in open
    /\ timers' = RemoveTimer(timers, c)
    /\ open' = open \ {c}
    /\ UNCHANGED <<now, pc, wakeAt, expired>>

EndEvents ==
    /\ pc = "events"
    /\ pc' = "compute"
    /\ UNCHANGED <<now, timers, open, wakeAt, expired>>

Loop ==
    \/ ComputeInterval
    \/ WakeForTimeout
    \/ CheckTimeouts
    \/ \E c \in Clients : CallOnTimeout(c)
    \/ EndCallbacks
    \/ EndEvents

Next ==
    \/ Tick
    \/ Loop
    \/ WakeForEvents
    \/ \E c \in Clients :
          OpenConnection(c) \/ RenewConnection(c) \/ CloseConnection(c)

Spec == Init /\ [][Next]_vars

(* The loop never stops by itself: each of its steps is taken if it stays  *)
(* possible, epoll_wait honours its timeout and time passes.  Nothing is   *)
(* assumed of the peers, whose events are what the other actions are.      *)
FairSpec == Spec /\ WF_vars(Loop) /\ WF_vars(Tick)

-----------------------------------------------------------------------------
(* Types; the counter counts the watched objects. *)
TypeOK ==
    /\ now \in Nat
    /\ timers.byTime \in [DOMAIN timers.byTime -> SUBSET Clients]
    /\ DOMAIN timers.byTime \subseteq Nat
    /\ timers.byObj \in [DOMAIN timers.byObj -> Nat]
    /\ DOMAIN timers.byObj \subseteq Clients
    /\ timers.active \in Nat
    /\ timers = [byTime |-> timers.byTime, byObj |-> timers.byObj,
                 active |-> timers.active]
    /\ open \subseteq Clients
    /\ expired \subseteq Clients
    /\ pc \in {"compute", "wait", "check", "callbacks", "events"}
    /\ wakeAt \in Nat \cup {-1}

(* The forward and the reverse map hold the same timers, no empty list     *)
(* stays behind (it would make every later epoll_wait return at once), and *)
(* getActiveTimeoutCount() counts them without ever wrapping below zero.   *)
TimersConsistent ==
    /\ MapsAgree(timers)
    /\ timers.active = Cardinality(DOMAIN timers.byObj)

(* Every open connection is watched by exactly one timer or is one of the  *)
(* expired objects about to be called back, and no timer or pending call   *)
(* refers to a connection that was closed: remove() in closeConnection()   *)
(* is enough to keep the raw pointers of both maps and of the vector of    *)
(* expired objects valid.                                                  *)
EveryConnectionTimed ==
    /\ open = DOMAIN timers.byObj \cup expired
    /\ DOMAIN timers.byObj \cap expired = {}

(* While the server sleeps in epoll_wait, it sleeps forever only if there  *)
(* is no connection, and otherwise it wakes no later than the first        *)
(* deadline (or has been told not to sleep because one had passed).        *)
SleepRespectsDeadlines ==
    pc = "wait" =>
        IF open = {} THEN wakeAt = -1
        ELSE /\ wakeAt # -1
             /\ \A c \in DOMAIN timers.byObj :
                   wakeAt <= timers.byObj[c] \/ wakeAt <= now

(* The maps implement one deadline per object: what a check takes is what  *)
(* the last add() and remove() of each object say.                         *)
DeadlinesOf(t) ==
    [c \in Clients |-> IF c \in DOMAIN t.byObj THEN t.byObj[c] ELSE None]
Promise == INSTANCE Deadlines
    WITH Objects <- Clients, firing <- expired,
         deadline <- DeadlinesOf(timers)
ImplementsDeadlines == Promise!Spec

(* A connection whose deadline has come is called back, closed or renewed: *)
(* no timer is lost, whatever the other connections do.                    *)
Overdue(c) == c \in DOMAIN timers.byObj /\ timers.byObj[c] <= now
OverdueIsHandled == \A c \in Clients : Overdue(c) ~> ~Overdue(c)
ExpiredIsClosed == \A c \in Clients : c \in expired ~> c \notin open
=============================================================================
