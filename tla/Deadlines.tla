----------------------------- MODULE Deadlines -----------------------------
(***************************************************************************)
(* What src/src/Lib/Timeout/TimeoutManager.hpp promises its users, without *)
(* any map: every object has at most one deadline, the last one it was     *)
(* given; a check of the timers takes exactly the objects whose deadline   *)
(* has come, and each of those is called back once.                        *)
(***************************************************************************)
EXTENDS Integers

CONSTANTS Objects,  \* the ITimeoutable objects (Client is the only class)
          None      \* "no deadline", not a time

VARIABLES now,      \* std::time(NULL)
          deadline, \* Objects -> time or None
          firing    \* taken by a check, still to be called back

vars == <<now, deadline, firing>>

Due == {o \in Objects : deadline[o] # None /\ deadline[o] <= now}

Init == now = 0 /\ deadline = [o \in Objects |-> None] /\ firing = {}

Tick == now' = now + 1 /\ UNCHANGED <<deadline, firing>>

SetDeadline(o) ==
    /\ o \notin firing
    /\ deadline'[o] \in Nat
    /\ deadline'[o] >= now
    /\ deadline' = [deadline EXCEPT ![o] = deadline'[o]]
    /\ UNCHANGED <<now, firing>>

ClearDeadline(o) ==
    /\ o \notin firing
    /\ deadline' = [deadline EXCEPT ![o] = None]
    /\ UNCHANGED <<now, firing>>

Fire ==
    /\ firing = {}
    /\ firing' = Due
    /\ deadline' = [o \in Objects |-> IF o \in Due THEN None ELSE deadline[o]]
    /\ UNCHANGED now

CallBack(o) ==
    /\ o \in firing
    /\ firing' = firing \ {o}
    /\ UNCHANGED <<now, deadline>>

Next == \/ Tick
        \/ Fire
        \/ \E o \in Objects : SetDeadline(o) \/ ClearDeadline(o) \/ CallBack(o)

Spec == Init /\ [][Next]_vars
=============================================================================
