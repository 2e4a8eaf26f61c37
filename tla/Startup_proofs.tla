--------------------------- MODULE Startup_proofs ---------------------------
(***************************************************************************)
(* The listeners are opened all or not at all, for every configuration     *)
(* file, every set of descriptors and whichever call fails; no script is   *)
(* an index, and every virtual host of a running server can be reached.    *)
(***************************************************************************)
EXTENDS Startup, TLAPS, FiniteSetTheorems, WellFoundedInduction

(* The fields of a value of module Listening and of its listeners. *)
IsListener(r) == DOMAIN r = {"fd", "vhosts", "default"}
Shape(x) ==
    /\ DOMAIN x = {"listeners", "byFd", "known", "events", "epoll", "sockets", "opened"}
    /\ \A key \in DOMAIN x.listeners : IsListener(x.listeners[key])

(* The listeners are the same but for their descriptors. *)
SameListeners(x, y) ==
    /\ DOMAIN y.listeners = DOMAIN x.listeners
    /\ \A key \in DOMAIN x.listeners : y.listeners[key].vhosts = x.listeners[key].vhosts

(* Erasing keys leaves the others. *)
LEMMA EraseDomain ==
    ASSUME NEW f, NEW S
    PROVE  DOMAIN Erase(f, S) = DOMAIN f \ S
  BY DEF Erase, Restrict

(* Closing and forgetting, field by field. *)
LEMMA CloseFields ==
    ASSUME NEW x, Shape(x), NEW fds
    PROVE  LET y == CloseFds(x, fds)
           IN /\ Shape(y)
              /\ y.listeners = x.listeners /\ y.byFd = x.byFd /\ y.opened = x.opened
              /\ y.known = x.known /\ y.events = x.events
              /\ y.epoll = x.epoll \ fds
              /\ DOMAIN y.sockets = DOMAIN x.sockets \ fds
  BY EraseDomain DEF CloseFds, Shape

LEMMA ForgetFields ==
    ASSUME NEW x, Shape(x), NEW fds
    PROVE  LET y == ForgetFds(x, fds)
           IN /\ Shape(y)
              /\ y.listeners = x.listeners /\ y.byFd = x.byFd /\ y.opened = x.opened
              /\ y.known = x.known \ fds /\ y.events = x.events \ fds
              /\ y.epoll = x.epoll \ fds
              /\ y.sockets = x.sockets
  BY DEF ForgetFds, Shape

(* The fields of a value after n calls. *)
LEMMA AfterFields ==
    ASSUME NEW x, Shape(x), NEW n \in 1..AllCalls, NEW key, NEW fd
    PROVE  LET y == After(x, n, key, fd)
           IN /\ Shape(y)
              /\ SameListeners(x, y)
              /\ DOMAIN y.sockets = DOMAIN x.sockets \cup {fd}
              /\ y.opened = IF n = AllCalls THEN x.opened \cup {fd} ELSE x.opened
              /\ y.epoll \subseteq x.epoll \cup {fd}
              /\ y.known \subseteq x.known \cup {fd}
              /\ y.events \subseteq x.events \cup {fd}
<1> DEFINE y == After(x, n, key, fd)
<1>1. /\ DOMAIN y = DOMAIN x
      /\ y.listeners = IF n >= 4
                       THEN [k \in DOMAIN x.listeners |->
                                IF k = key THEN [x.listeners[k] EXCEPT !.fd = fd]
                                ELSE x.listeners[k]]
                       ELSE x.listeners
      /\ \E socket : y.sockets = Put(x.sockets, fd, socket)
      /\ y.opened = IF n >= 9 THEN x.opened \cup {fd} ELSE x.opened
      /\ y.epoll = IF n >= 5 THEN x.epoll \cup {fd} ELSE x.epoll
      /\ y.known = IF n >= 6 THEN x.known \cup {fd} ELSE x.known
      /\ y.events = IF n >= 8 THEN x.events \cup {fd} ELSE x.events
  BY DEF After, Shape
<1>2. \A k \in DOMAIN x.listeners :
         /\ IsListener([x.listeners[k] EXCEPT !.fd = fd])
         /\ [x.listeners[k] EXCEPT !.fd = fd].vhosts = x.listeners[k].vhosts
  BY DEF Shape, IsListener
<1>3. /\ DOMAIN y.listeners = DOMAIN x.listeners
      /\ \A k \in DOMAIN x.listeners : /\ IsListener(y.listeners[k])
                                       /\ y.listeners[k].vhosts = x.listeners[k].vhosts
  <2> HIDE DEF y
  <2>1. CASE n >= 4
    BY <1>1, <1>2, <2>1 DEF Shape
  <2>2. CASE ~(n >= 4)
    BY <1>1, <2>2 DEF Shape
  <2>3. QED BY <2>1, <2>2
<1> HIDE DEF y
<1>4. Shape(y)
  BY <1>1, <1>3 DEF Shape
<1>5. DOMAIN y.sockets = DOMAIN x.sockets \cup {fd}
  BY <1>1 DEF Put
<1>6. n >= 9 <=> n = AllCalls
  BY DEF AllCalls
<1>7. QED BY <1>1, <1>3, <1>4, <1>5, <1>6 DEF SameListeners, y

(* A listener whose calls all succeed is one more on which the tables      *)
(* agree.                                                                  *)
LEMMA OpenedAgrees ==
    ASSUME NEW x, Shape(x), Agree(x),
           NEW key \in DOMAIN x.listeners, x.listeners[key].fd = -1,
           NEW fd \in Nat, fd \notin DOMAIN x.sockets
    PROVE  LET y == After(x, AllCalls, key, fd)
           IN /\ Agree(y)
              /\ \A k \in DOMAIN x.listeners :
                    y.listeners[k].fd = -1 <=> (k # key /\ x.listeners[k].fd = -1)
<1> DEFINE y == After(x, AllCalls, key, fd)
           socket == [address |-> Lexicon.address[key.interface],
                      port |-> key.port, listening |-> TRUE]
<1>1. /\ y.sockets = Put(x.sockets, fd, socket)
      /\ y.byFd = Put(x.byFd, fd, key)
      /\ y.opened = x.opened \cup {fd}
      /\ y.epoll = x.epoll \cup {fd}
      /\ y.known = x.known \cup {fd}
      /\ y.events = x.events \cup {fd}
      /\ y.listeners = [k \in DOMAIN x.listeners |->
                           IF k = key THEN [x.listeners[k] EXCEPT !.fd = fd]
                           ELSE x.listeners[k]]
  <2> DEFINE n == AllCalls
             made == [address |-> IF n >= 2 THEN Lexicon.address[key.interface]
                                  ELSE "none",
                      port |-> IF n >= 2 THEN key.port ELSE 0,
                      listening |-> n >= 3]
  <2>1. n = 9
    BY DEF AllCalls
  <2> HIDE DEF n
  <2>2. /\ y.sockets = IF n >= 1 THEN Put(x.sockets, fd, made) ELSE x.sockets
        /\ y.byFd = IF n >= 7 THEN Put(x.byFd, fd, key) ELSE x.byFd
        /\ y.opened = IF n >= 9 THEN x.opened \cup {fd} ELSE x.opened
        /\ y.epoll = IF n >= 5 THEN x.epoll \cup {fd} ELSE x.epoll
        /\ y.known = IF n >= 6 THEN x.known \cup {fd} ELSE x.known
        /\ y.events = IF n >= 8 THEN x.events \cup {fd} ELSE x.events
        /\ y.listeners = IF n >= 4
                         THEN [k \in DOMAIN x.listeners |->
                                  IF k = key THEN [x.listeners[k] EXCEPT !.fd = fd]
                                  ELSE x.listeners[k]]
                         ELSE x.listeners
    BY DEF After, Shape, n
  <2>3. made = socket
    <3>1. n >= 2 /\ (n >= 3) = TRUE
      BY <2>1
    <3>2. QED BY <3>1, Zenon
  <2> HIDE DEF y, made, socket
  <2>4. QED BY <2>1, <2>2, <2>3
<1>2. [x.listeners[key] EXCEPT !.fd = fd].fd = fd
  BY DEF Shape, IsListener
<1>3. \A k \in DOMAIN x.listeners :
         y.listeners[k].fd = IF k = key THEN fd ELSE x.listeners[k].fd
  BY <1>1, <1>2
<1>4. DOMAIN y.listeners = DOMAIN x.listeners
  BY <1>1
<1>5. /\ DOMAIN y.sockets = DOMAIN x.sockets \cup {fd}
      /\ y.sockets[fd] = socket
      /\ \A g \in DOMAIN x.sockets : y.sockets[g] = x.sockets[g]
      /\ DOMAIN y.byFd = DOMAIN x.byFd \cup {fd}
      /\ y.byFd[fd] = key
      /\ \A g \in DOMAIN x.byFd \ {fd} : y.byFd[g] = x.byFd[g]
  BY <1>1 DEF Put
<1> HIDE DEF y
<1>6. fd # -1
  OBVIOUS
<1>7. fd \notin x.opened
  BY DEF Agree
<1>8. /\ DOMAIN y.sockets = y.opened /\ y.epoll = y.opened /\ y.known = y.opened
      /\ y.events = y.opened /\ DOMAIN y.byFd = y.opened
  BY <1>1, <1>5 DEF Agree
<1>9. {y.byFd[g] : g \in y.opened} = {k \in DOMAIN y.listeners : y.listeners[k].fd # -1}
  <2>1. {x.byFd[g] : g \in x.opened} = {k \in DOMAIN x.listeners : x.listeners[k].fd # -1}
    BY DEF Agree
  <2>2. {y.byFd[g] : g \in y.opened} = {x.byFd[g] : g \in x.opened} \cup {key}
    BY <1>1, <1>5, <1>7 DEF Agree
  <2>3. QED BY <2>1, <2>2, <1>3, <1>4, <1>6
<1>10. ASSUME NEW g \in y.opened
       PROVE  LET k == y.byFd[g]
              IN /\ y.listeners[k].fd = g
                 /\ y.sockets[g] = [address |-> Lexicon.address[k.interface],
                                    port |-> k.port, listening |-> TRUE]
  <2>1. CASE g = fd
    BY <2>1, <1>3, <1>5
  <2>2. CASE g # fd
    <3>1. g \in x.opened /\ g \in DOMAIN x.byFd /\ g \in DOMAIN x.sockets
      BY <2>2, <1>1, <1>10 DEF Agree
    <3>2. /\ x.listeners[x.byFd[g]].fd = g
          /\ x.sockets[g] = [address |-> Lexicon.address[x.byFd[g].interface],
                             port |-> x.byFd[g].port, listening |-> TRUE]
      BY <3>1 DEF Agree
    <3>3. x.byFd[g] \in DOMAIN x.listeners /\ x.listeners[x.byFd[g]].fd # -1
      BY <3>1 DEF Agree
    <3>4. y.byFd[g] = x.byFd[g] /\ x.byFd[g] # key
      BY <3>1, <3>3, <2>2, <1>5
    <3>5. QED BY <3>1, <3>2, <3>3, <3>4, <1>3, <1>5
  <2>3. QED BY <2>1, <2>2
<1>11. Agree(y)
  BY <1>8, <1>9, <1>10 DEF Agree
<1>12. QED BY <1>3, <1>6, <1>11 DEF y

(* The rollback leaves nothing of the listeners opened before, nor of the  *)
(* one at hand, whatever it got to.                                        *)
LEMMA RollbackCloses ==
    ASSUME NEW x, Shape(x), NEW current,
           DOMAIN x.sockets \subseteq x.opened \cup current,
           x.epoll \subseteq x.opened \cup current,
           x.known \subseteq x.opened \cup current,
           x.events \subseteq x.opened \cup current
    PROVE  Closed(Rollback(x, current))
<1> DEFINE a == CloseFds(x, current)
           b == ForgetFds(a, current \cup x.opened)
           c == CloseFds(b, x.opened)
           y == [c EXCEPT !.byFd = <<>>, !.listeners = NoSockets(@)]
<1>1. /\ Shape(a) /\ a.listeners = x.listeners /\ a.opened = x.opened
      /\ a.known = x.known /\ a.events = x.events /\ a.epoll = x.epoll \ current
      /\ DOMAIN a.sockets = DOMAIN x.sockets \ current
  BY CloseFields
<1> HIDE DEF a
<1>2. /\ Shape(b) /\ b.listeners = x.listeners
      /\ b.known = {} /\ b.events = {} /\ b.epoll = {}
      /\ DOMAIN b.sockets \subseteq x.opened
  BY <1>1, ForgetFields
<1> HIDE DEF b
<1>3. /\ Shape(c) /\ c.listeners = x.listeners
      /\ c.known = {} /\ c.events = {} /\ c.epoll = {} /\ DOMAIN c.sockets = {}
  BY <1>2, CloseFields
<1> HIDE DEF c
<1>4. /\ y.known = {} /\ y.events = {} /\ y.epoll = {} /\ DOMAIN y.sockets = {}
      /\ y.byFd = <<>> /\ y.listeners = NoSockets(x.listeners)
  BY <1>3 DEF Shape
<1>5. \A key \in DOMAIN NoSockets(x.listeners) : NoSockets(x.listeners)[key].fd = -1
  BY DEF NoSockets, Shape, IsListener
<1> HIDE DEF y
<1>6. Closed(y)
  BY <1>4, <1>5 DEF Closed
<1>7. Rollback(x, current) = y
  BY DEF Rollback, a, b, c, y
<1>8. QED BY <1>6, <1>7

(* What a rollback and the destructor return are such values again. *)
LEMMA RollbackShape ==
    ASSUME NEW x, Shape(x), NEW current
    PROVE  Shape(Rollback(x, current))
<1> DEFINE a == CloseFds(x, current)
           b == ForgetFds(a, current \cup x.opened)
           c == CloseFds(b, x.opened)
           y == [c EXCEPT !.byFd = <<>>, !.listeners = NoSockets(@)]
<1>1. Shape(a)
  BY CloseFields
<1> HIDE DEF a
<1>2. Shape(b)
  BY <1>1, ForgetFields
<1> HIDE DEF b
<1>3. Shape(c)
  BY <1>2, CloseFields
<1> HIDE DEF c
<1>4. \A key \in DOMAIN NoSockets(c.listeners) : IsListener(NoSockets(c.listeners)[key])
  BY <1>3 DEF NoSockets, Shape, IsListener
<1>5. Shape(y)
  BY <1>3, <1>4 DEF Shape
<1>6. QED BY <1>5 DEF Rollback, a, b, c, y

LEMMA ForgetAllShape ==
    ASSUME NEW x, Shape(x)
    PROVE  Shape(ForgetAll(x))
<1> DEFINE a == ForgetFds(x, DOMAIN x.byFd)
           b == CloseFds(a, DOMAIN x.byFd)
<1>1. Shape(a)
  BY ForgetFields
<1> HIDE DEF a
<1>2. Shape(b)
  BY <1>1, CloseFields
<1> HIDE DEF b
<1>3. Shape([b EXCEPT !.byFd = <<>>, !.listeners = <<>>])
  BY <1>2 DEF Shape
<1>4. QED BY <1>3 DEF ForgetAll, a, b

(* The destructor of the server closes what the tables agree on. *)
LEMMA ForgetAllCloses ==
    ASSUME NEW x, Shape(x), Agree(x)
    PROVE  Closed(ForgetAll(x))
<1> DEFINE fds == DOMAIN x.byFd
           a == ForgetFds(x, fds)
           b == CloseFds(a, fds)
           y == [b EXCEPT !.byFd = <<>>, !.listeners = <<>>]
<1>1. /\ DOMAIN x.sockets = fds /\ x.epoll = fds /\ x.known = fds /\ x.events = fds
  BY DEF Agree
<1> HIDE DEF fds
<1>2. /\ Shape(a) /\ a.known = {} /\ a.events = {} /\ a.epoll = {}
      /\ DOMAIN a.sockets = fds
  BY <1>1, ForgetFields
<1> HIDE DEF a
<1>3. /\ Shape(b) /\ b.known = {} /\ b.events = {} /\ b.epoll = {}
      /\ DOMAIN b.sockets = {}
  BY <1>2, CloseFields
<1> HIDE DEF b
<1>4. /\ y.known = {} /\ y.events = {} /\ y.epoll = {} /\ DOMAIN y.sockets = {}
      /\ y.byFd = <<>> /\ y.listeners = <<>>
  BY <1>3 DEF Shape
<1> HIDE DEF y
<1>5. Closed(y)
  BY <1>4 DEF Closed
<1>6. ForgetAll(x) = y
  BY DEF ForgetAll, fds, a, b, y
<1>7. QED BY <1>5, <1>6

-----------------------------------------------------------------------------
(* The inductive invariant.  Until the listeners are built there are none; *)
(* from then on they are those of the configurations, whose descriptors    *)
(* the tables agree on, and in the end nothing is left.                    *)
Before == {"reading", "building", "constructing", "logging", "validating", "fault"}
Built ==
    /\ DOMAIN net.listeners = AllListens
    /\ \A key \in AllListens : net.listeners[key].vhosts = On(key)

IInv ==
    /\ Shape(net)
    /\ phase \in Before \cup {"opening", "running", "failed", "stopped"}
    /\ phase \in Before => net = Nothing
    /\ phase \in {"opening", "running"} => Agree(net) /\ Built
    /\ phase = "running" => Unopened = {}
    /\ phase \in {"failed", "stopped"} => Closed(net)

(* At first there are no listeners at all. *)
LEMMA NothingOK == Shape(Nothing) /\ Agree(Nothing) /\ Closed(Nothing)
  BY DEF Nothing, Shape, Agree, Closed, IsListener

(* build() makes a listener for each address, and opens none. *)
LEMMA BuildOK ==
    LET x == Build(configs)
    IN /\ Shape(x) /\ Agree(x)
       /\ DOMAIN x.listeners = AllListens
       /\ \A key \in AllListens : x.listeners[key].vhosts = On(key)
<1> DEFINE x == Build(configs)
           m == [key \in AllListens |->
                    [fd |-> -1, vhosts |-> On(key),
                     default |-> CHOOSE i \in On(key) : \A j \in On(key) : i <= j]]
<1>1. x = [Nothing EXCEPT !.listeners = m]
  BY DEF Build, AllListens, On
<1>2. /\ DOMAIN m = AllListens
      /\ \A key \in AllListens : /\ IsListener(m[key]) /\ m[key].fd = -1
                                 /\ m[key].vhosts = On(key)
  BY DEF IsListener
<1> HIDE DEF m, x
<1>3. /\ DOMAIN x = DOMAIN Nothing /\ x.listeners = m
      /\ x.byFd = <<>> /\ x.known = {} /\ x.events = {} /\ x.epoll = {}
      /\ x.sockets = <<>> /\ x.opened = {}
  BY <1>1 DEF Nothing
<1>4. Shape(x)
  BY <1>2, <1>3, NothingOK DEF Shape
<1>5. Agree(x)
  BY <1>2, <1>3 DEF Agree
<1>6. QED BY <1>2, <1>3, <1>4, <1>5 DEF x

(* A listener more, or the end of all. *)
LEMMA OpenListenerOK ==
    ASSUME IInv, OpenListener
    PROVE  IInv'
<1> USE DEF IInv
<1>1. /\ phase = "opening" /\ Shape(net) /\ Agree(net) /\ Built
      /\ configs' = configs
  BY DEF OpenListener
<1>2. PICK key \in Unopened :
         \/ /\ net' = Rollback(net, {})
            /\ phase' = "failed"
         \/ \E fd \in FreeFds :
               \/ /\ net' = After(net, AllCalls, key, fd)
                  /\ phase' = IF Unopened = {key} THEN "running" ELSE "opening"
               \/ /\ \E n \in 1..(AllCalls - 1) :
                        net' = Rollback(After(net, n, key, fd), {fd})
                  /\ phase' = "failed"
  <2>1. \A key : 1..(IF InUse(net, key) THEN 1 ELSE AllCalls - 1) \subseteq 1..(AllCalls - 1)
    BY DEF AllCalls
  <2>2. QED BY <2>1, Zenon DEF OpenListener
<1>3. key \in DOMAIN net.listeners /\ net.listeners[key].fd = -1
  BY DEF Unopened
<1>4. CASE net' = Rollback(net, {}) /\ phase' = "failed"
  BY <1>1, <1>4, RollbackCloses, RollbackShape DEF Agree, Before
<1>5. ASSUME NEW fd \in FreeFds, net' = After(net, AllCalls, key, fd),
             phase' = IF Unopened = {key} THEN "running" ELSE "opening"
      PROVE  IInv'
  <2>1. fd \in Nat /\ fd \notin DOMAIN net.sockets
    BY StartupAssumption DEF FreeFds
  <2>2. /\ Agree(net')
        /\ \A k \in DOMAIN net.listeners :
              net'.listeners[k].fd = -1 <=> (k # key /\ net.listeners[k].fd = -1)
    BY <1>1, <1>3, <1>5, <2>1, OpenedAgrees
  <2>3. Shape(net') /\ SameListeners(net, net')
    BY <1>1, <1>5, AfterFields DEF AllCalls
  <2>4. AllListens' = AllListens /\ \A k : On(k)' = On(k)
    BY <1>1 DEF AllListens, On
  <2>5. Built'
    BY <1>1, <2>3, <2>4 DEF Built, SameListeners
  <2>6. Unopened = {key} => Unopened' = {}
    BY <2>2, <2>3 DEF Unopened, SameListeners
  <2>7. QED BY <1>5, <2>2, <2>3, <2>5, <2>6 DEF Before
<1>6. ASSUME NEW fd \in FreeFds, NEW n \in 1..(AllCalls - 1),
             net' = Rollback(After(net, n, key, fd), {fd}), phase' = "failed"
      PROVE  IInv'
  <2> DEFINE y == After(net, n, key, fd)
  <2>1. n \in 1..AllCalls /\ n # AllCalls
    BY DEF AllCalls
  <2>2. /\ Shape(y) /\ y.opened = net.opened
        /\ DOMAIN y.sockets = DOMAIN net.sockets \cup {fd}
        /\ y.epoll \subseteq net.epoll \cup {fd}
        /\ y.known \subseteq net.known \cup {fd}
        /\ y.events \subseteq net.events \cup {fd}
    <3>1. /\ Shape(y)
          /\ SameListeners(net, y)
          /\ DOMAIN y.sockets = DOMAIN net.sockets \cup {fd}
          /\ y.opened = IF n = AllCalls THEN net.opened \cup {fd} ELSE net.opened
          /\ y.epoll \subseteq net.epoll \cup {fd}
          /\ y.known \subseteq net.known \cup {fd}
          /\ y.events \subseteq net.events \cup {fd}
      <4>1. Shape(net) /\ n \in 1..AllCalls
        BY <1>1, <2>1
      <4> HIDE DEF IInv
      <4>2. QED BY <4>1, AfterFields, Zenon
    <3>2. QED BY <2>1, <3>1, Zenon
  <2> HIDE DEF y
  <2>3. /\ DOMAIN y.sockets \subseteq y.opened \cup {fd}
        /\ y.epoll \subseteq y.opened \cup {fd}
        /\ y.known \subseteq y.opened \cup {fd}
        /\ y.events \subseteq y.opened \cup {fd}
    BY <1>1, <2>2 DEF Agree
  <2>4. Closed(Rollback(y, {fd})) /\ Shape(Rollback(y, {fd}))
    BY <2>2, <2>3, RollbackCloses, RollbackShape
  <2>5. QED BY <1>6, <2>4 DEF Before, y
<1>7. QED BY <1>2, <1>4, <1>5, <1>6

(* Every step keeps the invariant. *)
LEMMA StepOK ==
    ASSUME IInv, [Next]_vars
    PROVE  IInv'
<1>1. ASSUME phase \in Before, net' = net,
             phase' \in Before \cup {"failed"}
      PROVE  IInv'
  BY <1>1, NothingOK DEF IInv, Before
<1>2. CASE Read
  BY <1>1, <1>2 DEF Read, Before
<1>3. CASE BuildConfig
  BY <1>1, <1>3 DEF BuildConfig, Before
<1>4. CASE Resolve
  BY <1>1, <1>4 DEF Resolve, Before
<1>5. CASE SetupLoggers
  BY <1>1, <1>5 DEF SetupLoggers, Before
<1>6. CASE Validate
  <2>1. CASE Compatible
    <3>1. net' = Build(configs) /\ phase' = "opening" /\ configs' = configs
      BY <1>6, <2>1 DEF Validate
    <3>2. AllListens' = AllListens /\ \A k : On(k)' = On(k)
      BY <3>1 DEF AllListens, On
    <3>3. QED BY <3>1, <3>2, BuildOK DEF IInv, Built, Before
  <2>2. CASE ~Compatible
    BY <1>1, <1>6, <2>2 DEF Validate, Before
  <2>3. QED BY <2>1, <2>2
<1>7. CASE OpenListener
  BY <1>7, OpenListenerOK
<1>8. CASE Stop
  <2>1. Shape(net) /\ Agree(net) /\ net' = ForgetAll(net) /\ phase' = "stopped"
    BY <1>8 DEF Stop, IInv
  <2>2. QED BY <2>1, ForgetAllCloses, ForgetAllShape DEF IInv, Before
<1>9. CASE UNCHANGED vars
  <2>1. net' = net /\ phase' = phase /\ configs' = configs
    BY <1>9 DEF vars
  <2>2. AllListens' = AllListens /\ \A k : On(k)' = On(k)
    BY <2>1 DEF AllListens, On
  <2>3. QED BY <2>1, <2>2 DEF IInv, Built, Unopened
<1>10. QED
  BY <1>2, <1>3, <1>4, <1>5, <1>6, <1>7, <1>8, <1>9 DEF Next

(* The invariant of every state the start of the program goes through. *)
THEOREM StartupInvariant == Spec => []IInv
<1>1. Init => IInv
  BY NothingOK DEF Init, IInv, Before
<1>2. IInv /\ [Next]_vars => IInv'
  BY StepOK
<1>3. QED BY <1>1, <1>2, PTL DEF Spec

(* Whatever the file says and whichever call fails, the listeners are      *)
(* opened all or not at all, the tables agree on those that are, and after *)
(* a failed start or the end of the server nothing is left.                *)
THEOREM ListenersAllOrNothing == Spec => []AllOrNothing
<1>1. IInv => AllOrNothing
  <2> SUFFICES ASSUME IInv PROVE AllOrNothing
    OBVIOUS
  <2>1. phase \in {"failed", "stopped"} => Closed(net)
    BY DEF IInv
  <2>2. Agree(net) \/ phase \in {"failed", "stopped"}
    BY NothingOK DEF IInv
  <2>3. ASSUME phase = "running"
        PROVE  /\ {net.byFd[fd] : fd \in DOMAIN net.byFd} = AllListens
               /\ \A key \in AllListens : net.listeners[key].vhosts = On(key)
    <3>1. Agree(net) /\ Built /\ Unopened = {}
      BY <2>3 DEF IInv
    <3>2. {net.byFd[fd] : fd \in DOMAIN net.byFd}
             = {key \in DOMAIN net.listeners : net.listeners[key].fd # -1}
      BY <3>1 DEF Agree
    <3>3. {key \in DOMAIN net.listeners : net.listeners[key].fd # -1} = AllListens
      BY <3>1 DEF Built, Unopened
    <3>4. QED BY <3>1, <3>2, <3>3 DEF Built
  <2>4. QED BY <2>1, <2>2, <2>3 DEF AllOrNothing
<1>2. QED BY <1>1, StartupInvariant, PTL

-----------------------------------------------------------------------------
(* What the parser has made of the lines so far: the nodes have the        *)
(* numbers of lines, or minus those, and their texts come from the lines.  *)
NodeOK(r) ==
    /\ DOMAIN r = {"mark", "key", "value", "parent", "terminated"}
    /\ r.key = "host" => r.value \in DOMAIN Lexicon.host

ParserOK(y) ==
    /\ DOMAIN y = {"at", "indents", "marks", "chain", "nodes", "root", "outcome"}
    /\ y.at \in Nat /\ y.at > 0
    /\ \A n \in DOMAIN y.nodes : n \in (-y.at)..y.at /\ NodeOK(y.nodes[n])

(* A line the parser may meet. *)
LineOK(line) ==
    /\ line \in Lines
    /\ line.key = "host" => line.value \in DOMAIN Lexicon.host

LEMMA StartOK == ParserOK(Start)
  BY DEF ParserOK, Start

LEMMA RefuseOK ==
    ASSUME NEW y, ParserOK(y)
    PROVE  ParserOK(Refuse(y)) /\ Refuse(y).at = y.at
  BY DEF ParserOK, Refuse

LEMMA TerminateOK ==
    ASSUME NEW y, ParserOK(y), NEW n
    PROVE  ParserOK(Terminate(y, n)) /\ Terminate(y, n).at = y.at
<1> DEFINE m == [k \in DOMAIN y.nodes |->
                   [y.nodes[k] EXCEPT !.terminated = @ \/ y.nodes[k].parent = n]]
           z == Terminate(y, n)
<1>1. DOMAIN z = DOMAIN y /\ z.nodes = m /\ z.at = y.at
  <2>1. z = [y EXCEPT !.nodes = m]
    BY Zenon DEF Terminate
  <2> HIDE DEF m, z
  <2> QED
    BY <2>1 DEF ParserOK
<1>2. ASSUME NEW k \in DOMAIN y.nodes PROVE NodeOK(m[k])
  <2>1. NodeOK(y.nodes[k])
    BY DEF ParserOK
  <2> QED
    BY <2>1 DEF NodeOK
<1>3. DOMAIN m = DOMAIN y.nodes
  OBVIOUS
<1> HIDE DEF m, z
<1> QED
  BY <1>1, <1>2, <1>3 DEF ParserOK, z

LEMMA PlaceOK ==
    ASSUME NEW y, ParserOK(y), NEW line
    PROVE  ParserOK(Place(y, line)) /\ Place(y, line).at = y.at
<1> DEFINE top == Last(y.indents)
           deeper == Cardinality({j \in DOMAIN y.indents : y.indents[j] > line.indent})
           t == Terminate(y, Last(y.chain))
           z == [t EXCEPT !.indents = SubSeq(@, 1, Len(@) - deeper),
                          !.marks = SubSeq(@, 1, Len(@) - deeper),
                          !.chain = SubSeq(@, 1, Len(@) - deeper)]
           w == [y EXCEPT !.indents = Append(@, line.indent), !.marks = Append(@, line.mark)]
<1>1. ParserOK(t) /\ t.at = y.at
  BY TerminateOK
<1> HIDE DEF t
<1>2. ParserOK(z) /\ z.at = y.at
  BY <1>1 DEF ParserOK
<1>3. ParserOK(w) /\ w.at = y.at
  BY DEF ParserOK
<1>4. ParserOK([y EXCEPT !.outcome = "fault"]) /\ [y EXCEPT !.outcome = "fault"].at = y.at
  BY DEF ParserOK
<1>5. ParserOK(Refuse(y)) /\ Refuse(y).at = y.at /\ ParserOK(Refuse(z)) /\ Refuse(z).at = y.at
  BY <1>2, RefuseOK
<1>6. Place(y, line) \in {w, y, Refuse(y), [y EXCEPT !.outcome = "fault"], z, Refuse(z)}
  BY DEF Place, t
<1> HIDE DEF z, w
<1> QED
  BY <1>2, <1>3, <1>4, <1>5, <1>6

LEMMA AttachOK ==
    ASSUME NEW y, ParserOK(y), NEW line, LineOK(line)
    PROVE  ParserOK(Attach(y, line)) /\ Attach(y, line).at = y.at
<1> DEFINE id == y.at
           r == [NewNode(line, 0) EXCEPT !.key = "root", !.value = ""]
           rooted == IF y.chain = <<>>
                     THEN [y EXCEPT !.root = -id, !.chain = <<-id>>,
                                    !.nodes = Put(@, -id, r)]
                     ELSE y
           parent == IF y.chain = <<>> THEN -id ELSE Last(y.chain)
           z == [rooted EXCEPT !.nodes = Put(@, id, NewNode(line, parent))]
<1>1. NodeOK(r) /\ NodeOK(NewNode(line, parent))
  BY DEF NodeOK, NewNode, LineOK
<1>2. id \in Nat /\ id > 0 /\ id \in (-id)..id /\ -id \in (-id)..id
  BY DEF ParserOK
<1>3. ParserOK(rooted) /\ rooted.at = id
  <2>1. CASE y.chain = <<>>
    <3> DEFINE nodes == Put(y.nodes, -id, r)
               x == [y EXCEPT !.root = -id, !.chain = <<-id>>, !.nodes = nodes]
    <3> HIDE DEF r
    <3>1. \A n \in DOMAIN nodes : n \in (-id)..id /\ NodeOK(nodes[n])
      BY <1>1, <1>2 DEF Put, ParserOK
    <3> HIDE DEF nodes
    <3>2. DOMAIN x = DOMAIN y /\ x.nodes = nodes /\ x.at = id
      BY DEF ParserOK
    <3>3. rooted = x
      BY <2>1 DEF nodes
    <3> HIDE DEF x, rooted
    <3> QED
      BY <3>1, <3>2, <3>3, <1>2 DEF ParserOK
  <2>2. CASE y.chain # <<>>
    BY <2>2
  <2> QED
    BY <2>1, <2>2
<1>4. ParserOK(z) /\ z.at = id
  <2> DEFINE new == NewNode(line, parent)
             nodes == Put(rooted.nodes, id, new)
  <2> HIDE DEF rooted, new
  <2>1. \A n \in DOMAIN nodes : n \in (-id)..id /\ NodeOK(nodes[n])
    BY <1>1, <1>2, <1>3 DEF Put, ParserOK, new
  <2> HIDE DEF nodes
  <2>2. z = [rooted EXCEPT !.nodes = nodes]
    BY DEF nodes, new
  <2>3. DOMAIN z = DOMAIN rooted /\ z.nodes = nodes /\ z.at = id
    BY <1>3, <2>2 DEF ParserOK
  <2> HIDE DEF z
  <2> QED
    BY <2>1, <2>3, <1>2, <1>3 DEF ParserOK
<1>5. Attach(y, line) = Refuse(y) \/ Attach(y, line) = z
  BY DEF Attach
<1>6. ParserOK(Refuse(y)) /\ Refuse(y).at = y.at
  BY RefuseOK
<1> HIDE DEF z
<1> QED
  BY <1>4, <1>5, <1>6

LEMMA ReadLineOK ==
    ASSUME NEW y, ParserOK(y), NEW lines, LineOK(lines[y.at])
    PROVE  ParserOK(ReadLine(y, lines))
<1> DEFINE line == lines[y.at]
           a == Place(y, line)
           b == IF Reading(a) THEN Attach(a, line) ELSE a
           c == IF Reading(b) THEN Descend(b, lines) ELSE b
<1>1. ParserOK(a)
  BY PlaceOK
<1> HIDE DEF a
<1>2. ParserOK(b)
  BY <1>1, AttachOK
<1> HIDE DEF b
<1>3. ParserOK(c)
  <2>1. ParserOK([b EXCEPT !.chain = Append(@, b.at)]) /\ ParserOK(Refuse(b))
    BY <1>2, RefuseOK DEF ParserOK
  <2>2. c \in {b, [b EXCEPT !.chain = Append(@, b.at)], Refuse(b)}
    BY DEF Descend
  <2> HIDE DEF c
  <2> QED
    BY <1>2, <2>1, <2>2
<1> HIDE DEF c
<1>4. ASSUME NEW z, ParserOK(z) PROVE ParserOK(Advance(z))
  <2> DEFINE w == [z EXCEPT !.at = @ + 1]
  <2>1. DOMAIN w = DOMAIN z /\ w.at = z.at + 1 /\ w.nodes = z.nodes
    BY <1>4 DEF ParserOK
  <2>2. z.at \in Nat /\ z.at > 0
    BY <1>4 DEF ParserOK
  <2>3. \A n \in (-z.at)..z.at : n \in (-(z.at + 1))..(z.at + 1)
    BY <2>2
  <2> HIDE DEF w
  <2>4. ParserOK(w)
    BY <1>4, <2>1, <2>2, <2>3 DEF ParserOK
  <2> QED
    BY <1>4, <2>4 DEF Advance, w
<1>5. ReadLine(y, lines) = Advance(y) \/ ReadLine(y, lines) = Advance(c)
  BY DEF ReadLine, a, b, c
<1> QED
  BY <1>3, <1>4, <1>5

(* A text of the tree, and the name of a host. *)
LEMMA HostKnown ==
    ASSUME NEW t, ParserOK(t), NEW n
    PROVE  Text(t, n, "host", "") \in DOMAIN Lexicon.host
<1>1. CASE "host" \in Keys(t, n)
  <2>1. \E k \in Kids(t, n) : Key(t, k) = "host"
    BY <1>1 DEF Keys
  <2>2. Child(t, n, "host") \in Kids(t, n) /\ Key(t, Child(t, n, "host")) = "host"
    BY <2>1 DEF Child
  <2> QED
    BY <1>1, <2>2 DEF Text, Kids, Key, Value, ParserOK, NodeOK
<1>2. CASE "host" \notin Keys(t, n)
  BY <1>2, StartupAssumption DEF Text
<1> QED
  BY <1>1, <1>2

-----------------------------------------------------------------------------
(* The locations of a server block, one after the other.  Induction is     *)
(* over a set of numbers: what is not in it would have a least element.    *)
LEMMA AllNumbers ==
    ASSUME NEW S \in SUBSET Nat, 0 \in S, \A n \in S : n + 1 \in S
    PROVE  S = Nat
<1>1. SUFFICES ASSUME Nat \ S # {} PROVE FALSE
  OBVIOUS
<1>2. PICK m \in Nat \ S : \A n \in Nat \ S : <<n, m>> \notin OpToRel(<, Nat)
  BY <1>1, NatLessThanWellFounded, WFMin, Zenon
<1>3. \A n \in Nat \ S : ~(n < m)
  BY <1>2, Zenon DEF OpToRel
<1>4. m # 0 /\ m \in Nat /\ m \notin S
  BY <1>2
<1>5. m - 1 \in Nat /\ m - 1 < m /\ (m - 1) + 1 = m
  BY <1>4
<1>6. m - 1 \in S
  BY <1>3, <1>5
<1> QED
  BY <1>4, <1>5, <1>6

(* The numbers from low on, k of them. *)
Range1(low, k) == {i \in Int : low <= i /\ i < low + k}

LEMMA GreatestOf ==
    ASSUME NEW low \in Int, NEW k \in Nat, NEW S \in SUBSET Range1(low, k + 1)
    PROVE  /\ low + k \in S => Max(S) = low + k
           /\ S \ {low + k} \in SUBSET Range1(low, k)
           /\ low + k \notin S \ {Max(S)}
<1>1. \A x \in S : x \in Int /\ low <= x /\ x <= low + k
  BY DEF Range1
<1>2. ASSUME low + k \in S PROVE Max(S) = low + k
  <2>1. \A y \in S : low + k >= y
    BY <1>1
  <2>2. ASSUME NEW x \in S, \A y \in S : x >= y PROVE x = low + k
    BY <1>1, <1>2, <2>2
  <2> QED
    BY <1>2, <2>1, <2>2 DEF Max
<1>3. S \ {low + k} \in SUBSET Range1(low, k)
  BY <1>1 DEF Range1
<1> QED
  BY <1>2, <1>3

(* The fold of setLocation() over the blocks in S and its parts. *)
SetBy(g, t, b, S) ==
    g = [s \in SUBSET S |->
           IF s = {} THEN b ELSE SetLocation(g[s \ {Max(s)}], Location(t, Max(s)))]

LEMMA SetGoesOn ==
    ASSUME NEW t, NEW b, NEW low \in Int, NEW k \in Nat, NEW g,
           SetBy(g, t, b, Range1(low, k))
    PROVE  \E h : SetBy(h, t, b, Range1(low, k + 1))
<1> DEFINE T == Range1(low, k + 1)
           h == [s \in SUBSET T |->
                   IF low + k \in s
                   THEN SetLocation(g[s \ {low + k}], Location(t, low + k)) ELSE g[s]]
<1>0. Range1(low, k) \subseteq T
  BY DEF Range1
<1>1. ASSUME NEW s \in SUBSET T
      PROVE  h[s] = IF s = {} THEN b ELSE SetLocation(h[s \ {Max(s)}], Location(t, Max(s)))
  <2>1. h[s \ {Max(s)}] = g[s \ {Max(s)}]
    <3>1. low + k \notin s \ {Max(s)}
      BY GreatestOf
    <3> QED
      BY <3>1
  <2>2. CASE low + k \in s
    <3>1. h[s] = SetLocation(g[s \ {low + k}], Location(t, low + k))
      BY <2>2
    <3>2. s # {} /\ Max(s) = low + k
      BY <2>2, GreatestOf
    <3> QED
      BY <3>1, <3>2, <2>1
  <2>3. CASE low + k \notin s
    <3>1. s \in SUBSET Range1(low, k) /\ h[s] = g[s]
      <4>1. s \ {low + k} \in SUBSET Range1(low, k)
        BY GreatestOf
      <4> QED
        BY <4>1, <2>3
    <3>2. g[s] = IF s = {} THEN b ELSE SetLocation(g[s \ {Max(s)}], Location(t, Max(s)))
      BY <3>1 DEF SetBy
    <3> QED
      BY <3>1, <3>2, <2>1
  <2> QED
    BY <2>2, <2>3
<1>2. h = [s \in SUBSET T |-> h[s]]
  OBVIOUS
<1> HIDE DEF h
<1>3. SetBy(h, t, b, T)
  BY <1>1, <1>2 DEF SetBy
<1> QED
  BY <1>3

LEMMA SetExists ==
    ASSUME NEW t, NEW b, NEW low \in Int, NEW k \in Nat
    PROVE  \E g : SetBy(g, t, b, Range1(low, k))
<1> DEFINE A == {i \in Nat : \E g : SetBy(g, t, b, Range1(low, i))}
<1>1. 0 \in A
  <2> DEFINE g == [s \in SUBSET {} |-> b]
  <2>1. SetBy(g, t, b, {}) /\ Range1(low, 0) = {}
    BY DEF SetBy, Range1
  <2> QED
    BY <2>1
<1>2. \A i \in A : i + 1 \in A
  BY SetGoesOn
<1>3. A = Nat
  <2> HIDE DEF A
  <2>1. A \in SUBSET Nat
    BY DEF A
  <2> QED
    BY <1>1, <1>2, <2>1, AllNumbers
<1> QED
  BY <1>3

(* The location with a path serves no script as its index. *)
Harmless(location) == \A ext \in DOMAIN location.cgi : ~EndsWith(location.index, ext)

(* What is known of the locations in s, unless one was refused. *)
AllHarmless(c, t, s) ==
    /\ DOMAIN c = {"ok", "locations"}
    /\ c.ok => \A l \in s : LET path == Text(t, l, "path", "")
                            IN /\ path \in DOMAIN c.locations
                               /\ Harmless(c.locations[path])

LEMMA SetLocationHarmless ==
    ASSUME NEW t, NEW s, NEW c, AllHarmless(c, t, s), NEW l
    PROVE  AllHarmless(SetLocation(c, Location(t, l)), t, s \cup {l})
<1> DEFINE location == Location(t, l)
           default == c.locations["/"]
           new == Inherit(location, default)
           d == SetLocation(c, location)
           path == Text(t, l, "path", "")
<1>1. /\ location.path = path
      /\ DOMAIN location = {"path", "root", "uploadStore", "index", "noIndex", "directoryError",
                            "autoindex", "session", "redirect", "maxBody", "methods", "cgi",
                            "chunked"}
  BY DEF Location
<1> HIDE DEF location
<1>2. /\ new.path = path
      /\ DOMAIN new.cgi = DOMAIN location.cgi \cup DOMAIN default.cgi
  BY <1>1 DEF Inherit
<1>3. d = [c EXCEPT !.ok = @ /\ IndexOK(new, location, default),
                    !.locations = Put(@, new.path, new)]
  BY DEF SetLocation
<1> DEFINE fits == IndexOK(new, location, default)
           all == Put(c.locations, new.path, new)
<1>4. fits => Harmless(new)
  BY <1>2 DEF IndexOK, Harmless
<1>5. /\ DOMAIN all = DOMAIN c.locations \cup {path} /\ all[path] = new
      /\ \A p \in DOMAIN c.locations \ {path} : all[p] = c.locations[p]
  BY <1>2 DEF Put
<1> HIDE DEF new, default, d, fits, all, path
<1>6. DOMAIN d = {"ok", "locations"} /\ d.ok = (c.ok /\ fits) /\ d.locations = all
  BY <1>3 DEF AllHarmless, fits, all
<1>7. ASSUME d.ok, NEW m \in s \cup {l}
      PROVE  /\ Text(t, m, "path", "") \in DOMAIN d.locations
             /\ Harmless(d.locations[Text(t, m, "path", "")])
  <2>1. c.ok /\ Harmless(new)
    BY <1>4, <1>6, <1>7
  <2>2. CASE Text(t, m, "path", "") = path
    BY <1>5, <1>6, <2>1, <2>2
  <2>3. CASE Text(t, m, "path", "") # path
    <3>1. m \in s
      BY <2>3 DEF path
    <3> QED
      BY <3>1, <1>5, <1>6, <2>1, <2>3 DEF AllHarmless
  <2> QED
    BY <2>2, <2>3
<1> QED
  BY <1>6, <1>7 DEF AllHarmless, d, location

LEMMA SetLocationsHarmless ==
    ASSUME NEW t, ParserOK(t), NEW n, NEW b, AllHarmless(b, t, {})
    PROVE  AllHarmless(SetLocations(t, n, b), t, LocationBlocks(t, n))
<1> DEFINE S == LocationBlocks(t, n)
           low == -t.at
           T(k) == Range1(low, k)
           m == 2 * t.at + 1
<1>1. low \in Int /\ m \in Nat /\ S \subseteq T(m)
  BY DEF ParserOK, LocationBlocks, Kids, Range1
<1>2. \E g : SetBy(g, t, b, S)
  <2>1. PICK h : SetBy(h, t, b, T(m))
    BY <1>1, SetExists
  <2> DEFINE g == [s \in SUBSET S |-> h[s]]
  <2>2. ASSUME NEW s \in SUBSET S
        PROVE  g[s] = IF s = {} THEN b ELSE SetLocation(g[s \ {Max(s)}], Location(t, Max(s)))
    <3>1. s \in SUBSET T(m) /\ s \ {Max(s)} \in SUBSET S
      BY <1>1
    <3>2. h[s] = IF s = {} THEN b ELSE SetLocation(h[s \ {Max(s)}], Location(t, Max(s)))
      BY <2>1, <3>1 DEF SetBy
    <3> QED
      BY <3>1, <3>2
  <2>3. g = [s \in SUBSET S |-> g[s]]
    OBVIOUS
  <2> HIDE DEF g
  <2>4. SetBy(g, t, b, S)
    BY <2>2, <2>3 DEF SetBy
  <2> QED
    BY <2>4
<1> DEFINE g == CHOOSE h : SetBy(h, t, b, S)
<1>3. SetBy(g, t, b, S)
  BY <1>2
<1>4. SetLocations(t, n, b) = g[S]
  BY Zenon DEF SetLocations, MapThenFoldSet, SetBy
<1> HIDE DEF g, S, m
<1> DEFINE A == {k \in Nat : \A s \in SUBSET S : s \subseteq T(k) => AllHarmless(g[s], t, s)}
<1>5. 0 \in A
  <2>1. T(0) = {} /\ {} \in SUBSET S
    BY <1>1 DEF Range1
  <2>2. g[{}] = b
    BY <1>3, <2>1 DEF SetBy
  <2> QED
    BY <2>1, <2>2
<1>6. ASSUME NEW k \in A PROVE k + 1 \in A
  <2>1. SUFFICES ASSUME NEW s \in SUBSET S, s \subseteq T(k + 1) PROVE AllHarmless(g[s], t, s)
    OBVIOUS
  <2>2. CASE low + k \in s
    <3> DEFINE r == s \ {low + k}
    <3>1. Max(s) = low + k /\ r \in SUBSET T(k) /\ r \in SUBSET S /\ s # {}
      BY <1>1, <2>1, <2>2, GreatestOf
    <3>2. g[s] = SetLocation(g[r], Location(t, low + k))
      BY <1>3, <3>1 DEF SetBy
    <3>3. AllHarmless(g[r], t, r)
      BY <3>1
    <3>4. s = r \cup {low + k}
      BY <2>2
    <3> HIDE DEF r, A
    <3> QED
      BY <3>2, <3>3, <3>4, SetLocationHarmless
  <2>3. CASE low + k \notin s
    <3>1. s \ {low + k} \in SUBSET T(k)
      BY <1>1, <2>1, GreatestOf
    <3> QED
      BY <3>1, <2>3
  <2> QED
    BY <2>2, <2>3
<1>7. A = Nat
  <2> HIDE DEF A
  <2>1. A \in SUBSET Nat
    BY DEF A
  <2> QED
    BY <1>5, <1>6, <2>1, AllNumbers
<1> QED
  BY <1>1, <1>4, <1>7 DEF S

(* A configuration that is made: the hosts it names, and its locations. *)
LEMMA ConfigHarmless ==
    ASSUME NEW t, ParserOK(t), NEW s, Config(t, s).ok, "locations" \in Keys(t, s),
           NEW l \in LocationBlocks(t, Child(t, s, "locations"))
    PROVE  Harmless(Config(t, s).locations[Text(t, l, "path", "")])
<1> DEFINE n == Child(t, s, "locations")
           start == [ok |-> TRUE, locations |-> [path \in {"/"} |-> ServerLocation(t, s)]]
           built == SetLocations(t, n, start)
<1>1. AllHarmless(start, t, {})
  BY DEF AllHarmless
<1>2. AllHarmless(built, t, LocationBlocks(t, n))
  BY <1>1, SetLocationsHarmless
<1>3. Config(t, s).ok = built.ok /\ Config(t, s).locations = built.locations
  BY DEF Config
<1> HIDE DEF built, start, n
<1> QED
  BY <1>2, <1>3 DEF AllHarmless, n

LEMMA ConfigHosts ==
    ASSUME NEW t, ParserOK(t), NEW s, NEW l \in ToSet(Config(t, s).listens)
    PROVE  l.host \in DOMAIN Lexicon.host
<1> DEFINE listens == Items(t, Child(t, s, "listens"))
<1>1. Config(t, s).listens = [i \in DOMAIN listens |-> Listen(t, listens[i])]
  BY DEF Config
<1> HIDE DEF listens
<1>2. PICK i : l = Listen(t, listens[i])
  BY <1>1 DEF ToSet
<1>3. l.host = Text(t, listens[i], "host", "")
  BY <1>2 DEF Listen
<1> QED
  BY <1>3, HostKnown

-----------------------------------------------------------------------------
(* The invariant of the configurations: what is built of the tree has known*)
(* hosts and harmless locations, and what is served does not collide.      *)
HarmlessConfig(config, t, s) ==
    "locations" \in Keys(t, s) =>
       \A l \in LocationBlocks(t, Child(t, s, "locations")) :
          Harmless(config.locations[Text(t, l, "path", "")])

BuiltWell ==
    /\ configs \in Seq(ToSet(configs))
    /\ \A i \in DOMAIN configs :
          /\ HarmlessConfig(configs[i], parser, Servers(parser)[i])
          /\ \A l \in ToSet(configs[i].listens) : l.host \in DOMAIN Lexicon.host

CInv ==
    /\ file \in Files
    /\ ParserOK(parser)
    /\ phase = "reading" => configs = <<>>
    /\ BuiltWell
    /\ phase \in {"opening", "running"} => Compatible

LEMMA BuildKeeps ==
    ASSUME BuiltWell, ParserOK(parser), parser' = parser, NEW config,
           config = Config(parser, Servers(parser)[Len(configs) + 1]), config.ok,
           configs' = Append(configs, config)
    PROVE  BuiltWell'
<1> DEFINE s == Servers(parser)[Len(configs) + 1]
           S == ToSet(configs) \cup {config}
<1>1. /\ configs \in Seq(S) /\ configs' \in Seq(S) /\ Len(configs') = Len(configs) + 1
      /\ DOMAIN configs = 1..Len(configs) /\ DOMAIN configs' = 1..(Len(configs) + 1)
      /\ Len(configs) \in Nat
      /\ \A i \in DOMAIN configs : configs'[i] = configs[i]
      /\ configs'[Len(configs) + 1] = config
  <2>1. configs \in Seq(ToSet(configs))
    BY DEF BuiltWell
  <2> DEFINE R == ToSet(configs)
  <2> HIDE DEF R
  <2>2. configs \in Seq(S) /\ config \in S
    BY <2>1 DEF R
  <2> HIDE DEF S
  <2> QED
    BY <2>2
<1>2. configs' \in Seq(ToSet(configs'))
  <2> DEFINE c == configs'
  <2>1. DOMAIN c = 1..Len(c) /\ Len(c) \in Nat /\ \A i \in DOMAIN c : c[i] \in ToSet(c)
    BY <1>1 DEF ToSet
  <2>2. c \in Seq(S)
    BY <1>1
  <2> DEFINE T == ToSet(c)
  <2> HIDE DEF c, S, T
  <2>3. \A i \in 1..Len(c) : c[i] \in T
    BY <2>1 DEF T
  <2>4. c \in Seq(T)
    BY <2>1, <2>2, <2>3
  <2> QED
    BY <2>4 DEF c, T
<1>3. HarmlessConfig(config, parser, s)
  BY ConfigHarmless DEF HarmlessConfig
<1>4. \A l \in ToSet(config.listens) : l.host \in DOMAIN Lexicon.host
  BY ConfigHosts
<1> HIDE DEF S
<1>5. ASSUME NEW i \in DOMAIN configs'
      PROVE  /\ HarmlessConfig(configs'[i], parser, Servers(parser)[i])
             /\ \A l \in ToSet(configs'[i].listens) : l.host \in DOMAIN Lexicon.host
  <2>1. CASE i \in DOMAIN configs
    BY <1>1, <2>1 DEF BuiltWell
  <2>2. CASE i \notin DOMAIN configs
    <3>1. i = Len(configs) + 1
      BY <1>1, <2>2
    <3> QED
      BY <1>1, <1>3, <1>4, <3>1
  <2> QED
    BY <2>1, <2>2
<1> QED
  BY <1>2, <1>5 DEF BuiltWell

LEMMA ConfigStep ==
    ASSUME CInv, [Next]_vars
    PROVE  CInv'
<1>0. ASSUME UNCHANGED <<file, parser, configs>>,
             phase' = "reading" => phase = "reading",
             phase' \in {"opening", "running"} => phase \in {"opening", "running"}
      PROVE  CInv'
  <2>1. Compatible' = Compatible
    BY <1>0 DEF Compatible, Places
  <2>2. BuiltWell' = BuiltWell
    BY <1>0 DEF BuiltWell
  <2> QED
    BY <1>0, <2>1, <2>2 DEF CInv
<1>1. CASE Read
  <2>1. /\ phase = "reading" /\ file' = file /\ configs' = configs /\ configs = <<>>
        /\ parser' = IF parser.at <= Len(file) THEN ReadLine(parser, file)
                     ELSE EndOfFile(parser)
        /\ phase' \in {"reading", "building", "failed", "fault"}
    BY <1>1 DEF Read, CInv
  <2>2. ParserOK(parser) /\ file \in Files
    BY DEF CInv
  <2>3. ParserOK(parser')
    <3>1. CASE parser.at <= Len(file)
      <4>1. file \in Seq(Lines)
        BY <2>2, StartupAssumption
      <4> DEFINE L == Lines
      <4>2. parser.at \in Nat /\ parser.at > 0
        BY <2>2 DEF ParserOK
      <4>3. parser.at \in DOMAIN file /\ file[parser.at] \in L
        <5> HIDE DEF L
        <5>1. file \in Seq(L)
          BY <4>1 DEF L
        <5> QED
          BY <3>1, <4>2, <5>1
      <4>4. LineOK(file[parser.at])
        BY <2>2, <4>3, StartupAssumption DEF LineOK
      <4> QED
        BY <2>1, <2>2, <3>1, <4>4, ReadLineOK
    <3>2. CASE ~(parser.at <= Len(file))
      <4>1. ParserOK([parser EXCEPT !.outcome = "accepted"])
        BY <2>2 DEF ParserOK
      <4> QED
        BY <2>1, <2>2, <3>2, <4>1, RefuseOK DEF EndOfFile
    <3> QED
      BY <3>1, <3>2
  <2>4. BuiltWell'
    <3>1. configs' = <<>> /\ DOMAIN configs' = {}
      BY <2>1
    <3>2. configs' \in Seq(ToSet(configs'))
      BY <3>1
    <3> QED
      BY <3>1, <3>2 DEF BuiltWell
  <2> QED
    BY <2>1, <2>2, <2>3, <2>4 DEF CInv
<1>2. CASE BuildConfig
  <2>1. phase = "building" /\ file' = file /\ parser' = parser
    BY <1>2 DEF BuildConfig
  <2> DEFINE config == Config(parser, Servers(parser)[Len(configs) + 1])
  <2>2. CASE configs' = configs
    <3>1. phase' \notin {"opening", "running", "reading"}
      BY <1>2 DEF BuildConfig
    <3> QED
      BY <1>0, <2>1, <2>2, <3>1
  <2>3. CASE configs' # configs
    <3>1. config.ok /\ configs' = Append(configs, config) /\ phase' \in {"building", "constructing"}
      BY <1>2, <2>3 DEF BuildConfig
    <3>2. ParserOK(parser) /\ BuiltWell
      BY DEF CInv
    <3> HIDE DEF config
    <3>3. BuiltWell'
      BY <2>1, <3>1, <3>2, BuildKeeps DEF config
    <3> QED
      BY <2>1, <3>1, <3>3 DEF CInv
  <2> QED
    BY <2>2, <2>3
<1>3. CASE Resolve
  BY <1>0, <1>3 DEF Resolve
<1>4. CASE SetupLoggers
  BY <1>0, <1>4 DEF SetupLoggers
<1>5. CASE Validate
  <2>1. UNCHANGED <<file, parser, configs>> /\ phase' \in {"opening", "failed"}
    BY <1>5 DEF Validate
  <2>2. phase' = "opening" => Compatible
    BY <1>5 DEF Validate
  <2>3. Compatible' = Compatible
    BY <2>1 DEF Compatible, Places
  <2>4. BuiltWell' = BuiltWell
    BY <2>1 DEF BuiltWell
  <2> QED
    BY <2>1, <2>2, <2>3, <2>4 DEF CInv
<1>6. CASE OpenListener
  <2>1. UNCHANGED <<file, parser, configs>> /\ phase = "opening"
    BY <1>6 DEF OpenListener
  <2>2. phase' # "reading"
    BY <1>6 DEF OpenListener
  <2> QED
    BY <1>0, <2>1, <2>2
<1>7. CASE Stop
  BY <1>0, <1>7 DEF Stop
<1>8. CASE UNCHANGED vars
  BY <1>0, <1>8 DEF vars
<1> QED
  BY <1>1, <1>2, <1>3, <1>4, <1>5, <1>6, <1>7, <1>8 DEF Next

(* The invariant of the configurations.                                    *)
THEOREM ConfigsInvariant == Spec => []CInv
<1>1. Init => CInv
  <2> SUFFICES ASSUME Init PROVE CInv
    OBVIOUS
  <2>1. file \in Files /\ parser = Start /\ phase = "reading" /\ configs = <<>>
    BY DEF Init
  <2>2. BuiltWell
    <3>1. DOMAIN configs = {} /\ configs \in Seq(ToSet(configs))
      BY <2>1
    <3> QED
      BY <3>1 DEF BuiltWell
  <2> QED
    BY <2>1, <2>2, StartOK DEF CInv
<1>2. CInv /\ [Next]_vars => CInv'
  BY ConfigStep
<1> QED
  BY <1>1, <1>2, PTL DEF Spec

(* Whatever the file says and in whichever order its blocks come, no       *)
(* location block of a server that is built serves as its index a file that*)
(* an interpreter of its own, or an inherited one, would run.              *)
THEOREM ScriptsAreNoIndex == Spec => []NoScriptAsIndex
<1>1. CInv => NoScriptAsIndex
  BY DEF CInv, BuiltWell, HarmlessConfig, Harmless, NoScriptAsIndex
<1> QED
  BY <1>1, ConfigsInvariant, PTL

-----------------------------------------------------------------------------
(* Hosts are written without a port.                                       *)
PlainHosts == \A h \in DOMAIN Lexicon.host : Lexicon.host[h] = <<Lexicon.host[h][1], "">>
(* A client may send any name that is a host, or none.                     *)
AnyHeader ==
    \A h \in DOMAIN Lexicon.host :
       \E header \in Headers : Lexicon.host[header][1] = Lexicon.host[h][1]

(* A listen selects its virtual host: no other has the same name there.    *)
LEMMA FindsIt ==
    ASSUME PlainHosts, BuiltWell, Compatible,
           NEW i \in DOMAIN configs, NEW l \in ToSet(configs[i].listens), NEW header,
           Lexicon.host[header][1] = Lexicon.host[l.host][1]
    PROVE  Find(KeyOf(l), header) = i
<1> DEFINE key == KeyOf(l)
           name == Lexicon.host[header][1]
           on == On(key)
           names(j) == {Lexicon.host[m.host][1] : m \in ListensOn(configs[j], key)}
           named == {j \in on : name # "" /\ name \in names(j)}
           nameless == {j \in on : "" \in names(j)}
<1>1. DOMAIN configs \subseteq Nat /\ on \subseteq DOMAIN configs
  <2>1. configs \in Seq(ToSet(configs))
    BY DEF BuiltWell
  <2> DEFINE R == ToSet(configs)
  <2> HIDE DEF R
  <2>2. configs \in Seq(R)
    BY <2>1 DEF R
  <2>3. DOMAIN configs \subseteq Nat
    BY <2>2
  <2> QED
    BY <2>3 DEF On
<1>2. i \in on /\ name \in names(i)
  BY DEF On, ListensOn
<1>3. ASSUME NEW j \in on, name \in names(j) PROVE j = i
  <2>1. PICK m \in ToSet(configs[j].listens) : KeyOf(m) = key /\ Lexicon.host[m.host][1] = name
    BY <1>3 DEF ListensOn
  <2>2. PICK a \in DOMAIN configs[i].listens : l = configs[i].listens[a]
    BY DEF ToSet
  <2>3. PICK b \in DOMAIN configs[j].listens : m = configs[j].listens[b]
    BY DEF ToSet
  <2>4. <<i, a>> \in Places /\ <<j, b>> \in Places
    BY <1>1, <2>2, <2>3 DEF Places
  <2>5. m.port = l.port /\ m.interface = l.interface
    BY <2>1 DEF KeyOf
  <2>6. SameHost(l.host, m.host)
    <3>1. l.host \in DOMAIN Lexicon.host /\ m.host \in DOMAIN Lexicon.host
      BY <1>1 DEF BuiltWell
    <3>2. Lexicon.host[l.host] = <<name, "">> /\ Lexicon.host[m.host] = <<name, "">>
      BY <3>1, <2>1 DEF PlainHosts
    <3> QED
      BY <3>2 DEF SameHost
  <2>7. <<i, a>> = <<j, b>>
    BY <2>2, <2>3, <2>4, <2>5, <2>6 DEF Compatible
  <2> QED
    BY <2>7
<1> DEFINE least(set) == CHOOSE k \in set : \A j \in set : k <= j
           greatest(set) == CHOOSE k \in set : \A j \in set : j <= k
<1>4. least({i}) = i /\ greatest({i}) = i
  BY <1>1
<1>5. Find(key, header) = IF named # {} THEN least(named)
                          ELSE IF nameless # {} THEN greatest(nameless)
                          ELSE least(on)
  BY DEF Find
<1>6. CASE name # ""
  <2>1. named = {i}
    BY <1>2, <1>3, <1>6
  <2> HIDE DEF named, nameless, least, greatest
  <2> QED
    BY <1>4, <1>5, <2>1
<1>7. CASE name = ""
  <2>1. named = {} /\ nameless = {i}
    BY <1>2, <1>3, <1>7
  <2> HIDE DEF named, nameless, least, greatest
  <2> QED
    BY <1>4, <1>5, <2>1
<1> QED
  BY <1>6, <1>7

(* Every virtual host of a server that runs can be reached on each of its  *)
(* listens, if hosts are written without a port: what is refused as        *)
(* colliding is all that could hide it.                                    *)
THEOREM VhostsAreReachable ==
    ASSUME PlainHosts, AnyHeader
    PROVE  Spec => []VhostsReachable
<1>1. CInv => VhostsReachable
  <2> SUFFICES ASSUME CInv, phase = "running",
                      NEW i \in DOMAIN configs, NEW l \in ToSet(configs[i].listens)
               PROVE  \E header \in Headers : Find(KeyOf(l), header) = i
    BY DEF VhostsReachable
  <2>1. l.host \in DOMAIN Lexicon.host /\ BuiltWell /\ Compatible
    BY DEF CInv, BuiltWell
  <2>2. PICK header \in Headers : Lexicon.host[header][1] = Lexicon.host[l.host][1]
    BY <2>1 DEF AnyHeader
  <2> QED
    BY <2>1, <2>2, FindsIt
<1> QED
  BY <1>1, ConfigsInvariant, PTL

-----------------------------------------------------------------------------
(* The tree of a file.  The lines before a that say something. *)
Until(lines, a) == {i \in Content(lines) : i < a}

(* Comments and empty lines stand where they do not matter: the line after *)
(* one that says something is further in exactly if the next that says     *)
(* something is.                                                           *)
CommentsInLine(lines) ==
    \A i, j \in Content(lines) :
       i < j /\ (\A k \in Content(lines) : ~(i < k /\ k < j)) =>
          (lines[i].indent < lines[i + 1].indent <=> lines[i].indent < lines[j].indent)

(* The stacks: level j of the indentation is that of the children of       *)
(* chain[j], and no line since then was further out.                       *)
Stacked(indents, chain, read, lines) ==
    /\ indents \in Seq(Int) /\ chain \in Seq(Int)
    /\ Len(indents) > 0 /\ indents[1] = -1
    /\ \A i, j \in 1..Len(indents) : i < j => indents[i] < indents[j]
    /\ \A j \in 2..Len(chain) : chain[j] \in read /\ lines[chain[j]].indent = indents[j]
    /\ \A j \in 1..(Len(indents) - 1) : \A i \in read :
          (j = 1 \/ chain[j] < i) => lines[i].indent >= indents[j + 1]

(* The tree: a node for each line, where it belongs. *)
IsNodeOf(node, i, root, lines) ==
    /\ node.parent = IF Owner(lines, i) = 0 THEN root ELSE Owner(lines, i)
    /\ node.key = lines[i].key /\ node.value = lines[i].value /\ node.mark = lines[i].mark

Treed(nodes, root, read, lines) ==
    /\ IF read = {} THEN DOMAIN nodes = {} /\ root = 0
       ELSE DOMAIN nodes = read \cup {root} /\ root \in Int /\ root < 0
    /\ \A i \in read : IsNodeOf(nodes[i], i, root, lines)

(* The parser before a line. *)
Aligned(y, lines) ==
    LET read == Until(lines, y.at)
        top == Len(y.indents)
    IN /\ ParserOK(y) /\ y.at <= Len(lines) + 1
       /\ Stacked(y.indents, y.chain, read, lines) /\ Treed(y.nodes, y.root, read, lines)
       /\ read = {} => top = 1 /\ y.chain = <<>>
       /\ read # {} => top > 1 /\ Len(y.chain) > 0 /\ y.chain[1] = y.root
       /\ \A k \in read : (\A i \in read : i <= k) =>
             /\ y.indents[top] = lines[k].indent
             /\ IF k < Len(lines) /\ lines[k].indent < lines[k + 1].indent
                THEN Len(y.chain) = top /\ y.chain[top] = k
                ELSE Len(y.chain) = top - 1

(* The parser with the place found for the line. *)
Ready(z, lines) ==
    LET read == Until(lines, z.at)
        top == Len(z.indents)
    IN /\ ParserOK(z) /\ z.outcome = "reading"
       /\ Stacked(z.indents, z.chain, read, lines) /\ Treed(z.nodes, z.root, read, lines)
       /\ top > 1 /\ z.indents[top] = lines[z.at].indent
       /\ read = {} => top = 2 /\ z.chain = <<>>
       /\ read # {} => Len(z.chain) = top - 1 /\ z.chain[1] = z.root

LEMMA DeeperAre ==
    ASSUME NEW s \in Seq(Int), \A i, j \in 1..Len(s) : i < j => s[i] < s[j],
           NEW v \in Int, NEW n, n = Cardinality({j \in DOMAIN s : s[j] > v})
    PROVE  n \in 0..Len(s) /\ \A j \in 1..Len(s) : s[j] > v <=> j > Len(s) - n
<1> DEFINE S == {j \in DOMAIN s : s[j] > v}
           L == Len(s)
<1>1. L \in Nat /\ DOMAIN s = 1..L /\ \A j \in 1..L : s[j] \in Int
  OBVIOUS
<1>2. CASE S = {}
  <2>1. n = 0
    BY <1>2, FS_EmptySet
  <2>2. \A j \in 1..L : ~(s[j] > v)
    BY <1>1, <1>2
  <2> HIDE DEF L
  <2>3. \A j \in 1..L : ~(j > L - n)
    BY <1>1, <2>1
  <2> QED
    BY <1>1, <2>1, <2>2, <2>3 DEF L
<1>3. CASE S # {}
  <2>1. S \in SUBSET Nat /\ S # {}
    BY <1>1, <1>3
  <2>2. PICK m \in S : \A j \in S : <<j, m>> \notin OpToRel(<, Nat)
    BY <2>1, NatLessThanWellFounded, WFMin, Zenon
  <2>3. \A j \in S : ~(j < m)
    BY <2>1, <2>2, Zenon DEF OpToRel
  <2>4. m \in 1..L /\ s[m] > v /\ m \in Nat
    BY <1>1
  <2>5. \A j \in 1..L : s[j] > v <=> m <= j
    <3> TAKE j \in 1..L
    <3>1. CASE j < m
      BY <1>1, <2>3, <2>4, <3>1
    <3>2. CASE m < j
      BY <1>1, <2>4, <3>2
    <3>3. CASE j = m
      BY <2>4, <3>3
    <3> QED
      BY <2>4, <3>1, <3>2, <3>3
  <2>6. S = m..L
    BY <1>1, <2>4, <2>5
  <2>7. Cardinality(m..L) = L - m + 1
    BY <1>1, <2>4, FS_Interval
  <2>8. n = L - m + 1
    BY <2>6, <2>7
  <2> HIDE DEF L
  <2>9. n \in 0..L /\ L - n + 1 = m
    BY <1>1, <2>4, <2>8
  <2>10. \A j \in 1..L : j > L - n <=> m <= j
    BY <1>1, <2>4, <2>8
  <2> QED
    BY <2>5, <2>9, <2>10 DEF L
<1> QED
  BY <1>2, <1>3

LEMMA StillTreed ==
    ASSUME NEW y, ParserOK(y), NEW n, NEW root, NEW read, NEW lines,
           Treed(y.nodes, root, read, lines), NEW z, z = Terminate(y, n)
    PROVE  /\ Treed(z.nodes, root, read, lines) /\ DOMAIN z = DOMAIN y
           /\ z.at = y.at /\ z.indents = y.indents /\ z.marks = y.marks /\ z.chain = y.chain
           /\ z.root = y.root /\ z.outcome = y.outcome
<1> DEFINE m == [k \in DOMAIN y.nodes |->
                   [y.nodes[k] EXCEPT !.terminated = @ \/ y.nodes[k].parent = n]]
<1>1. z = [y EXCEPT !.nodes = m]
  BY Zenon DEF Terminate
<1>2. ASSUME NEW k \in DOMAIN y.nodes
      PROVE  /\ m[k].parent = y.nodes[k].parent /\ m[k].key = y.nodes[k].key
             /\ m[k].value = y.nodes[k].value /\ m[k].mark = y.nodes[k].mark
  <2>1. NodeOK(y.nodes[k])
    BY DEF ParserOK
  <2> QED
    BY <2>1 DEF NodeOK
<1>3. DOMAIN m = DOMAIN y.nodes
  OBVIOUS
<1> HIDE DEF m
<1>4. /\ z.nodes = m /\ DOMAIN z = DOMAIN y
      /\ z.at = y.at /\ z.indents = y.indents /\ z.marks = y.marks /\ z.chain = y.chain
      /\ z.root = y.root /\ z.outcome = y.outcome
  BY <1>1 DEF ParserOK
<1>5. \A i \in read : i \in DOMAIN y.nodes /\ IsNodeOf(y.nodes[i], i, root, lines)
  BY DEF Treed
<1>6. \A i \in read : IsNodeOf(m[i], i, root, lines)
  BY <1>2, <1>5 DEF IsNodeOf
<1>7. Treed(m, root, read, lines)
  BY <1>3, <1>6 DEF Treed
<1> QED
  BY <1>4, <1>7

(* What the lines hold. *)
LEMMA LineIs ==
    ASSUME NEW lines \in Seq(Lines), NEW i \in DOMAIN lines
    PROVE  /\ lines[i] \in Lines /\ lines[i].indent \in Nat /\ lines[i].indent \in Int
           /\ i \in Nat /\ i > 0 /\ i <= Len(lines) /\ Len(lines) \in Nat
<1> DEFINE L == Lines
<1>1. lines \in Seq(L)
  OBVIOUS
<1> HIDE DEF L
<1>2. /\ lines[i] \in L /\ i \in Nat /\ i > 0 /\ i <= Len(lines) /\ Len(lines) \in Nat
  BY <1>1
<1> QED
  BY <1>2 DEF L, Lines

LEMMA UntilIs ==
    ASSUME NEW lines \in Seq(Lines), NEW a \in Nat
    PROVE  /\ Until(lines, a) \subseteq DOMAIN lines /\ Until(lines, a) \subseteq Content(lines)
           /\ a \in Content(lines) => Until(lines, a + 1) = Until(lines, a) \cup {a}
           /\ a \notin Content(lines) => Until(lines, a + 1) = Until(lines, a)
           /\ a \notin Until(lines, a)
<1>1. \A i \in DOMAIN lines : i \in Nat
  BY LineIs
<1>2. Content(lines) \subseteq DOMAIN lines
  BY DEF Content
<1> QED
  BY <1>1, <1>2 DEF Until

(* The last of the lines that were read. *)
LEMMA LastIs ==
    ASSUME NEW lines \in Seq(Lines), NEW a \in Nat, Until(lines, a) # {}
    PROVE  \E k \in Until(lines, a) : \A i \in Until(lines, a) : i <= k
<1> DEFINE R == Until(lines, a)
           B == {a - i : i \in R}
<1>1. \A i \in R : i \in Nat /\ i < a
  BY UntilIs, LineIs DEF Until
<1>2. B \in SUBSET Nat /\ B # {}
  BY <1>1
<1>3. PICK m \in B : \A j \in B : <<j, m>> \notin OpToRel(<, Nat)
  BY <1>2, NatLessThanWellFounded, WFMin, Zenon
<1>4. \A j \in B : ~(j < m)
  BY <1>2, <1>3, Zenon DEF OpToRel
<1>5. PICK k \in R : m = a - k
  BY <1>3
<1>6. \A i \in R : ~(a - i < m)
  BY <1>4
<1>7. \A i \in R : i <= k
  BY <1>1, <1>5, <1>6
<1> QED
  BY <1>5, <1>7

(* The last line read and the next one, with nothing between. *)
LEMMA NextIs ==
    ASSUME NEW lines \in Seq(Lines), CommentsInLine(lines), NEW a \in Content(lines),
           NEW k \in Until(lines, a), \A i \in Until(lines, a) : i <= k
    PROVE  /\ k < Len(lines) /\ k < a
           /\ lines[k].indent < lines[k + 1].indent <=> lines[k].indent < lines[a].indent
<1>1. a \in DOMAIN lines /\ k \in Content(lines) /\ k < a
  BY DEF Content, Until
<1>2. \A i \in Content(lines) : ~(k < i /\ i < a)
  <2> TAKE i \in Content(lines)
  <2>1. i \in DOMAIN lines /\ k \in DOMAIN lines
    BY <1>1 DEF Content
  <2>2. i \in Nat /\ k \in Nat /\ a \in Nat
    BY <1>1, <2>1, LineIs
  <2>3. i < a => i <= k
    BY DEF Until
  <2> QED
    BY <2>2, <2>3
<1>3. a <= Len(lines) /\ a \in Nat /\ Len(lines) \in Nat
  BY <1>1, LineIs
<1>4. k \in DOMAIN lines
  BY <1>1 DEF Content
<1>5. k \in Nat
  BY <1>4, LineIs
<1> QED
  BY <1>1, <1>2, <1>3, <1>5 DEF CommentsInLine

(* A stack with one more on it, and the first of a stack. *)
Pushed(t, s, v) ==
    t \in Seq(Int) /\ Len(t) = Len(s) + 1 /\ t[Len(t)] = v /\ \A i \in 1..Len(s) : t[i] = s[i]
FirstOf(t, s, k) == t \in Seq(Int) /\ Len(t) = k /\ \A i \in 1..k : t[i] = s[i]

LEMMA Pushes ==
    ASSUME NEW s \in Seq(Int), NEW v \in Int, NEW t, t = Append(s, v)
    PROVE  Pushed(t, s, v)
  BY DEF Pushed

LEMMA Prefix ==
    ASSUME NEW s \in Seq(Int), NEW k \in Nat, k <= Len(s), NEW t, t = SubSeq(s, 1, k)
    PROVE  FirstOf(t, s, k)
<1>1. t \in Seq(Int) /\ Len(t) = k /\ \A i \in 1..k : t[i] = s[i]
  OBVIOUS
<1> QED
  BY <1>1 DEF FirstOf

(* A line further in than the last: a new level, that of its children. *)
LEMMA Deeper ==
    ASSUME NEW lines \in Seq(Lines), NEW a \in Content(lines), NEW chain, NEW indents,
           NEW v, v = lines[a].indent, NEW R, R = Until(lines, a),
           Stacked(indents, chain, R, lines), indents[Len(indents)] < v,
           \/ R = {} /\ Len(indents) = 1
           \/ /\ Len(chain) = Len(indents) /\ Len(indents) > 1
              /\ \A i \in R : i <= chain[Len(chain)],
           NEW next, Pushed(next, indents, v)
    PROVE  /\ Stacked(next, chain, R, lines)
           /\ Len(next) = Len(indents) + 1 /\ next[Len(next)] = v
<1> DEFINE D == Len(indents)
<1>1. v \in Int /\ \A i \in R : lines[i].indent \in Int /\ i \in Nat
  <2>1. a \in DOMAIN lines
    BY DEF Content
  <2>2. a \in Nat
    BY <2>1, LineIs
  <2> QED
    BY <2>1, <2>2, LineIs, UntilIs
<1>2. indents \in Seq(Int) /\ chain \in Seq(Int) /\ D \in Nat /\ D > 0 /\ Len(chain) \in Nat
  BY DEF Stacked
<1>3. /\ next \in Seq(Int) /\ Len(next) = D + 1 /\ next[D + 1] = v
      /\ \A i \in 1..D : next[i] = indents[i] /\ indents[i] \in Int
  BY <1>1, <1>2 DEF Pushed
<1>4. \A i \in 1..D : indents[i] < v
  <2> TAKE i \in 1..D
  <2>1. indents[D] < v /\ indents[D] \in Int /\ indents[i] \in Int
    BY <1>2
  <2>2. i < D => indents[i] < indents[D]
    BY <1>2 DEF Stacked
  <2>3. i < D \/ i = D
    BY <1>2
  <2> QED
    BY <1>1, <2>1, <2>2, <2>3
<1>5. \A i, j \in 1..(D + 1) : i < j => next[i] < next[j]
  <2> TAKE i, j \in 1..(D + 1)
  <2>1. ASSUME i < j PROVE next[i] < next[j]
    <3>1. i \in 1..D
      BY <1>2, <2>1
    <3>2. CASE j = D + 1
      BY <1>3, <1>4, <3>1, <3>2
    <3>3. CASE j # D + 1
      <4>1. j \in 1..D
        BY <1>2, <3>3
      <4>2. indents[i] < indents[j]
        BY <2>1, <3>1, <4>1 DEF Stacked
      <4> QED
        BY <1>3, <3>1, <4>1, <4>2
    <3> QED
      BY <3>2, <3>3
  <2> QED
    BY <2>1
<1>6. \A j \in 2..Len(chain) : chain[j] \in R /\ lines[chain[j]].indent = next[j]
  <2> TAKE j \in 2..Len(chain)
  <2>1. chain[j] \in R /\ lines[chain[j]].indent = indents[j]
    BY DEF Stacked
  <2>2. Len(chain) = D
    BY <2>1
  <2>3. j \in 1..D
    BY <1>2, <2>2
  <2> QED
    BY <1>3, <2>1, <2>3
<1>7. \A j \in 1..D : \A i \in R : (j = 1 \/ chain[j] < i) => lines[i].indent >= next[j + 1]
  <2> TAKE j \in 1..D
  <2> TAKE i \in R
  <2>1. ASSUME j = 1 \/ chain[j] < i PROVE lines[i].indent >= next[j + 1]
    <3>1. CASE j < D
      <4>1. j \in 1..(D - 1) /\ j + 1 \in 1..D
        BY <1>2, <3>1
      <4>2. lines[i].indent >= indents[j + 1]
        BY <2>1, <4>1 DEF Stacked
      <4> QED
        BY <1>3, <4>1, <4>2
    <3>2. CASE j = D
      <4>1. Len(chain) = D /\ i <= chain[D] /\ D # 1 /\ chain[D] \in Int
        BY <1>2
      <4> QED
        BY <1>1, <1>2, <2>1, <3>2, <4>1
    <3> QED
      BY <1>2, <3>1, <3>2
  <2> QED
    BY <2>1, Zenon
<1>8. next[1] = -1
  <2>1. indents[1] = -1
    BY DEF Stacked
  <2>2. 1 \in 1..D
    BY <1>2
  <2> QED
    BY <1>3, <2>1, <2>2
<1>9. Len(next) - 1 = D /\ Len(next) > 0
  BY <1>2, <1>3
<1> QED
  BY <1>2, <1>3, <1>5, <1>6, <1>7, <1>8, <1>9 DEF Stacked

(* A line further out: the levels that stay. *)
LEMMA Outer ==
    ASSUME NEW lines, NEW read, NEW indents, NEW chain,
           Stacked(indents, chain, read, lines), Len(chain) = Len(indents) - 1,
           NEW q \in 2..Len(indents),
           NEW k, k = q - 1,
           NEW next, FirstOf(next, indents, q), NEW less, FirstOf(less, chain, k)
    PROVE  /\ Stacked(next, less, read, lines)
           /\ Len(next) = q /\ Len(less) = q - 1 /\ next[q] = indents[q] /\ less[1] = chain[1]
<1>1. indents \in Seq(Int) /\ chain \in Seq(Int)
  BY DEF Stacked
<1>2. /\ Len(indents) \in Nat /\ Len(chain) \in Nat /\ q \in Nat /\ q <= Len(indents)
      /\ q - 1 \in Nat /\ q - 1 <= Len(chain) /\ q >= 2
  BY <1>1
<1>3. /\ next \in Seq(Int) /\ Len(next) = q /\ \A i \in 1..q : next[i] = indents[i]
  BY DEF FirstOf
<1>4. less \in Seq(Int) /\ Len(less) = q - 1 /\ \A i \in 1..(q - 1) : less[i] = chain[i]
  BY DEF FirstOf
<1>5. Len(next) > 0 /\ next[1] = -1 /\ less[1] = chain[1] /\ next[q] = indents[q]
  <2>1. 1 \in 1..(q - 1) /\ 1 \in 1..q /\ q \in 1..q
    BY <1>2
  <2>2. indents[1] = -1
    BY DEF Stacked
  <2>3. next[1] = indents[1] /\ next[q] = indents[q] /\ Len(next) > 0
    BY <1>2, <1>3, <2>1
  <2>4. less[1] = chain[1]
    BY <1>4, <2>1
  <2> QED
    BY <2>2, <2>3, <2>4
<1>6. \A i, j \in 1..Len(next) : i < j => next[i] < next[j]
  <2> TAKE i, j \in 1..Len(next)
  <2>1. i \in 1..Len(indents) /\ j \in 1..Len(indents) /\ i \in 1..q /\ j \in 1..q
    BY <1>2, <1>3
  <2> QED
    BY <1>3, <2>1 DEF Stacked
<1>7. \A j \in 2..Len(less) : less[j] \in read /\ lines[less[j]].indent = next[j]
  <2> TAKE j \in 2..Len(less)
  <2>1. j \in 2..Len(chain) /\ j \in 1..(q - 1) /\ j \in 1..q
    BY <1>2, <1>4
  <2> QED
    BY <1>3, <1>4, <2>1 DEF Stacked
<1>8. \A j \in 1..(Len(next) - 1) : \A i \in read :
         (j = 1 \/ less[j] < i) => lines[i].indent >= next[j + 1]
  <2> TAKE j \in 1..(Len(next) - 1)
  <2>1. j \in 1..(Len(indents) - 1) /\ j \in 1..(q - 1) /\ j + 1 \in 1..q
    BY <1>2, <1>3
  <2>2. less[j] = chain[j] /\ next[j + 1] = indents[j + 1]
    BY <1>3, <1>4, <2>1
  <2> QED
    BY <2>1, <2>2 DEF Stacked
<1> QED
  BY <1>3, <1>4, <1>5, <1>6, <1>7, <1>8 DEF Stacked

(* The node on the chain is the one the line belongs to. *)
LEMMA OwnerIs ==
    ASSUME NEW lines \in Seq(Lines), NEW a \in Content(lines), NEW indents, NEW chain,
           Stacked(indents, chain, Until(lines, a), lines),
           NEW top, top = Len(indents), top > 1, indents[top] = lines[a].indent,
           top > 2 => Len(chain) = top - 1
    PROVE  /\ top = 2 => Owner(lines, a) = 0
           /\ top > 2 => Owner(lines, a) = chain[top - 1] /\ chain[top - 1] > 0
<1> DEFINE R == Until(lines, a)
           above == {j \in Content(lines) : j < a /\ lines[j].indent < lines[a].indent}
           v == lines[a].indent
<1>1. above = {i \in R : lines[i].indent < v}
  BY DEF Until
<1>2. a \in DOMAIN lines /\ R \subseteq DOMAIN lines
  BY DEF Content, Until
<1>3. v \in Int /\ \A i \in R : lines[i].indent \in Int /\ i \in Nat /\ i > 0
  <2>1. a \in Nat /\ v \in Int
    BY <1>2, LineIs
  <2>2. \A i \in R : lines[i].indent \in Int /\ i \in Nat /\ i > 0
    BY <1>2, LineIs
  <2> QED
    BY <2>1, <2>2
<1>4. indents \in Seq(Int) /\ chain \in Seq(Int) /\ top \in Nat
  BY DEF Stacked
<1>5. Owner(lines, a) = IF above = {} THEN 0 ELSE CHOOSE j \in above : \A k \in above : k <= j
  BY DEF Owner
<1>6. ASSUME top = 2 PROVE Owner(lines, a) = 0
  <2>1. 1 \in 1..(Len(indents) - 1) /\ 1 + 1 = top
    BY <1>6
  <2>2. \A i \in R : lines[i].indent >= indents[1 + 1]
    BY <2>1 DEF Stacked
  <2>3. \A i \in R : lines[i].indent >= v
    BY <2>1, <2>2
  <2> HIDE DEF v
  <2>4. \A i \in R : ~(lines[i].indent < v)
    BY <1>3, <2>3
  <2>5. above = {}
    BY <1>1, <2>4
  <2> QED
    BY <1>5, <2>5
<1>7. ASSUME top > 2 PROVE Owner(lines, a) = chain[top - 1] /\ chain[top - 1] > 0
  <2> DEFINE c == chain[top - 1]
  <2>1. top - 1 \in 2..Len(chain) /\ top - 1 \in 1..(Len(indents) - 1) /\ (top - 1) + 1 = top
    BY <1>4, <1>7
  <2>2. c \in R /\ lines[c].indent = indents[top - 1]
    BY <2>1 DEF Stacked
  <2>3. indents[top - 1] < indents[top]
    <3>1. top - 1 \in 1..Len(indents) /\ top \in 1..Len(indents) /\ top - 1 < top
      BY <1>4, <1>7
    <3> QED
      BY <3>1 DEF Stacked
  <2>4. \A i \in R : c < i => lines[i].indent >= v
    <3>1. \A i \in R : (top - 1 = 1 \/ chain[top - 1] < i) => lines[i].indent >= indents[(top - 1) + 1]
      BY <2>1 DEF Stacked
    <3> QED
      BY <2>1, <3>1
  <2> HIDE DEF c, v
  <2>5. c \in above
    BY <1>1, <2>2, <2>3 DEF v
  <2>6. \A k \in above : k <= c
    BY <1>1, <1>3, <2>2, <2>4
  <2>7. \A j \in above : (\A k \in above : k <= j) => j = c
    BY <1>1, <1>3, <2>2, <2>5, <2>6
  <2> HIDE DEF above
  <2>8. Owner(lines, a) = c
    BY <1>5, <2>5, <2>6, <2>7
  <2> QED
    BY <1>3, <2>2, <2>8 DEF c
<1> QED
  BY <1>6, <1>7

(* The line has been read. *)
LEMMA Seen ==
    ASSUME NEW lines \in Seq(Lines), NEW read, NEW a \in DOMAIN lines,
           NEW indents, NEW chain, Stacked(indents, chain, read, lines),
           indents[Len(indents)] = lines[a].indent
    PROVE  Stacked(indents, chain, read \cup {a}, lines)
<1>1. indents \in Seq(Int) /\ Len(indents) \in Nat
  BY DEF Stacked
<1>2. \A j \in 1..(Len(indents) - 1) : lines[a].indent >= indents[j + 1]
  <2> TAKE j \in 1..(Len(indents) - 1)
  <2>1. j + 1 \in 1..Len(indents) /\ Len(indents) \in 1..Len(indents)
    BY <1>1
  <2>2. indents[j + 1] \in Int /\ indents[Len(indents)] \in Int
    BY <1>1, <2>1
  <2>3. j + 1 < Len(indents) => indents[j + 1] < indents[Len(indents)]
    BY <2>1 DEF Stacked
  <2>4. j + 1 = Len(indents) \/ j + 1 < Len(indents)
    BY <1>1
  <2> QED
    BY <2>2, <2>3, <2>4
<1> QED
  BY <1>2 DEF Stacked

(* A line that opens a block goes on the chain. *)
LEMMA Opened ==
    ASSUME NEW lines \in Seq(Lines), NEW read, NEW a \in read, a \in DOMAIN lines,
           NEW indents, NEW chain, Stacked(indents, chain, read, lines),
           Len(indents) > 1, Len(chain) = Len(indents) - 1,
           indents[Len(indents)] = lines[a].indent,
           NEW more, Pushed(more, chain, a)
    PROVE  /\ Stacked(indents, more, read, lines) /\ Len(more) = Len(indents)
           /\ more[Len(indents)] = a /\ more[1] = chain[1]
<1>1. indents \in Seq(Int) /\ chain \in Seq(Int) /\ a \in Nat
  <2>1. a \in Nat
    BY LineIs
  <2> QED
    BY <2>1 DEF Stacked
<1> DEFINE top == Len(indents)
<1>2. top \in Nat /\ Len(chain) \in Nat /\ top > 1 /\ Len(chain) = top - 1
  BY <1>1
<1>3. /\ more \in Seq(Int) /\ Len(more) = top /\ more[top] = a
      /\ \A j \in 1..(top - 1) : more[j] = chain[j]
  BY <1>1, <1>2 DEF Pushed
<1>4. \A j \in 2..Len(more) : more[j] \in read /\ lines[more[j]].indent = indents[j]
  <2> TAKE j \in 2..Len(more)
  <2>1. CASE j = top
    BY <1>3, <2>1
  <2>2. CASE j # top
    <3>1. j \in 2..Len(chain) /\ j \in 1..(top - 1)
      BY <1>2, <1>3, <2>2
    <3> QED
      BY <1>3, <3>1 DEF Stacked
  <2> QED
    BY <2>1, <2>2
<1>5. \A j \in 1..(top - 1) : \A i \in read :
         (j = 1 \/ more[j] < i) => lines[i].indent >= indents[j + 1]
  BY <1>3 DEF Stacked
<1>6. more[1] = chain[1]
  BY <1>2, <1>3
<1> QED
  BY <1>3, <1>4, <1>5, <1>6 DEF Stacked

(* The last line read against the top of the stacks. *)
LEMMA TopIs ==
    ASSUME NEW lines \in Seq(Lines), CommentsInLine(lines), NEW y, Aligned(y, lines),
           y.at \in Content(lines), Until(lines, y.at) # {}
    PROVE  /\ Len(y.indents) > 1 /\ y.chain[1] = y.root /\ Len(y.chain) > 0
           /\ y.indents[Len(y.indents)] < lines[y.at].indent =>
                 /\ Len(y.chain) = Len(y.indents)
                 /\ \A i \in Until(lines, y.at) : i <= y.chain[Len(y.chain)]
           /\ ~(y.indents[Len(y.indents)] < lines[y.at].indent) =>
                 Len(y.chain) = Len(y.indents) - 1
<1> DEFINE a == y.at
           top == Len(y.indents)
<1>1. a \in Nat
  BY DEF Aligned, ParserOK
<1>2. PICK k \in Until(lines, a) : \A i \in Until(lines, a) : i <= k
  BY <1>1, LastIs
<1>3. /\ k < Len(lines) /\ k < a
      /\ lines[k].indent < lines[k + 1].indent <=> lines[k].indent < lines[a].indent
  BY <1>2, NextIs
<1>4. /\ y.indents[top] = lines[k].indent
      /\ IF k < Len(lines) /\ lines[k].indent < lines[k + 1].indent
         THEN Len(y.chain) = top /\ y.chain[top] = k
         ELSE Len(y.chain) = top - 1
  BY <1>2 DEF Aligned
<1>5. top > 1 /\ y.chain[1] = y.root /\ Len(y.chain) > 0
  BY DEF Aligned
<1> QED
  BY <1>2, <1>3, <1>4, <1>5

LEMMA ReadyWhen ==
    ASSUME NEW lines, NEW y, Aligned(y, lines), NEW z, ParserOK(z), z.outcome = "reading",
           z.at = y.at, z.root = y.root, NEW top, top = Len(z.indents),
           Treed(z.nodes, z.root, Until(lines, y.at), lines),
           Stacked(z.indents, z.chain, Until(lines, y.at), lines),
           top > 1, z.indents[top] = lines[y.at].indent,
           Until(lines, y.at) = {} => top = 2 /\ z.chain = <<>>,
           Until(lines, y.at) # {} => Len(z.chain) = top - 1 /\ z.chain[1] = z.root
    PROVE  Ready(z, lines)
  BY DEF Ready

(* A place is found for the line, or it is refused: the stacks never run   *)
(* empty.                                                                  *)
LEMMA PlaceReady ==
    ASSUME NEW lines \in Seq(Lines), CommentsInLine(lines), NEW y, Aligned(y, lines),
           y.outcome = "reading", y.at \in Content(lines), NEW z, z = Place(y, lines[y.at])
    PROVE  z.at = y.at /\ ParserOK(z) /\ (z.outcome = "refused" \/ Ready(z, lines))
<1> DEFINE a == y.at
           line == lines[a]
           v == line.indent
           R == Until(lines, a)
           top == Len(y.indents)
           deeper == Cardinality({j \in DOMAIN y.indents : y.indents[j] > v})
<1>1. ParserOK(y) /\ ParserOK(z) /\ z.at = a /\ a \in Nat /\ a \in DOMAIN lines
  BY PlaceOK DEF Aligned, ParserOK, Content
<1>2. line \in Lines /\ v \in Nat /\ v \in Int
  BY <1>1, LineIs
<1>3. Stacked(y.indents, y.chain, R, lines) /\ Treed(y.nodes, y.root, R, lines)
  BY DEF Aligned
<1>4. /\ y.indents \in Seq(Int) /\ y.chain \in Seq(Int) /\ top \in Nat /\ top > 0
      /\ Len(y.chain) \in Nat /\ y.indents[1] = -1
      /\ \A i, j \in 1..top : i < j => y.indents[i] < y.indents[j]
  BY <1>3 DEF Stacked
<1>5. R = {} => top = 1 /\ y.chain = <<>>
  BY DEF Aligned
<1>6. R # {} => /\ top > 1 /\ y.chain[1] = y.root
                /\ y.indents[top] < v =>
                      Len(y.chain) = top /\ \A i \in R : i <= y.chain[Len(y.chain)]
                /\ ~(y.indents[top] < v) => Len(y.chain) = top - 1
  BY TopIs
<1>7. Last(y.indents) = y.indents[top] /\ y.indents[top] \in Int
  BY <1>4 DEF Last
<1>8. CASE y.indents[top] < v
  <2> DEFINE next == Append(y.indents, v)
             marks == Append(y.marks, line.mark)
  <2>1. z = [y EXCEPT !.indents = next, !.marks = marks]
    BY <1>7, <1>8 DEF Place
  <2>2. /\ Stacked(next, y.chain, R, lines)
        /\ Len(next) = top + 1 /\ next[Len(next)] = v
    <3> HIDE DEF next
    <3>1. \/ R = {} /\ Len(y.indents) = 1
          \/ /\ Len(y.chain) = Len(y.indents) /\ Len(y.indents) > 1
             /\ \A i \in R : i <= y.chain[Len(y.chain)]
      BY <1>5, <1>6, <1>8
    <3> QED
      <4> DEFINE b == y.at
                 indents == y.indents
                 chain == y.chain
                 S == Until(lines, b)
                 u == lines[b].indent
      <4>1. b \in Content(lines) /\ Pushed(next, indents, u) /\ u = lines[b].indent
            /\ S = Until(lines, b)
        BY <1>2, <1>4, Pushes DEF next
      <4>2. Stacked(indents, chain, S, lines) /\ indents[Len(indents)] < u
        BY <1>3, <1>8
      <4>3. \/ S = {} /\ Len(indents) = 1
            \/ /\ Len(chain) = Len(indents) /\ Len(indents) > 1
               /\ \A i \in S : i <= chain[Len(chain)]
        BY <3>1
      <4> HIDE DEF b, indents, chain, S, u
      <4>4. /\ Stacked(next, chain, S, lines)
            /\ Len(next) = Len(indents) + 1 /\ next[Len(next)] = u
        BY <4>1, <4>2, <4>3, Deeper
      <4> QED
        BY <4>4 DEF b, indents, chain, S, u
  <2> HIDE DEF next, marks
  <2>3. /\ z.indents = next /\ z.chain = y.chain /\ z.nodes = y.nodes /\ z.root = y.root
        /\ z.outcome = "reading" /\ z.at = a
    BY <1>1, <2>1 DEF ParserOK
  <2>4. R = {} => Len(next) = 2 /\ z.chain = <<>>
    <3> HIDE DEF top, R
    <3> QED
      BY <1>5, <2>2, <2>3
  <2>5. R # {} => Len(z.chain) = Len(next) - 1 /\ z.chain[1] = z.root
    BY <1>4, <1>6, <1>8, <2>2, <2>3
  <2>6. Len(next) > 1
    BY <1>4, <2>2
  <2> HIDE DEF v
  <2>7. Ready(z, lines)
    BY <1>1, <1>3, <2>2, <2>3, <2>4, <2>5, <2>6, ReadyWhen DEF v
  <2> QED
    BY <1>1, <2>7
<1>9. R # {} \/ y.indents[top] < v
  BY <1>2, <1>4, <1>5
<1>10. CASE y.indents[top] = v
  <2>1. z = y \/ z = Refuse(y)
    BY <1>7, <1>10, <1>2 DEF Place
  <2>2. R # {} /\ ~(y.indents[top] < v)
    BY <1>2, <1>9, <1>10
  <2>3. Ready(y, lines)
    BY <1>1, <1>3, <1>6, <1>10, <2>2, ReadyWhen
  <2>4. Refuse(y).outcome = "refused"
    BY <1>1 DEF Refuse, ParserOK
  <2> QED
    BY <1>1, <2>1, <2>3, <2>4
<1>11. CASE v < y.indents[top]
  <2>1. R # {} /\ ~(y.indents[top] < v) /\ y.indents[top] # v
    BY <1>2, <1>7, <1>9, <1>11
  <2>2. top > 1 /\ Len(y.chain) = top - 1 /\ y.chain[1] = y.root
    BY <1>6, <2>1
  <2>3. deeper \in 0..top /\ \A j \in 1..top : y.indents[j] > v <=> j > top - deeper
    BY <1>2, <1>4, DeeperAre
  <2> DEFINE q == top - deeper
             t == Terminate(y, Last(y.chain))
             less == SubSeq(y.chain, 1, Len(y.chain) - deeper)
             next == SubSeq(y.indents, 1, Len(y.indents) - deeper)
             marks == SubSeq(y.marks, 1, Len(y.marks) - deeper)
             w == [t EXCEPT !.indents = next, !.marks = marks, !.chain = less]
  <2>4. t.indents = y.indents /\ t.marks = y.marks /\ t.chain = y.chain /\ t.at = a
        /\ t.root = y.root /\ t.outcome = y.outcome /\ DOMAIN t = DOMAIN y
        /\ Treed(t.nodes, y.root, R, lines)
    BY <1>1, <1>3, StillTreed
  <2>5. ~(deeper > Len(y.chain)) /\ q \in Nat /\ q >= 1 /\ q <= top
    <3> HIDE DEF deeper, v
    <3>1. ~(y.indents[1] > v)
      BY <1>2, <1>4 DEF v
    <3>2. 1 \in 1..top
      BY <1>4
    <3>3. ~(1 > top - deeper)
      BY <2>3, <3>1, <3>2
    <3>4. ASSUME NEW m \in Nat, NEW n \in 0..m, ~(1 > m - n)
          PROVE  ~(n > m - 1) /\ m - n \in Nat /\ m - n >= 1 /\ m - n <= m
      BY <3>4
    <3> HIDE DEF top
    <3> QED
      BY <1>4, <2>2, <2>3, <3>3, <3>4
  <2>6. z = w \/ z = Refuse(w)
    <3> DEFINE x == [t EXCEPT !.indents = SubSeq(@, 1, Len(@) - deeper),
                              !.marks = SubSeq(@, 1, Len(@) - deeper),
                              !.chain = SubSeq(@, 1, Len(@) - deeper)]
    <3>1. z = x \/ z = Refuse(x)
      BY <1>7, <2>1, <2>5 DEF Place
    <3> HIDE DEF t, deeper
    <3>2. x = w
      BY <2>4
    <3> QED
      BY <3>1, <3>2
  <2>7. w.at = a /\ w.indents = next /\ w.chain = less /\ w.nodes = t.nodes
        /\ w.root = y.root /\ w.outcome = "reading" /\ DOMAIN w = DOMAIN y
    <3> HIDE DEF t, next, marks, less
    <3> QED
      BY <1>1, <2>4 DEF ParserOK
  <2>8. Refuse(w).outcome = "refused"
    BY <1>1, <2>7 DEF Refuse, ParserOK
  <2>9. z = Refuse(w) \/ Last(w.indents) = v
    <3> DEFINE x == [t EXCEPT !.indents = SubSeq(@, 1, Len(@) - deeper),
                              !.marks = SubSeq(@, 1, Len(@) - deeper),
                              !.chain = SubSeq(@, 1, Len(@) - deeper)]
    <3>1. z = Refuse(x) \/ Last(x.indents) = v
      BY <1>7, <2>1, <2>5 DEF Place
    <3> HIDE DEF t, deeper
    <3>2. x = w
      BY <2>4
    <3> QED
      BY <3>1, <3>2
  <2>10. ASSUME z = w, Last(w.indents) = v PROVE Ready(z, lines)
    <3>1. Len(y.indents) - deeper = q /\ Len(y.chain) - deeper = q - 1
      <4> HIDE DEF deeper, top
      <4>1. Len(y.chain) - deeper = top - deeper - 1
        BY <1>4, <2>2, <2>3
      <4> QED
        BY <4>1 DEF top
    <3>2. next = SubSeq(y.indents, 1, q) /\ less = SubSeq(y.chain, 1, q - 1)
      BY <3>1
    <3> HIDE DEF next, less, w, q, t
    <3>3. /\ FirstOf(next, y.indents, q) /\ Len(next) = q
          /\ \A i \in 1..q : next[i] = y.indents[i]
      BY <1>4, <2>5, <3>2, Prefix DEF FirstOf
    <3>4. next[q] = v
      BY <2>7, <2>10, <3>3 DEF Last
    <3>5. q # 1
      BY <1>2, <1>4, <3>3, <3>4
    <3>6. q \in 2..Len(y.indents)
      BY <1>4, <2>5, <3>5
    <3>7. /\ Stacked(next, less, R, lines)
          /\ Len(next) = q /\ Len(less) = q - 1 /\ next[q] = y.indents[q]
          /\ less[1] = y.chain[1]
      <4> DEFINE indents == y.indents
                 chain == y.chain
                 k == q - 1
      <4> HIDE DEF R
      <4>1. /\ Stacked(indents, chain, R, lines) /\ Len(chain) = Len(indents) - 1
            /\ q \in 2..Len(indents) /\ k = q - 1
        BY <1>3, <2>2, <3>6
      <4>2. FirstOf(next, indents, q)
        BY <3>3
      <4>3. FirstOf(less, chain, k)
        <5>1. k \in Nat /\ k <= Len(chain) /\ less = SubSeq(chain, 1, k) /\ chain \in Seq(Int)
          BY <1>4, <2>2, <3>2, <3>6
        <5> HIDE DEF k, chain
        <5> QED
          BY <5>1, Prefix
      <4> HIDE DEF indents, chain, k
      <4>4. /\ Stacked(next, less, R, lines)
            /\ Len(next) = q /\ Len(less) = q - 1 /\ next[q] = indents[q]
            /\ less[1] = chain[1]
        BY <4>1, <4>2, <4>3, Outer
      <4> QED
        BY <4>4 DEF indents, chain
    <3>8. q > 1
      BY <3>6
    <3> HIDE DEF deeper, R
    <3>9. /\ z.at = a /\ z.indents = next /\ z.chain = less /\ z.root = y.root
          /\ z.outcome = "reading" /\ Treed(z.nodes, z.root, R, lines)
      BY <2>4, <2>7, <2>10
    <3>10. Len(z.chain) = Len(z.indents) - 1 /\ z.chain[1] = z.root /\ Len(z.indents) > 1
           /\ z.indents[Len(z.indents)] = v /\ Stacked(z.indents, z.chain, R, lines)
      BY <2>2, <3>4, <3>7, <3>8, <3>9
    <3> HIDE DEF v
    <3> QED
      BY <1>1, <2>1, <3>9, <3>10, ReadyWhen DEF R, v
  <2> HIDE DEF w
  <2> QED
    BY <1>1, <2>6, <2>8, <2>9, <2>10
<1> QED
  BY <1>2, <1>7, <1>8, <1>10, <1>11

(* The parser with the line in the tree. *)
Held(w, lines) ==
    LET read == Until(lines, w.at) \cup {w.at}
        top == Len(w.indents)
    IN /\ ParserOK(w) /\ w.outcome = "reading"
       /\ Stacked(w.indents, w.chain, read, lines) /\ Treed(w.nodes, w.root, read, lines)
       /\ top > 1 /\ w.indents[top] = lines[w.at].indent
       /\ Len(w.chain) = top - 1 /\ w.chain[1] = w.root

(* One more node, under the one it belongs to. *)
LEMMA Planted ==
    ASSUME NEW lines \in Seq(Lines), NEW a \in Content(lines), NEW R, R = Until(lines, a),
           NEW nodes, NEW root \in Int, root < 0, DOMAIN nodes = R \cup {root},
           \A i \in R : IsNodeOf(nodes[i], i, root, lines),
           NEW node, IsNodeOf(node, a, root, lines)
    PROVE  Treed(Put(nodes, a, node), root, R \cup {a}, lines)
<1> DEFINE m == Put(nodes, a, node)
<1>1. a \in Nat /\ a > 0 /\ a \notin R
  <2>1. a \in DOMAIN lines
    BY DEF Content
  <2>2. a \in Nat /\ a > 0
    BY <2>1, LineIs
  <2> QED
    BY <2>2, UntilIs
<1>2. DOMAIN m = (R \cup {a}) \cup {root} /\ m[a] = node
  BY DEF Put
<1>3. \A i \in R : m[i] = nodes[i]
  BY <1>1 DEF Put
<1> HIDE DEF m
<1>4. \A i \in R \cup {a} : IsNodeOf(m[i], i, root, lines)
  BY <1>2, <1>3
<1>5. R \cup {a} # {}
  OBVIOUS
<1> QED
  BY <1>2, <1>4, <1>5 DEF Treed, m

LEMMA HeldWhen ==
    ASSUME NEW lines, NEW w, ParserOK(w), w.outcome = "reading", NEW a, a = w.at,
           NEW read, read = Until(lines, a) \cup {a},
           Treed(w.nodes, w.root, read, lines), Stacked(w.indents, w.chain, read, lines),
           Len(w.indents) > 1, w.indents[Len(w.indents)] = lines[a].indent,
           Len(w.chain) = Len(w.indents) - 1, w.chain[1] = w.root
    PROVE  Held(w, lines)
  BY DEF Held

LEMMA AttachHeld ==
    ASSUME NEW lines \in Seq(Lines), NEW z, Ready(z, lines), NEW a, a = z.at,
           a \in Content(lines), LineOK(lines[a]), NEW w, w = Attach(z, lines[a])
    PROVE  w.at = a /\ ParserOK(w) /\ (w.outcome = "refused" \/ Held(w, lines))
<1> DEFINE line == lines[a]
           R == Until(lines, a)
           top == Len(z.indents)
           parent == IF z.chain = <<>> THEN -a ELSE Last(z.chain)
           r == [NewNode(line, 0) EXCEPT !.key = "root", !.value = ""]
           new == NewNode(line, parent)
<1>1. ParserOK(z) /\ z.outcome = "reading" /\ ParserOK(w) /\ w.at = a /\ a \in Nat /\ a > 0
  BY AttachOK DEF Ready, ParserOK
<1>2. Stacked(z.indents, z.chain, R, lines) /\ Treed(z.nodes, z.root, R, lines)
  BY DEF Ready
<1>3. /\ top > 1 /\ z.indents[top] = line.indent
      /\ R = {} => top = 2 /\ z.chain = <<>>
      /\ R # {} => Len(z.chain) = top - 1 /\ z.chain[1] = z.root
  BY DEF Ready
<1>4. a \in DOMAIN lines /\ z.chain \in Seq(Int) /\ z.indents \in Seq(Int) /\ top \in Nat
  BY <1>2 DEF Content, Stacked
<1>5. Stacked(z.indents, z.chain, R \cup {a}, lines)
  BY <1>2, <1>3, <1>4, Seen
<1>6. top > 2 => Len(z.chain) = top - 1
  BY <1>3
<1>7. /\ top = 2 => Owner(lines, a) = 0
      /\ top > 2 => Owner(lines, a) = z.chain[top - 1] /\ z.chain[top - 1] > 0
  <2> DEFINE indents == z.indents
             chain == z.chain
             S == Until(lines, a)
  <2>1. /\ Stacked(indents, chain, Until(lines, a), lines) /\ top = Len(indents) /\ top > 1
        /\ indents[top] = lines[a].indent /\ (top > 2 => Len(chain) = top - 1)
    BY <1>2, <1>3, <1>6
  <2> HIDE DEF indents, chain, top
  <2>2. /\ top = 2 => Owner(lines, a) = 0
        /\ top > 2 => Owner(lines, a) = chain[top - 1] /\ chain[top - 1] > 0
    BY <2>1, OwnerIs
  <2> QED
    BY <2>2 DEF chain
<1>8. Refuse(z).outcome = "refused"
  BY <1>1 DEF Refuse, ParserOK
<1>9. /\ new.parent = parent /\ new.key = line.key /\ new.value = line.value
      /\ new.mark = line.mark
  BY DEF NewNode
<1>10. CASE R = {}
  <2> DEFINE nodes == Put(z.nodes, -a, r)
             more == Put(nodes, a, new)
             fresh == <<-a>>
             x == [z EXCEPT !.root = -a, !.chain = fresh, !.nodes = more]
  <2>1. z.chain = <<>> /\ top = 2 /\ parent = -a
    BY <1>3, <1>10
  <2>2. w = x \/ w = Refuse(z)
    <3> DEFINE y == [[z EXCEPT !.root = -a, !.chain = fresh, !.nodes = Put(@, -a, r)]
                       EXCEPT !.nodes = Put(@, a, new)]
    <3>1. w = y \/ w = Refuse(z)
      BY <2>1 DEF Attach
    <3>2. y = x
      <4> HIDE DEF r, new, fresh
      <4> QED
        BY <1>1 DEF ParserOK
    <3> QED
      BY <3>1, <3>2
  <2>3. DOMAIN nodes = R \cup {-a}
    BY <1>2, <1>10 DEF Treed, Put
  <2>4. IsNodeOf(new, a, -a, lines)
    BY <1>7, <1>9, <2>1 DEF IsNodeOf
  <2>5. Treed(more, -a, R \cup {a}, lines)
    <3> DEFINE root == -a
    <3>1. root \in Int /\ root < 0 /\ DOMAIN nodes = R \cup {root} /\ IsNodeOf(new, a, root, lines)
      BY <1>1, <2>3, <2>4
    <3> HIDE DEF root, nodes, new
    <3>2. Treed(Put(nodes, a, new), root, R \cup {a}, lines)
      BY <1>10, <3>1, Planted
    <3> QED
      BY <3>2 DEF root
  <2>6. Stacked(z.indents, fresh, R \cup {a}, lines)
    <3>1. fresh \in Seq(Int) /\ Len(fresh) = 1
      BY <1>1
    <3> HIDE DEF fresh
    <3>2. \A j \in 1..(Len(z.indents) - 1) : j = 1
      BY <2>1
    <3>3. \A j \in 2..Len(fresh) : FALSE
      BY <3>1
    <3> QED
      BY <1>5, <3>1, <3>2, <3>3 DEF Stacked
  <2>7. Len(fresh) = 1 /\ fresh[1] = -a
    OBVIOUS
  <2>8. ASSUME w = x PROVE Held(w, lines)
    <3> HIDE DEF more, fresh
    <3>1. /\ w.nodes = more /\ w.chain = fresh /\ w.root = -a /\ w.indents = z.indents
          /\ w.outcome = "reading"
      BY <1>1, <2>8 DEF ParserOK
    <3>2. Len(w.chain) = Len(w.indents) - 1 /\ w.chain[1] = w.root /\ Len(w.indents) > 1
      <4>1. Len(w.indents) = 2 /\ Len(w.chain) = 1 /\ w.chain[1] = w.root
        BY <2>1, <2>7, <3>1, Zenon
      <4> QED
        BY <4>1
    <3> QED
      BY <1>1, <1>3, <2>5, <2>6, <3>1, <3>2, HeldWhen
  <2> HIDE DEF x
  <2> QED
    BY <1>1, <1>8, <2>2, <2>8
<1>11. CASE R # {}
  <2> DEFINE more == Put(z.nodes, a, new)
             x == [z EXCEPT !.nodes = more]
  <2>1. /\ Len(z.chain) = top - 1 /\ z.chain[1] = z.root /\ z.chain # <<>>
        /\ parent = z.chain[top - 1]
    <3>1. Len(z.chain) = top - 1 /\ z.chain[1] = z.root
      BY <1>3, <1>11
    <3>2. z.chain # <<>>
      <4>1. Len(z.chain) # 0
        <5> HIDE DEF top
        <5> QED
          BY <1>3, <1>4, <3>1
      <4> QED
        BY <4>1
    <3>3. parent = z.chain[Len(z.chain)]
      BY <3>2 DEF Last
    <3> QED
      BY <3>1, <3>2, <3>3
  <2>2. w = x \/ w = Refuse(z)
    BY <2>1 DEF Attach
  <2>3. DOMAIN z.nodes = R \cup {z.root} /\ z.root \in Int /\ z.root < 0
        /\ \A i \in R : IsNodeOf(z.nodes[i], i, z.root, lines)
    BY <1>2, <1>11 DEF Treed
  <2>4. new.parent = IF Owner(lines, a) = 0 THEN z.root ELSE Owner(lines, a)
    <3>1. top = 2 \/ top > 2
      <4> HIDE DEF top
      <4> QED
        BY <1>3, <1>4
    <3>2. CASE top = 2
      <4>1. top - 1 = 1
        BY <3>2
      <4> QED
        BY <1>7, <1>9, <2>1, <3>2, <4>1
    <3>3. CASE top > 2
      <4>1. Owner(lines, a) = z.chain[top - 1] /\ Owner(lines, a) # 0
        <5> HIDE DEF top
        <5> QED
          BY <1>7, <3>3
      <4> QED
        BY <1>9, <2>1, <4>1
    <3> QED
      BY <3>1, <3>2, <3>3
  <2>5. IsNodeOf(new, a, z.root, lines)
    BY <1>9, <2>4 DEF IsNodeOf
  <2>6. Treed(more, z.root, R \cup {a}, lines)
    <3> DEFINE nodes == z.nodes
               root == z.root
    <3>1. /\ root \in Int /\ root < 0 /\ DOMAIN nodes = R \cup {root}
          /\ \A i \in R : IsNodeOf(nodes[i], i, root, lines)
          /\ IsNodeOf(new, a, root, lines)
      BY <2>3, <2>5
    <3> HIDE DEF root, nodes, new
    <3>2. Treed(Put(nodes, a, new), root, R \cup {a}, lines)
      BY <3>1, Planted
    <3> QED
      BY <3>2 DEF root, nodes
  <2>7. ASSUME w = x PROVE Held(w, lines)
    <3> HIDE DEF more
    <3>1. /\ w.nodes = more /\ w.chain = z.chain /\ w.root = z.root /\ w.indents = z.indents
          /\ w.outcome = "reading"
      BY <1>1, <2>7 DEF ParserOK
    <3> QED
      BY <1>1, <1>3, <1>5, <2>1, <2>6, <3>1, HeldWhen
  <2> HIDE DEF x
  <2> QED
    BY <1>1, <1>8, <2>2, <2>7
<1> QED
  BY <1>10, <1>11

LEMMA Moved ==
    ASSUME NEW lines \in Seq(Lines), NEW a \in Content(lines), NEW v, ParserOK(v),
           v.at = a + 1, NEW read, read = Until(lines, a) \cup {a},
           NEW top, top = Len(v.indents),
           Stacked(v.indents, v.chain, read, lines), Treed(v.nodes, v.root, read, lines),
           top > 1, v.indents[top] = lines[a].indent,
           Len(v.chain) > 0, v.chain[1] = v.root,
           IF a < Len(lines) /\ lines[a].indent < lines[a + 1].indent
           THEN Len(v.chain) = top /\ v.chain[top] = a
           ELSE Len(v.chain) = top - 1
    PROVE  Aligned(v, lines)
<1>1. a \in DOMAIN lines
  BY DEF Content
<1>2. a \in Nat /\ a + 1 <= Len(lines) + 1
  BY <1>1, LineIs
<1>3. Until(lines, v.at) = read
  BY <1>2, UntilIs
<1>4. \A k \in read : (\A i \in read : i <= k) => k = a
  <2>1. \A k \in Until(lines, a) : k < a /\ k \in Nat
    <3>1. \A k \in Until(lines, a) : k < a /\ k \in DOMAIN lines
      BY <1>2, UntilIs DEF Until
    <3> QED
      BY <3>1, LineIs
  <2>2. \A k \in read : k # a => ~(a <= k)
    BY <1>2, <2>1
  <2> QED
    BY <2>2, Zenon
<1>5. read # {}
  OBVIOUS
<1> QED
  BY <1>2, <1>3, <1>4, <1>5 DEF Aligned

LEMMA DescendAligned ==
    ASSUME NEW lines \in Seq(Lines), NEW w, Held(w, lines), NEW a, a = w.at,
           a \in Content(lines), NEW u, u = Descend(w, lines), NEW v, v = Advance(u),
           ParserOK(v)
    PROVE  v.outcome = "refused" \/ (v.outcome = "reading" /\ Aligned(v, lines))
<1> DEFINE R == Until(lines, a)
           read == R \cup {a}
           top == Len(w.indents)
<1>1. ParserOK(w) /\ w.outcome = "reading" /\ a \in DOMAIN lines
  BY DEF Held, Content
<1>2. /\ Stacked(w.indents, w.chain, read, lines) /\ Treed(w.nodes, w.root, read, lines)
      /\ top > 1 /\ w.indents[top] = lines[a].indent
      /\ Len(w.chain) = top - 1 /\ w.chain[1] = w.root
  BY DEF Held
<1>3. /\ top \in Nat /\ w.chain \in Seq(Int) /\ Len(w.chain) \in Nat /\ a \in Nat
  <2>1. a \in Nat
    BY <1>1, LineIs
  <2>2. w.indents \in Seq(Int) /\ w.chain \in Seq(Int)
    BY <1>2 DEF Stacked
  <2> QED
    BY <2>1, <2>2
<1>4. CASE ~(a < Len(lines) /\ lines[a].indent < lines[a + 1].indent)
  <2>1. u = w
    BY <1>4 DEF Descend
  <2>2. v = [w EXCEPT !.at = @ + 1]
    BY <1>1, <2>1 DEF Advance, Reading
  <2>3. /\ v.at = a + 1 /\ v.indents = w.indents /\ v.chain = w.chain /\ v.nodes = w.nodes
        /\ v.root = w.root /\ v.outcome = "reading"
    BY <1>1, <2>2 DEF ParserOK
  <2>4. Len(v.chain) > 0 /\ Len(v.chain) = top - 1 /\ top = Len(v.indents)
    BY <1>2, <1>3, <2>3
  <2> HIDE DEF top, read
  <2>5. Aligned(v, lines)
    BY <1>2, <1>4, <2>3, <2>4, Moved DEF read
  <2> QED
    BY <2>3, <2>5
<1>5. CASE a < Len(lines) /\ lines[a].indent < lines[a + 1].indent
  <2> DEFINE chain == w.chain
             indents == w.indents
             more == Append(chain, a)
             x == [w EXCEPT !.chain = more]
  <2>1. u = x \/ u = Refuse(w)
    BY <1>5 DEF Descend
  <2>2. CASE u = Refuse(w)
    BY <1>1, <2>2 DEF Refuse, Advance, Reading, ParserOK
  <2>3. CASE u = x
    <3>1. /\ Stacked(indents, more, read, lines) /\ Len(more) = top
          /\ more[top] = a /\ more[1] = chain[1]
      <4>1. /\ Stacked(indents, chain, read, lines) /\ a \in read /\ a \in DOMAIN lines
            /\ Len(indents) > 1 /\ Len(chain) = Len(indents) - 1
            /\ indents[Len(indents)] = lines[a].indent
        BY <1>1, <1>2
      <4>3. chain \in Seq(Int) /\ a \in Int
        BY <1>3
      <4> HIDE DEF indents, chain, read
      <4>4. Pushed(more, chain, a)
        BY <4>3, Pushes
      <4> HIDE DEF more
      <4>2. /\ Stacked(indents, more, read, lines) /\ Len(more) = Len(indents)
            /\ more[Len(indents)] = a /\ more[1] = chain[1]
        BY <4>1, <4>4, Opened
      <4> QED
        BY <4>2 DEF indents
    <3> HIDE DEF more
    <3>2. x.outcome = "reading" /\ DOMAIN x = DOMAIN w /\ x.at = a /\ x.indents = w.indents
          /\ x.chain = more /\ x.nodes = w.nodes /\ x.root = w.root
      BY <1>1 DEF ParserOK
    <3> HIDE DEF x
    <3>3. v = [x EXCEPT !.at = @ + 1]
      BY <2>3, <3>2 DEF Advance, Reading
    <3>4. /\ v.at = a + 1 /\ v.indents = w.indents /\ v.chain = more /\ v.nodes = w.nodes
          /\ v.root = w.root /\ v.outcome = "reading"
      BY <1>1, <3>2, <3>3 DEF ParserOK
    <3>5. Len(v.chain) > 0 /\ Len(v.chain) = top /\ top = Len(v.indents) /\ v.chain[top] = a
          /\ v.chain[1] = v.root
      BY <1>2, <3>1, <3>4
    <3>6. Stacked(v.indents, v.chain, read, lines) /\ Treed(v.nodes, v.root, read, lines)
      BY <1>2, <3>1, <3>4
    <3> HIDE DEF top, read
    <3>7. Aligned(v, lines)
      BY <1>2, <1>5, <3>4, <3>5, <3>6, Moved DEF read
    <3> QED
      BY <3>4, <3>7
  <2> QED
    BY <2>1, <2>2, <2>3
<1> QED
  BY <1>4, <1>5

(* One turn of the loop keeps the parser aligned or refuses the file. *)
LEMMA ReadLineAligned ==
    ASSUME NEW lines \in Seq(Lines), CommentsInLine(lines),
           \A i \in DOMAIN lines : LineOK(lines[i]),
           NEW y, Aligned(y, lines), y.outcome = "reading", y.at <= Len(lines),
           NEW v, v = ReadLine(y, lines)
    PROVE  v.outcome = "refused" \/ (v.outcome = "reading" /\ Aligned(v, lines))
<1> DEFINE a == y.at
           line == lines[a]
           placed == Place(y, line)
           attached == IF Reading(placed) THEN Attach(placed, line) ELSE placed
           opened == IF Reading(attached) THEN Descend(attached, lines) ELSE attached
<1>1. ParserOK(y) /\ a \in Nat /\ a > 0 /\ Len(lines) \in Nat
  BY DEF Aligned, ParserOK
<1>2. a \in DOMAIN lines
  BY <1>1
<1>3. ParserOK(v)
  BY <1>1, <1>2, ReadLineOK
<1>4. v = IF line.mark = "comment" THEN Advance(y) ELSE Advance(opened)
  BY DEF ReadLine
<1>5. CASE line.mark = "comment"
  <2>1. v = [y EXCEPT !.at = @ + 1]
    BY <1>4, <1>5 DEF Advance, Reading
  <2>2. /\ v.at = a + 1 /\ v.indents = y.indents /\ v.chain = y.chain /\ v.nodes = y.nodes
        /\ v.root = y.root /\ v.outcome = "reading"
    BY <1>1, <2>1 DEF ParserOK
  <2>3. Until(lines, v.at) = Until(lines, a)
    BY <1>1, <1>5, <2>2, UntilIs DEF Content
  <2>4. v.at <= Len(lines) + 1
    BY <1>1, <2>2
  <2>5. Aligned(v, lines)
    BY <1>3, <2>2, <2>3, <2>4 DEF Aligned
  <2> QED
    BY <2>2, <2>5
<1>6. CASE line.mark # "comment"
  <2>1. a \in Content(lines) /\ v = Advance(opened)
    BY <1>2, <1>4, <1>6 DEF Content
  <2>2. placed.at = a /\ ParserOK(placed) /\ (placed.outcome = "refused" \/ Ready(placed, lines))
    BY <2>1, PlaceReady
  <2>3. CASE placed.outcome = "refused"
    BY <2>1, <2>3 DEF Advance, Reading
  <2>4. CASE Ready(placed, lines)
    <3> HIDE DEF placed
    <3>1. attached = Attach(placed, line)
      BY <2>4 DEF Ready, Reading
    <3>2. /\ attached.at = a /\ ParserOK(attached)
          /\ attached.outcome = "refused" \/ Held(attached, lines)
      BY <1>2, <2>1, <2>2, <2>4, <3>1, AttachHeld
    <3> HIDE DEF attached
    <3>3. CASE attached.outcome = "refused"
      BY <2>1, <3>3 DEF Advance, Reading
    <3>4. CASE Held(attached, lines)
      <4>1. opened = Descend(attached, lines)
        BY <3>4 DEF Held, Reading
      <4> QED
        BY <1>3, <2>1, <3>2, <3>4, <4>1, DescendAligned
    <3> QED
      BY <3>2, <3>3, <3>4
  <2> QED
    BY <2>2, <2>3, <2>4
<1> QED
  BY <1>5, <1>6

LEMMA StartAligned ==
    ASSUME NEW lines \in Seq(Lines)
    PROVE  Aligned(Start, lines)
<1>1. Until(lines, 1) = {}
  <2>1. \A i \in DOMAIN lines : i \in Nat /\ i > 0
    BY LineIs
  <2> QED
    BY <2>1 DEF Until, Content
<1>2. /\ Start.at = 1 /\ Start.indents = <<-1>> /\ Start.chain = <<>> /\ Start.nodes = <<>>
      /\ Start.root = 0
  BY DEF Start
<1>3. Stacked(<<-1>>, <<>>, {}, lines)
  BY DEF Stacked
<1>4. Treed(<<>>, 0, {}, lines)
  BY DEF Treed
<1>5. Len(lines) \in Nat /\ Len(<<-1>>) = 1
  OBVIOUS
<1> DEFINE y == Start
           none == <<>>
<1>6. y.chain = none /\ Stacked(y.indents, y.chain, {}, lines) /\ Treed(y.nodes, y.root, {}, lines)
      /\ Len(y.indents) = 1 /\ y.at <= Len(lines) + 1 /\ Until(lines, y.at) = {} /\ ParserOK(y)
  BY <1>1, <1>2, <1>3, <1>4, <1>5, StartOK
<1> HIDE DEF y, none
<1>7. Aligned(y, lines)
  BY <1>6 DEF Aligned, none
<1> QED
  BY <1>7 DEF y

(* The owner of a line is a line before it. *)
LEMMA OwnerBefore ==
    ASSUME NEW lines \in Seq(Lines), NEW i \in Content(lines), Owner(lines, i) # 0
    PROVE  Owner(lines, i) \in Content(lines) /\ Owner(lines, i) < i
<1> DEFINE R == Until(lines, i)
           above == {j \in Content(lines) : j < i /\ lines[j].indent < lines[i].indent}
           B == {i - j : j \in above}
<1>1. i \in DOMAIN lines /\ above \subseteq Content(lines) /\ above \subseteq DOMAIN lines
  BY DEF Content
<1>2. i \in Nat
  BY <1>1, LineIs
<1>3. \A j \in above : j \in Nat /\ j < i
  BY <1>1, LineIs
<1>4. Owner(lines, i) = IF above = {} THEN 0 ELSE CHOOSE j \in above : \A k \in above : k <= j
  BY DEF Owner
<1> HIDE DEF above
<1>5. above # {}
  BY <1>4
<1>6. B \in SUBSET Nat /\ B # {}
  BY <1>2, <1>3, <1>5
<1>7. PICK m \in B : \A j \in B : <<j, m>> \notin OpToRel(<, Nat)
  BY <1>6, NatLessThanWellFounded, WFMin, Zenon
<1>8. \A j \in B : ~(j < m)
  BY <1>6, <1>7, Zenon DEF OpToRel
<1>9. PICK k \in above : m = i - k
  BY <1>7
<1>10. \A j \in above : ~(i - j < m)
  BY <1>8
<1>11. \A j \in above : j <= k
  BY <1>2, <1>3, <1>9, <1>10
<1>12. Owner(lines, i) \in above
  BY <1>4, <1>5, <1>9, <1>11, Zenon
<1> QED
  BY <1>1, <1>3, <1>12

(* Whoever is in the tree is reached from its root. *)
LEMMA AllReached ==
    ASSUME NEW lines \in Seq(Lines), NEW y,
           Treed(y.nodes, y.root, Content(lines), lines), Content(lines) # {}
    PROVE  Reached(y) = DOMAIN y.nodes
<1> DEFINE D == DOMAIN y.nodes
           root == y.root
           C == Content(lines)
           Above(n) == y.nodes[n].parent
           Solves(g) == g = [n \in D |-> n = root \/ (n > 0 /\ g[Above(n)])]
           all == [n \in D |-> TRUE]
<1>1. D = C \cup {root} /\ root \in Int /\ root < 0
  BY DEF Treed
<1>2. \A n \in C : n \in Nat /\ n > 0 /\ n \in D
  <2>1. \A n \in C : n \in DOMAIN lines
    BY DEF Content
  <2> QED
    BY <1>1, <2>1, LineIs
<1>3. ASSUME NEW n \in C PROVE Above(n) = root \/ (Above(n) \in C /\ Above(n) < n)
  <2>1. Above(n) = IF Owner(lines, n) = 0 THEN root ELSE Owner(lines, n)
    BY DEF Treed, IsNodeOf
  <2> QED
    BY <2>1, OwnerBefore
<1> HIDE DEF C, D, Above, root
<1>4. Solves(all)
  <2>1. ASSUME NEW n \in D PROVE (n = root \/ (n > 0 /\ all[Above(n)])) = TRUE
    <3>1. CASE n = root
      BY <3>1
    <3>2. CASE n # root
      <4>1. n \in C
        BY <1>1, <3>2
      <4>2. Above(n) \in D /\ n > 0
        BY <1>1, <1>2, <1>3, <4>1
      <4> QED
        BY <4>2
    <3> QED
      BY <3>1, <3>2
  <2>2. [n \in D |-> n = root \/ (n > 0 /\ all[Above(n)])] = [n \in D |-> TRUE]
    BY <2>1, Zenon
  <2> QED
    BY <2>2
<1>5. ASSUME NEW g, Solves(g) PROVE \A n \in D : g[n]
  <2>1. \A n \in D : g[n] = (n = root \/ (n > 0 /\ g[Above(n)]))
    BY <1>5, Zenon
  <2>2. g[root]
    <3>1. root \in D
      BY <1>1
    <3> QED
      BY <2>1, <3>1
  <2> DEFINE bad == {n \in C : ~g[n]}
  <2>3. ASSUME bad # {} PROVE FALSE
    <3>1. bad \in SUBSET Nat /\ bad # {}
      BY <1>2, <2>3
    <3>2. PICK m \in bad : \A j \in bad : <<j, m>> \notin OpToRel(<, Nat)
      BY <3>1, NatLessThanWellFounded, WFMin, Zenon
    <3>3. \A j \in bad : ~(j < m)
      BY <3>1, <3>2, Zenon DEF OpToRel
    <3>4. m \in C /\ ~g[m] /\ m \in D /\ m > 0
      BY <1>2
    <3>5. ~g[Above(m)]
      BY <2>1, <3>4, Zenon
    <3>6. Above(m) \in C /\ Above(m) < m
      BY <1>3, <2>2, <3>4, <3>5
    <3>7. Above(m) \in bad
      BY <3>5, <3>6
    <3> QED
      BY <3>3, <3>6, <3>7
  <2>4. \A n \in C : g[n]
    BY <2>3
  <2> QED
    BY <1>1, <2>2, <2>4
<1> DEFINE in == CHOOSE g : Solves(g)
<1>6. Solves(in)
  BY <1>4, Zenon
<1>7. \A n \in D : in[n]
  <2> HIDE DEF in
  <2> QED
    BY <1>5, <1>6
<1>8. Reached(y) = {n \in D : in[n]}
  BY Zenon DEF Reached, D, Above, root
<1> HIDE DEF in
<1> QED
  BY <1>7, <1>8 DEF D

LEMMA TreeIs ==
    ASSUME NEW lines \in Seq(Lines), NEW y,
           Treed(y.nodes, y.root, Content(lines), lines), Content(lines) # {}
    PROVE  IsTreeOf(y, lines)
<1>1. Reached(y) = DOMAIN y.nodes
  BY AllReached
<1>2. /\ DOMAIN y.nodes = Content(lines) \cup {y.root}
      /\ \A i \in Content(lines) : IsNodeOf(y.nodes[i], i, y.root, lines)
  BY DEF Treed
<1> QED
  BY <1>1, <1>2 DEF IsTreeOf, IsNodeOf

(* The end of the file. *)
LEMMA EndAligned ==
    ASSUME NEW lines \in Seq(Lines), NEW y, Aligned(y, lines), ~(y.at <= Len(lines)),
           NEW v, v = EndOfFile(y)
    PROVE  v.outcome = "refused" \/ (v.outcome = "accepted" /\ IsTreeOf(v, lines))
<1>1. ParserOK(y) /\ y.at \in Nat /\ y.at <= Len(lines) + 1 /\ Len(lines) \in Nat
  BY DEF Aligned, ParserOK
<1>2. Until(lines, y.at) = Content(lines)
  <2>1. \A i \in Content(lines) : i \in DOMAIN lines
    BY DEF Content
  <2>2. \A i \in Content(lines) : i \in Nat /\ i <= Len(lines)
    BY <2>1, LineIs
  <2> QED
    BY <1>1, <2>2 DEF Until
<1>3. Treed(y.nodes, y.root, Content(lines), lines)
  BY <1>2 DEF Aligned
<1>4. CASE y.root # 0 /\ IsValid(y)
  <2>1. v = [y EXCEPT !.outcome = "accepted"]
    BY <1>4 DEF EndOfFile
  <2>2. v.nodes = y.nodes /\ v.root = y.root /\ v.outcome = "accepted"
    BY <1>1, <2>1 DEF ParserOK
  <2>3. Content(lines) # {}
    BY <1>3, <1>4 DEF Treed
  <2> QED
    BY <1>3, <2>2, <2>3, TreeIs
<1>5. CASE ~(y.root # 0 /\ IsValid(y))
  BY <1>1, <1>5 DEF EndOfFile, Refuse, ParserOK
<1> QED
  BY <1>4, <1>5

(* A file is read as its indentation says so far, if its comments do not   *)
(* matter.                                                                 *)
ReadSoFar ==
    /\ phase = "reading" => parser.outcome = "reading" /\ Aligned(parser, file)
    /\ phase # "fault"
    /\ parser.outcome = "accepted" => IsTreeOf(parser, file)

TInv == CInv /\ (CommentsInLine(file) => ReadSoFar)

LEMMA TreeStep ==
    ASSUME TInv, [Next]_vars
    PROVE  TInv'
<1>1. CInv' /\ CInv
  BY ConfigStep DEF TInv
<1>2. ASSUME UNCHANGED <<file, parser>>, phase' = "reading" => phase = "reading",
             phase' = "fault" => phase = "fault"
      PROVE  TInv'
  BY <1>1, <1>2 DEF TInv, ReadSoFar
<1>3. CASE Read
  <2>1. /\ phase = "reading" /\ file' = file
        /\ parser' = IF parser.at <= Len(file) THEN ReadLine(parser, file)
                     ELSE EndOfFile(parser)
        /\ phase' = CASE parser'.outcome = "reading" -> "reading"
                      [] parser'.outcome = "accepted" -> "building"
                      [] parser'.outcome = "refused" -> "failed"
                      [] OTHER -> "fault"
    BY <1>3 DEF Read
  <2> SUFFICES ASSUME CommentsInLine(file) PROVE ReadSoFar'
    BY <1>1, <2>1 DEF TInv
  <2>2. parser.outcome = "reading" /\ Aligned(parser, file)
    BY <2>1 DEF TInv, ReadSoFar
  <2>3. file \in Seq(Lines) /\ \A i \in DOMAIN file : LineOK(file[i])
    <3>1. file \in Files
      BY <1>1 DEF CInv
    <3>2. file \in Seq(Lines)
      BY <3>1, StartupAssumption
    <3>3. \A i \in DOMAIN file : file[i] \in Lines
      BY <3>2, LineIs
    <3> QED
      BY <3>1, <3>2, <3>3, StartupAssumption DEF LineOK
  <2>4. CASE parser.at <= Len(file)
    <3>1. parser' = ReadLine(parser, file)
      BY <2>1, <2>4
    <3>2. \/ parser'.outcome = "refused"
          \/ parser'.outcome = "reading" /\ Aligned(parser', file)
      BY <2>2, <2>3, <2>4, <3>1, ReadLineAligned
    <3> QED
      BY <2>1, <3>2 DEF ReadSoFar
  <2>5. CASE ~(parser.at <= Len(file))
    <3>1. parser' = EndOfFile(parser)
      BY <2>1, <2>5
    <3>2. \/ parser'.outcome = "refused"
          \/ parser'.outcome = "accepted" /\ IsTreeOf(parser', file)
      BY <2>2, <2>3, <2>5, <3>1, EndAligned
    <3> QED
      BY <2>1, <3>2 DEF ReadSoFar
  <2> QED
    BY <2>4, <2>5
<1>4. CASE BuildConfig
  BY <1>2, <1>4 DEF BuildConfig
<1>5. CASE Resolve
  BY <1>2, <1>5 DEF Resolve
<1>6. CASE SetupLoggers
  BY <1>2, <1>6 DEF SetupLoggers
<1>7. CASE Validate
  BY <1>2, <1>7 DEF Validate
<1>8. CASE OpenListener
  <2>1. UNCHANGED <<file, parser>> /\ phase' \in {"failed", "running", "opening"}
    BY <1>8 DEF OpenListener
  <2> QED
    BY <1>2, <2>1
<1>9. CASE Stop
  BY <1>2, <1>9 DEF Stop
<1>10. CASE UNCHANGED vars
  BY <1>2, <1>10 DEF vars
<1> QED
  BY <1>3, <1>4, <1>5, <1>6, <1>7, <1>8, <1>9, <1>10 DEF Next

(* Every file whose comments and empty lines stand where they do not       *)
(* matter becomes the tree its indentation says, or is refused: the three  *)
(* stacks, which are popped together and pushed at different times, stay   *)
(* in step and never run empty.                                            *)
THEOREM FilesAreReadAsIndented == Spec => [](CommentsInLine(file) => NeverMisread)
<1>1. Init => TInv
  <2> SUFFICES ASSUME Init PROVE TInv
    OBVIOUS
  <2>1. file \in Files /\ parser = Start /\ phase = "reading" /\ configs = <<>>
    BY DEF Init
  <2>2. CInv
    <3>1. DOMAIN configs = {} /\ configs \in Seq(ToSet(configs))
      BY <2>1
    <3>2. BuiltWell
      BY <3>1 DEF BuiltWell
    <3> QED
      BY <2>1, <3>2, StartOK DEF CInv
  <2>3. Aligned(parser, file)
    BY <2>1, StartupAssumption, StartAligned
  <2>4. parser.outcome = "reading"
    BY <2>1 DEF Start
  <2> QED
    BY <2>1, <2>2, <2>3, <2>4 DEF TInv, ReadSoFar
<1>2. TInv /\ [Next]_vars => TInv'
  BY TreeStep
<1>3. TInv => (CommentsInLine(file) => NeverMisread)
  BY DEF TInv, ReadSoFar, NeverMisread
<1> QED
  BY <1>1, <1>2, <1>3, PTL DEF Spec
=============================================================================
