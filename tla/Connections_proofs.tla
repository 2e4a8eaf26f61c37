------------------------ MODULE Connections_proofs ------------------------
(***************************************************************************)
(* The tables of the server agree whatever the loop, the peers and the CGI *)
(* processes do, for any number of connections and descriptors.            *)
(***************************************************************************)
EXTENDS Connections, TLAPS, FiniteSetTheorems, WellFoundedInduction

IsTables(s) ==
    DOMAIN s = {"open", "peer", "interest", "table", "events", "clients",
                "live", "armed", "workers", "faults"}
Workers(s) == {s.workers[fd] : fd \in DOMAIN s.workers}

Types(s) ==
    /\ IsTables(s)
    /\ s.open \subseteq Fds
    /\ s.peer \in [s.open -> PeerStates]
    /\ s.interest \in [DOMAIN s.interest -> SUBSET {"IN", "OUT"}]
    /\ s.table \in [DOMAIN s.table -> BOOLEAN]
    /\ s.clients \in [DOMAIN s.clients -> Ptrs]
    /\ s.live \in [DOMAIN s.live -> [fd : Fds, out : BOOLEAN, close : BOOLEAN]]
    /\ DOMAIN s.live \subseteq Ptrs
    /\ s.armed \subseteq Ptrs
    /\ s.workers \in [DOMAIN s.workers -> Fds]

(* What is open is in every table and is the listener, a client or the     *)
(* completion descriptor of a worker. *)
Domains(s) ==
    /\ DOMAIN s.interest = s.open
    /\ DOMAIN s.table = s.open
    /\ DOMAIN s.events = s.open
    /\ Listener \in s.open
    /\ \A fd \in s.open : fd = Listener \/ fd \in DOMAIN s.clients \/ fd \in Workers(s)
Listens(s) ==
    /\ Listener \notin DOMAIN s.clients
    /\ s.table[Listener] = FALSE
    /\ s.events[Listener] = <<Event("accept", "none")>>
    /\ s.peer[Listener] = "idle"

(* A client descriptor, the Client it belongs to, and the events of both. *)
ClientOf(s, fd) ==
    /\ fd \in s.open
    /\ s.table[fd] = TRUE
    /\ s.clients[fd] \in DOMAIN s.live
    /\ s.live[s.clients[fd]].fd = fd
    /\ s.events[fd] = <<Event("read", s.clients[fd]), Event("write", s.clients[fd])>>
Watched(s, fd) ==
    (IF s.live[s.clients[fd]].out THEN "OUT" ELSE "IN") \in s.interest[fd]
ObjectOf(s, c) ==
    /\ s.live[c].fd \in DOMAIN s.clients
    /\ s.clients[s.live[c].fd] = c

(* The worker of a client: its completion pair is its own, waits for its   *)
(* byte, and its client has sent nothing since.                            *)
WorkerOf(s, fd) ==
    /\ fd \in DOMAIN s.clients
    /\ s.workers[fd] \in s.open
    /\ s.workers[fd] \notin DOMAIN s.clients
    /\ s.workers[fd] # Listener
    /\ s.table[s.workers[fd]] = FALSE
    /\ s.events[s.workers[fd]] = <<Event("cgiEnd", s.clients[fd])>>
    /\ s.peer[s.workers[fd]] \in {"idle", "data"}
    /\ s.interest[s.workers[fd]] = {"IN"}
    /\ s.peer[fd] \notin HasData
WorkersApart(s) ==
    \A f, g \in DOMAIN s.workers : s.workers[f] = s.workers[g] => f = g

Timed(s, due) ==
    /\ DOMAIN s.live = s.armed \cup due
    /\ s.armed \cap due = {}

Linked(s) ==
    /\ Types(s)
    /\ Domains(s)
    /\ Listens(s)
    /\ \A fd \in DOMAIN s.clients : ClientOf(s, fd)
    /\ \A c \in DOMAIN s.live : ObjectOf(s, c)
    /\ \A fd \in DOMAIN s.workers : WorkerOf(s, fd)
    /\ WorkersApart(s)
Good(s, due) ==
    /\ Linked(s)
    /\ \A fd \in DOMAIN s.clients : Watched(s, fd)
    /\ Timed(s, due)

(* The connection of fd has nothing to send and no worker. *)
Quiet(s, fd) ==
    /\ s.live[s.clients[fd]].out = FALSE
    /\ fd \notin DOMAIN s.workers

EventOK(s, e) ==
    /\ e = [fd |-> e.fd, mask |-> e.mask, stale |-> e.stale]
    /\ e.stale \in BOOLEAN
    /\ e.fd \in Fds
    /\ "ERR" \in e.mask => "HUP" \in e.mask
    /\ e.fd \in Workers(s) => s.peer[e.fd] = "data"
    /\ e.stale /\ e.fd \in DOMAIN s.clients => Quiet(s, e.fd)
(* An event of a worker finds its byte there, and an event that was meant  *)
(* for another owner of the number finds a connection that has not begun.  *)
BatchOK(s, b) ==
    /\ \A e \in b : EventOK(s, e)
    /\ \A e, f \in b : e.fd = f.fd => e = f

NoFaults(s) == s.faults \subseteq {"freed"}
IInv ==
    /\ Types(srv)
    /\ srv.faults \subseteq {"freed", "sigpipe"}
    /\ backlog \in 0..Cardinality(Ptrs)
    /\ pc \in {"wait", "check", "callbacks", "events", "down"}
    /\ expired \subseteq Ptrs
    /\ Running => Good(srv, expired) /\ BatchOK(srv, batch) /\ NoFaults(srv)
    /\ pc = "wait" => batch = {}
    /\ pc \in {"wait", "check", "events"} => expired = {}

-----------------------------------------------------------------------------
(* Maps. *)
LEMMA ErasedIs ==
    ASSUME NEW f, NEW A, NEW g, g = [x \in DOMAIN g |-> g[x]],
           DOMAIN g = DOMAIN f \ A, \A x \in DOMAIN g : g[x] = f[x]
    PROVE  g = Erase(f, A)
<1>1. Erase(f, A) = [x \in DOMAIN f \ A |-> f[x]]
  <2>1. DOMAIN f \ (DOMAIN f \cap A) = DOMAIN f \ A
    OBVIOUS
  <2> QED BY DEF Erase, Restrict
<1>2. [x \in DOMAIN g |-> g[x]] = [x \in DOMAIN f \ A |-> f[x]]
  OBVIOUS
<1> QED BY <1>1, <1>2, Zenon

LEMMA ErasedTwice ==
    ASSUME NEW f, NEW A, NEW B
    PROVE  Erase(Erase(f, A), B) = Erase(f, A \cup B)
  BY DEF Erase, Restrict

LEMMA PutErased ==
    ASSUME NEW f, NEW k, NEW v, k \notin DOMAIN f, f = [x \in DOMAIN f |-> f[x]]
    PROVE  Erase(Put(f, k, v), {k}) = f
<1>1. (DOMAIN f \cup {k}) \ {k} = DOMAIN f
  OBVIOUS
<1>2. Erase(Put(f, k, v), {k}) = [x \in DOMAIN f |-> f[x]]
  BY <1>1 DEF Erase, Put, Restrict
<1> QED BY <1>2

LEMMA MinOf ==
    ASSUME NEW S \in SUBSET Nat, S # {}
    PROVE  Min(S) \in S
<1>1. PICK x \in S : \A y \in S : ~(<<y, x>> \in OpToRel(<, Nat))
  BY WFMin, NatLessThanWellFounded, Zenon
<1>2. \A y \in S : x <= y
  <2>1. TAKE y \in S
  <2>2. ~(y < x)
    BY <1>1, Zenon DEF OpToRel
  <2>3. QED BY <2>2
<1>3. QED BY <1>2 DEF Min

-----------------------------------------------------------------------------
(* Descriptors that leave every table of descriptors. *)
Without(s, t, gone) ==
    /\ IsTables(t)
    /\ t.open = s.open \ gone
    /\ t.peer = Erase(s.peer, gone)
    /\ t.interest = Erase(s.interest, gone)
    /\ t.table = Erase(s.table, gone)
    /\ t.events = Erase(s.events, gone)
    /\ t.faults = s.faults
SameOwners(s, t) ==
    /\ t.clients = s.clients
    /\ t.live = s.live
    /\ t.armed = s.armed
    /\ t.workers = s.workers

(* Taking a descriptor out of epoll and the event tables and closing it. *)
LEMMA Shut ==
    ASSUME NEW s, IsTables(s), NEW fd, NEW t,
           t = CloseFd(ForgetFd(Unregister(s, fd), fd), fd)
    PROVE  Without(s, t, {fd}) /\ SameOwners(s, t)
<1>1. Erase(Erase(s.interest, {fd}), {fd}) = Erase(s.interest, {fd})
  BY ErasedTwice
<1> QED
  BY <1>1 DEF IsTables, Without, SameOwners, CloseFd, ForgetFd, ClearEvents, Unregister

(* The same in the order of CgiEndEvent. *)
LEMMA ShutCgiEnd ==
    ASSUME NEW s, IsTables(s), NEW fd, NEW t,
           t = ForgetFd(CloseFd(Unregister(s, fd), fd), fd)
    PROVE  Without(s, t, {fd}) /\ SameOwners(s, t)
<1>1. Erase(Erase(s.interest, {fd}), {fd}) = Erase(s.interest, {fd})
  BY ErasedTwice
<1> QED
  BY <1>1 DEF IsTables, Without, SameOwners, CloseFd, ForgetFd, ClearEvents, Unregister

LEMMA WithoutTwice ==
    ASSUME NEW s, NEW a, NEW t, NEW A, NEW B, Without(s, a, A), Without(a, t, B)
    PROVE  Without(s, t, A \cup B)
<1>1. (s.open \ A) \ B = s.open \ (A \cup B)
  OBVIOUS
<1> QED
  BY <1>1, ErasedTwice DEF Without

(* A client is gone with its worker. *)
Leaving(s, fd) == {fd} \cup (IF fd \in DOMAIN s.workers THEN {s.workers[fd]} ELSE {})
Closed(s, t, fd) ==
    /\ Without(s, t, Leaving(s, fd))
    /\ t.clients = Erase(s.clients, {fd})
    /\ t.live = Erase(s.live, {s.clients[fd]})
    /\ t.armed = s.armed \ {s.clients[fd]}
    /\ t.workers = Erase(s.workers, {fd})

LEMMA AbortClientWithout ==
    ASSUME NEW s, IsTables(s), NEW fd, NEW t, t = AbortClient(s, fd),
           fd \in DOMAIN s.workers
    PROVE  /\ Without(s, t, {s.workers[fd]})
           /\ t.clients = s.clients /\ t.live = s.live /\ t.armed = s.armed
           /\ t.workers = Erase(s.workers, {fd})
<1> DEFINE w == s.workers[fd]
           a == CloseFd(ForgetFd(Unregister(s, w), w), w)
<1>1. Without(s, a, {w}) /\ SameOwners(s, a)
  BY Shut
<1>2. t = [a EXCEPT !.workers = Erase(@, {fd})]
  BY DEF AbortClient
<1> HIDE DEF a
<1> QED
  BY <1>1, <1>2 DEF Without, SameOwners, IsTables

LEMMA CloseConnectionCloses ==
    ASSUME NEW s, IsTables(s), NEW fd \in DOMAIN s.clients, NEW t,
           t = CloseConnection(s, fd), s.workers = [x \in DOMAIN s.workers |-> s.workers[x]]
    PROVE  Closed(s, t, fd)
<1> DEFINE b == AbortClient(s, fd)
           a == CloseFd(ForgetFd(Unregister(b, fd), fd), fd)
<1>1. /\ b.clients = s.clients /\ b.live = s.live /\ b.armed = s.armed
      /\ b.workers = Erase(s.workers, {fd})
      /\ IsTables(b)
  <2>1. CASE fd \in DOMAIN s.workers
    <3>1. /\ Without(s, b, {s.workers[fd]})
          /\ b.clients = s.clients /\ b.live = s.live /\ b.armed = s.armed
          /\ b.workers = Erase(s.workers, {fd})
      BY <2>1, AbortClientWithout
    <3> QED BY <3>1 DEF Without
  <2>2. CASE fd \notin DOMAIN s.workers
    <3>1. b = s
      BY <2>2 DEF AbortClient
    <3>2. s.workers = Erase(s.workers, {fd})
      BY <2>2, ErasedIs
    <3> QED BY <3>1, <3>2
  <2> QED BY <2>1, <2>2
<1>2. Without(b, a, {fd}) /\ SameOwners(b, a)
  BY <1>1, Shut
<1>3. Without(s, a, Leaving(s, fd))
  <2>1. CASE fd \in DOMAIN s.workers
    <3>1. Without(s, b, {s.workers[fd]})
      BY <2>1, AbortClientWithout
    <3>2. Without(s, a, {s.workers[fd]} \cup {fd})
      BY <3>1, <1>2, WithoutTwice
    <3>3. {s.workers[fd]} \cup {fd} = Leaving(s, fd)
      BY <2>1 DEF Leaving
    <3> QED BY <3>2, <3>3
  <2>2. CASE fd \notin DOMAIN s.workers
    <3>1. b = s /\ Leaving(s, fd) = {fd}
      BY <2>2 DEF AbortClient, Leaving
    <3> QED BY <3>1, <1>2
  <2> QED BY <2>1, <2>2
<1>4. t = [a EXCEPT !.armed = @ \ {a.clients[fd]},
                    !.live = Erase(@, {a.clients[fd]}),
                    !.clients = Erase(@, {fd})]
  <2>1. t = IF fd \notin DOMAIN a.clients THEN a
            ELSE [a EXCEPT !.armed = @ \ {a.clients[fd]},
                           !.live = Erase(@, {a.clients[fd]}),
                           !.clients = Erase(@, {fd})]
    BY DEF CloseConnection
  <2>2. fd \in DOMAIN a.clients
    BY <1>1, <1>2 DEF SameOwners
  <2> QED BY <2>1, <2>2
<1> HIDE DEF a, b
<1> QED
  BY <1>1, <1>2, <1>3, <1>4 DEF Closed, Without, SameOwners, IsTables

(* What may change of the connections other than those a step is about: no *)
(* worker appears or gets its byte, and none begins to answer.             *)
Gentle(s, t, about) ==
    \A f \in Fds \ about :
       /\ f \in Workers(t) => f \in Workers(s) /\ t.peer[f] = s.peer[f]
       /\ f \in DOMAIN t.clients /\ ~Quiet(t, f) =>
             f \in DOMAIN s.clients /\ ~Quiet(s, f)

LEMMA ClosedFacts ==
    ASSUME NEW s, Linked(s), NEW fd \in DOMAIN s.clients, NEW t, Closed(s, t, fd)
    PROVE  LET gone == Leaving(s, fd)
               c == s.clients[fd]
           IN /\ fd \in gone /\ Listener \notin gone
              /\ \A f \in DOMAIN s.clients : f \in gone => f = fd
              /\ \A f \in DOMAIN s.workers : f # fd => s.workers[f] \notin gone
              /\ \A f \in DOMAIN s.clients : s.clients[f] = c => f = fd
              /\ DOMAIN t.peer = s.open \ gone
              /\ \A x \in s.open \ gone :
                    /\ t.peer[x] = s.peer[x] /\ t.interest[x] = s.interest[x]
                    /\ t.table[x] = s.table[x] /\ t.events[x] = s.events[x]
              /\ DOMAIN t.interest = s.open \ gone /\ DOMAIN t.table = s.open \ gone
              /\ DOMAIN t.events = s.open \ gone
              /\ DOMAIN t.clients = DOMAIN s.clients \ {fd}
              /\ \A f \in DOMAIN t.clients : t.clients[f] = s.clients[f] /\ t.clients[f] # c
              /\ DOMAIN t.live = DOMAIN s.live \ {c}
              /\ \A x \in DOMAIN t.live : t.live[x] = s.live[x]
              /\ DOMAIN t.workers = DOMAIN s.workers \ {fd}
              /\ \A f \in DOMAIN t.workers : t.workers[f] = s.workers[f]
<1> DEFINE gone == Leaving(s, fd)
           c == s.clients[fd]
<1>1. fd \in gone
  BY DEF Leaving
<1>2. Listener \notin gone
  BY DEF Leaving, Linked, Listens, WorkerOf
<1>3. \A f \in DOMAIN s.clients : f \in gone => f = fd
  BY DEF Leaving, Linked, WorkerOf
<1>4. \A f \in DOMAIN s.workers : f # fd => s.workers[f] \notin gone
  BY DEF Leaving, Linked, WorkerOf, WorkersApart
<1>5. \A f \in DOMAIN s.clients : s.clients[f] = c => f = fd
  BY DEF Linked, ClientOf
<1>6. /\ DOMAIN s.peer = s.open /\ DOMAIN s.interest = s.open
      /\ DOMAIN s.table = s.open /\ DOMAIN s.events = s.open
  BY DEF Linked, Types, Domains
<1>7. /\ DOMAIN t.peer = s.open \ gone /\ DOMAIN t.interest = s.open \ gone
      /\ DOMAIN t.table = s.open \ gone /\ DOMAIN t.events = s.open \ gone
      /\ \A x \in s.open \ gone :
            /\ t.peer[x] = s.peer[x] /\ t.interest[x] = s.interest[x]
            /\ t.table[x] = s.table[x] /\ t.events[x] = s.events[x]
  BY <1>6 DEF Closed, Without, Erase, Restrict
<1>8. /\ DOMAIN t.clients = DOMAIN s.clients \ {fd}
      /\ \A f \in DOMAIN t.clients : t.clients[f] = s.clients[f]
      /\ DOMAIN t.live = DOMAIN s.live \ {c}
      /\ \A x \in DOMAIN t.live : t.live[x] = s.live[x]
      /\ DOMAIN t.workers = DOMAIN s.workers \ {fd}
      /\ \A f \in DOMAIN t.workers : t.workers[f] = s.workers[f]
  BY DEF Closed, Erase, Restrict
<1> HIDE DEF gone, c
<1> QED
  BY <1>1, <1>2, <1>3, <1>4, <1>5, <1>7, <1>8 DEF gone, c

LEMMA ClosedTypes ==
    ASSUME NEW s, Types(s), NEW fd \in DOMAIN s.clients, NEW t, Closed(s, t, fd)
    PROVE  Types(t)
<1>1. /\ s.peer \in [s.open -> PeerStates]
      /\ s.interest \in [DOMAIN s.interest -> SUBSET {"IN", "OUT"}]
      /\ s.table \in [DOMAIN s.table -> BOOLEAN]
      /\ s.clients \in [DOMAIN s.clients -> Ptrs]
      /\ s.live \in [DOMAIN s.live -> [fd : Fds, out : BOOLEAN, close : BOOLEAN]]
      /\ s.workers \in [DOMAIN s.workers -> Fds]
  BY DEF Types
<1>2. DOMAIN t.peer = t.open
  BY <1>1 DEF Closed, Without, Erase, Restrict
<1>3. /\ t.peer \in [DOMAIN t.peer -> PeerStates]
      /\ t.interest \in [DOMAIN t.interest -> SUBSET {"IN", "OUT"}]
      /\ t.table \in [DOMAIN t.table -> BOOLEAN]
  BY <1>1 DEF Closed, Without, Erase, Restrict
<1>4. /\ t.clients \in [DOMAIN t.clients -> Ptrs]
      /\ t.live \in [DOMAIN t.live -> [fd : Fds, out : BOOLEAN, close : BOOLEAN]]
      /\ t.workers \in [DOMAIN t.workers -> Fds]
  BY <1>1 DEF Closed, Erase, Restrict
<1>5. DOMAIN t.live \subseteq DOMAIN s.live
  BY DEF Closed, Erase, Restrict
<1>6. /\ IsTables(t) /\ t.open \subseteq s.open /\ t.armed \subseteq s.armed
  BY DEF Closed, Without
<1> QED
  BY <1>2, <1>3, <1>4, <1>5, <1>6 DEF Types

LEMMA ClosedLinked ==
    ASSUME NEW s, Linked(s), NEW fd \in DOMAIN s.clients, NEW t, Closed(s, t, fd)
    PROVE  Linked(t)
<1> DEFINE gone == Leaving(s, fd)
           c == s.clients[fd]
<1>0. Types(t) /\ t.open = s.open \ gone
  BY ClosedTypes DEF Linked, Closed, Without
<1>1. /\ fd \in gone /\ Listener \notin gone
      /\ \A f \in DOMAIN s.clients : f \in gone => f = fd
      /\ \A f \in DOMAIN s.workers : f # fd => s.workers[f] \notin gone
      /\ \A f \in DOMAIN s.clients : s.clients[f] = c => f = fd
  BY ClosedFacts
<1>2. /\ DOMAIN t.peer = s.open \ gone
      /\ DOMAIN t.interest = s.open \ gone /\ DOMAIN t.table = s.open \ gone
      /\ DOMAIN t.events = s.open \ gone
      /\ \A x \in s.open \ gone :
            /\ t.peer[x] = s.peer[x] /\ t.interest[x] = s.interest[x]
            /\ t.table[x] = s.table[x] /\ t.events[x] = s.events[x]
  BY ClosedFacts
<1>3. /\ DOMAIN t.clients = DOMAIN s.clients \ {fd}
      /\ \A f \in DOMAIN t.clients : t.clients[f] = s.clients[f] /\ t.clients[f] # c
      /\ DOMAIN t.live = DOMAIN s.live \ {c}
      /\ \A x \in DOMAIN t.live : t.live[x] = s.live[x]
      /\ DOMAIN t.workers = DOMAIN s.workers \ {fd}
      /\ \A f \in DOMAIN t.workers : t.workers[f] = s.workers[f]
  BY ClosedFacts
<1>4. gone = {fd} \cup (IF fd \in DOMAIN s.workers THEN {s.workers[fd]} ELSE {})
  BY DEF Leaving
<1> HIDE DEF gone
<1>5. Domains(t)
  <2>1. \A x \in t.open : x = Listener \/ x \in DOMAIN t.clients \/ x \in Workers(t)
    <3> SUFFICES ASSUME NEW x \in t.open, x # Listener, x \notin DOMAIN t.clients
                 PROVE  x \in Workers(t)
      OBVIOUS
    <3>1. x \in s.open /\ x \notin gone
      BY <1>0
    <3>2. x \notin DOMAIN s.clients
      BY <1>1, <1>3, <3>1
    <3>3. PICK f \in DOMAIN s.workers : s.workers[f] = x
      BY <3>1, <3>2 DEF Linked, Domains, Workers
    <3>4. f # fd
      BY <1>4, <3>1, <3>3
    <3> QED
      BY <1>3, <3>3, <3>4 DEF Workers
  <2>2. Listener \in t.open
    BY <1>0, <1>1 DEF Linked, Domains
  <2> QED
    BY <1>0, <1>2, <2>1, <2>2 DEF Domains
<1>6. Listens(t)
  <2>1. Listener \in s.open \ gone
    BY <1>1 DEF Linked, Domains
  <2> QED
    BY <1>2, <1>3, <2>1 DEF Linked, Listens
<1>7. \A f \in DOMAIN t.clients : ClientOf(t, f)
  <2> SUFFICES ASSUME NEW f \in DOMAIN t.clients
               PROVE  ClientOf(t, f)
    OBVIOUS
  <2>1. f \in DOMAIN s.clients /\ f # fd /\ ClientOf(s, f)
    BY <1>3 DEF Linked
  <2>2. f \in s.open \ gone
    BY <1>1, <2>1 DEF ClientOf
  <2>3. t.clients[f] = s.clients[f] /\ t.clients[f] \in DOMAIN t.live
    BY <1>3, <2>1 DEF ClientOf
  <2> QED
    BY <1>0, <1>2, <1>3, <2>1, <2>2, <2>3 DEF ClientOf
<1>8. \A x \in DOMAIN t.live : ObjectOf(t, x)
  <2> SUFFICES ASSUME NEW x \in DOMAIN t.live
               PROVE  ObjectOf(t, x)
    OBVIOUS
  <2>1. x \in DOMAIN s.live /\ x # c /\ ObjectOf(s, x) /\ t.live[x] = s.live[x]
    BY <1>3 DEF Linked
  <2>2. s.live[x].fd # fd
    BY <2>1 DEF ObjectOf
  <2> QED
    BY <1>3, <2>1, <2>2 DEF ObjectOf
<1>9. \A f \in DOMAIN t.workers : WorkerOf(t, f)
  <2> SUFFICES ASSUME NEW f \in DOMAIN t.workers
               PROVE  WorkerOf(t, f)
    OBVIOUS
  <2>1. f \in DOMAIN s.workers /\ f # fd /\ WorkerOf(s, f) /\ t.workers[f] = s.workers[f]
    BY <1>3 DEF Linked
  <2>2. s.workers[f] \in s.open \ gone
    BY <1>1, <2>1 DEF WorkerOf
  <2>3. f \in DOMAIN s.clients /\ f \in s.open \ gone
    BY <1>1, <2>1 DEF WorkerOf, Linked, ClientOf
  <2>4. f \in DOMAIN t.clients /\ t.clients[f] = s.clients[f]
    BY <1>3, <2>1, <2>3
  <2>5. /\ t.peer[f] = s.peer[f] /\ t.peer[s.workers[f]] = s.peer[s.workers[f]]
        /\ t.table[s.workers[f]] = s.table[s.workers[f]]
        /\ t.events[s.workers[f]] = s.events[s.workers[f]]
        /\ t.interest[s.workers[f]] = s.interest[s.workers[f]]
    BY <1>2, <2>2, <2>3
  <2> QED
    BY <1>0, <1>3, <2>1, <2>2, <2>4, <2>5 DEF WorkerOf
<1>10. WorkersApart(t)
  BY <1>3 DEF Linked, WorkersApart
<1> QED
  BY <1>0, <1>5, <1>6, <1>7, <1>8, <1>9, <1>10 DEF Linked

LEMMA ClosedKeeps ==
    ASSUME NEW s, NEW due, Good(s, due), NEW fd \in DOMAIN s.clients, NEW t,
           Closed(s, t, fd)
    PROVE  /\ Good(t, due \ {s.clients[fd]})
           /\ Gentle(s, t, {})
           /\ t.open \subseteq s.open /\ t.faults = s.faults
           /\ DOMAIN t.clients = DOMAIN s.clients \ {fd}
<1> DEFINE gone == Leaving(s, fd)
           c == s.clients[fd]
<1>1. Linked(s) /\ Linked(t)
  BY ClosedLinked DEF Good
<1>2. /\ \A x \in s.open \ gone :
            t.peer[x] = s.peer[x] /\ t.interest[x] = s.interest[x]
      /\ \A f \in DOMAIN s.clients : f \in gone => f = fd
      /\ \A f \in DOMAIN s.workers : f # fd => s.workers[f] \notin gone
  BY <1>1, ClosedFacts
<1>3. /\ DOMAIN t.clients = DOMAIN s.clients \ {fd}
      /\ \A f \in DOMAIN t.clients : t.clients[f] = s.clients[f] /\ t.clients[f] # c
      /\ DOMAIN t.live = DOMAIN s.live \ {c}
      /\ \A x \in DOMAIN t.live : t.live[x] = s.live[x]
      /\ DOMAIN t.workers = DOMAIN s.workers \ {fd}
      /\ \A f \in DOMAIN t.workers : t.workers[f] = s.workers[f]
  BY <1>1, ClosedFacts
<1>4. t.open = s.open \ gone /\ t.armed = s.armed \ {c} /\ t.faults = s.faults
  BY DEF Closed, Without
<1> HIDE DEF gone
<1>5. \A f \in DOMAIN t.clients : f \in DOMAIN s.clients /\ t.live[t.clients[f]] = s.live[s.clients[f]]
  BY <1>1, <1>3 DEF Linked, ClientOf
<1>6. \A f \in DOMAIN t.clients : Watched(t, f)
  <2> SUFFICES ASSUME NEW f \in DOMAIN t.clients
               PROVE  Watched(t, f)
    OBVIOUS
  <2>1. f \in s.open \ gone
    BY <1>1, <1>2, <1>3 DEF Linked, ClientOf
  <2>2. Watched(s, f)
    BY <1>5 DEF Good
  <2> QED
    BY <1>2, <1>5, <2>1, <2>2 DEF Watched
<1>7. Timed(t, due \ {c})
  BY <1>3, <1>4 DEF Good, Timed
<1>8. Gentle(s, t, {})
  <2> SUFFICES ASSUME NEW f \in Fds
               PROVE  /\ f \in Workers(t) => f \in Workers(s) /\ t.peer[f] = s.peer[f]
                      /\ f \in DOMAIN t.clients /\ ~Quiet(t, f) =>
                            f \in DOMAIN s.clients /\ ~Quiet(s, f)
    BY DEF Gentle
  <2>1. ASSUME f \in Workers(t)
        PROVE  f \in Workers(s) /\ t.peer[f] = s.peer[f]
    <3>1. PICK g \in DOMAIN t.workers : t.workers[g] = f
      BY <2>1 DEF Workers
    <3>2. g \in DOMAIN s.workers /\ g # fd /\ s.workers[g] = f
      BY <1>3, <3>1
    <3>3. f \in s.open \ gone
      BY <1>1, <1>2, <3>2 DEF Linked, WorkerOf
    <3> QED
      BY <1>2, <3>2, <3>3 DEF Workers
  <2>2. ASSUME f \in DOMAIN t.clients, ~Quiet(t, f)
        PROVE  f \in DOMAIN s.clients /\ ~Quiet(s, f)
    BY <1>3, <1>5, <2>2 DEF Quiet
  <2> QED
    BY <2>1, <2>2
<1> QED
  BY <1>1, <1>3, <1>4, <1>6, <1>7, <1>8 DEF Good

(* EventManager::removeFd on a client descriptor closes its connection. *)
LEMMA RemoveFdCloses ==
    ASSUME NEW s, IsTables(s), NEW fd \in DOMAIN s.clients, NEW t, t = RemoveFd(s, fd),
           s.workers = [x \in DOMAIN s.workers |-> s.workers[x]],
           fd \in DOMAIN s.table, s.table[fd] = TRUE
    PROVE  Closed(s, t, fd)
<1> DEFINE e == ClearEvents(s, fd)
           r == CloseConnection(e, fd)
<1>1. /\ IsTables(e) /\ e.open = s.open /\ e.peer = s.peer /\ e.interest = s.interest
      /\ e.table = s.table /\ e.events = Erase(s.events, {fd}) /\ e.clients = s.clients
      /\ e.live = s.live /\ e.armed = s.armed /\ e.workers = s.workers
      /\ e.faults = s.faults
  BY DEF IsTables, ClearEvents
<1>2. t = [r EXCEPT !.table = Erase(@, {fd})]
  BY <1>1 DEF RemoveFd
<1> HIDE DEF e
<1>3. Closed(e, r, fd)
  BY <1>1, CloseConnectionCloses
<1> HIDE DEF r
<1>4. /\ IsTables(t) /\ t.open = r.open /\ t.peer = r.peer /\ t.interest = r.interest
      /\ t.table = Erase(r.table, {fd}) /\ t.events = r.events /\ t.clients = r.clients
      /\ t.live = r.live /\ t.armed = r.armed /\ t.workers = r.workers
      /\ t.faults = r.faults
  BY <1>2, <1>3 DEF IsTables, Closed, Without
<1> DEFINE gone == Leaving(s, fd)
<1>5. Leaving(e, fd) = gone /\ gone \cup {fd} = gone /\ {fd} \cup gone = gone
  BY <1>1 DEF Leaving
<1> HIDE DEF gone
<1>6. /\ t.table = Erase(s.table, gone)
      /\ t.events = Erase(s.events, gone)
  <2>1. /\ t.table = Erase(Erase(s.table, gone), {fd})
        /\ t.events = Erase(Erase(s.events, {fd}), gone)
    BY <1>1, <1>3, <1>4, <1>5 DEF Closed, Without
  <2> QED
    BY <2>1, <1>5, ErasedTwice
<1> QED
  BY <1>1, <1>3, <1>4, <1>5, <1>6 DEF Closed, Without, gone

(* ... and does nothing to one that was closed before. *)
LEMMA RemoveFdAgain ==
    ASSUME NEW s, NEW a, NEW fd, NEW t, Closed(s, a, fd), t = RemoveFd(a, fd)
    PROVE  Closed(s, t, fd)
<1> DEFINE gone == Leaving(s, fd)
<1>1. /\ a.events = Erase(s.events, gone) /\ a.table = Erase(s.table, gone)
      /\ IsTables(a)
  BY DEF Closed, Without
<1>2. fd \in gone /\ gone \cup {fd} = gone
  BY DEF Leaving
<1> HIDE DEF gone
<1>3. fd \notin DOMAIN a.table
  BY <1>1, <1>2 DEF Erase, Restrict
<1>4. Erase(a.events, {fd}) = a.events
  BY <1>1, <1>2, ErasedTwice
<1>5. ClearEvents(a, fd).table = a.table
  BY <1>1 DEF ClearEvents, IsTables
<1>6. t = ClearEvents(a, fd)
  BY <1>3, <1>5 DEF RemoveFd
<1>7. /\ IsTables(t) /\ t.open = a.open /\ t.peer = a.peer /\ t.interest = a.interest
      /\ t.table = a.table /\ t.events = a.events /\ t.clients = a.clients
      /\ t.live = a.live /\ t.armed = a.armed /\ t.workers = a.workers
      /\ t.faults = a.faults
  BY <1>1, <1>4, <1>6 DEF IsTables, ClearEvents
<1> QED
  BY <1>7 DEF Closed, Without

-----------------------------------------------------------------------------
(* Only what belongs to the connection of fd changes. *)
Touched(s, t, fd) ==
    /\ IsTables(t)
    /\ t.open = s.open /\ t.table = s.table /\ t.events = s.events
    /\ t.clients = s.clients /\ t.workers = s.workers /\ t.faults = s.faults
    /\ t.peer = [s.peer EXCEPT ![fd] = t.peer[fd]]
    /\ t.interest = [s.interest EXCEPT ![fd] = t.interest[fd]]
    /\ t.live = [s.live EXCEPT ![s.clients[fd]] = t.live[s.clients[fd]]]
    /\ t.armed \in {s.armed, s.armed \cup {s.clients[fd]}}

(* Whatever a handler has changed of it before is lost by closing it. *)
LEMMA TouchedClosed ==
    ASSUME NEW s, NEW a, NEW fd, NEW t, Touched(s, a, fd), Closed(a, t, fd)
    PROVE  Closed(s, t, fd)
<1> DEFINE gone == Leaving(s, fd)
           c == s.clients[fd]
<1>1. Leaving(a, fd) = gone /\ fd \in gone /\ a.clients[fd] = c
  BY DEF Leaving, Touched
<1> HIDE DEF gone, c
<1>2. /\ t.peer = Erase(a.peer, gone) /\ t.interest = Erase(a.interest, gone)
      /\ t.live = Erase(a.live, {c}) /\ t.armed = a.armed \ {c}
      /\ t.table = Erase(s.table, gone) /\ t.events = Erase(s.events, gone)
      /\ t.open = s.open \ gone /\ t.faults = s.faults /\ IsTables(t)
      /\ t.clients = Erase(s.clients, {fd}) /\ t.workers = Erase(s.workers, {fd})
  BY <1>1 DEF Closed, Without, Touched
<1>3. Erase(a.peer, gone) = Erase(s.peer, gone)
  <2>1. DOMAIN a.peer = DOMAIN s.peer /\ \A x \in DOMAIN s.peer : x # fd => a.peer[x] = s.peer[x]
    BY DEF Touched
  <2> QED
    BY <1>1, <2>1 DEF Erase, Restrict
<1>4. Erase(a.interest, gone) = Erase(s.interest, gone)
  <2>1. /\ DOMAIN a.interest = DOMAIN s.interest
        /\ \A x \in DOMAIN s.interest : x # fd => a.interest[x] = s.interest[x]
    BY DEF Touched
  <2> QED
    BY <1>1, <2>1 DEF Erase, Restrict
<1>5. Erase(a.live, {c}) = Erase(s.live, {c})
  <2>1. DOMAIN a.live = DOMAIN s.live /\ \A x \in DOMAIN s.live : x # c => a.live[x] = s.live[x]
    BY DEF Touched, c
  <2> QED
    BY <2>1 DEF Erase, Restrict
<1>6. a.armed \ {c} = s.armed \ {c}
  BY DEF Touched, c
<1> QED
  BY <1>2, <1>3, <1>4, <1>5, <1>6 DEF Closed, Without, gone, c

ClientType == [fd : Fds, out : BOOLEAN, close : BOOLEAN]

LEMMA OfClient ==
    ASSUME NEW s, Linked(s), NEW c \in DOMAIN s.live
    PROVE  /\ s.live[c].fd \in DOMAIN s.clients /\ s.clients[s.live[c].fd] = c
           /\ s.live[c].fd \in Fds /\ s.live[c].fd \in s.open
           /\ c \in Ptrs /\ s.live[c] \in ClientType
           /\ s.table[s.live[c].fd] = TRUE
  BY DEF Linked, Types, ObjectOf, ClientOf, ClientType

LEMMA Fields ==
    ASSUME NEW s, Linked(s)
    PROVE  /\ IsTables(s)
           /\ s.live \in [DOMAIN s.live -> ClientType]
           /\ s.peer \in [s.open -> PeerStates]
           /\ s.interest \in [s.open -> SUBSET {"IN", "OUT"}]
           /\ s.workers = [x \in DOMAIN s.workers |-> s.workers[x]]
           /\ DOMAIN s.table = s.open /\ DOMAIN s.events = s.open
           /\ Listener \notin DOMAIN s.clients
  BY DEF Linked, Types, ClientType, Domains, Listens

(* The links between the tables do not depend on what a connection has to  *)
(* do next. *)
LEMMA TouchedLinked ==
    ASSUME NEW s, Linked(s), NEW fd \in DOMAIN s.clients, NEW t, Touched(s, t, fd),
           t.peer[fd] \in PeerStates, t.interest[fd] \in SUBSET {"IN", "OUT"},
           t.live[s.clients[fd]] \in ClientType, t.live[s.clients[fd]].fd = fd,
           fd \in DOMAIN s.workers => t.peer[fd] \notin HasData
    PROVE  Linked(t)
<1> DEFINE c == s.clients[fd]
<1>1. /\ c \in DOMAIN s.live /\ fd \in s.open /\ fd # Listener /\ c \in Ptrs
      /\ \A f \in DOMAIN s.workers : s.workers[f] # fd
  BY DEF Linked, ClientOf, Listens, WorkerOf, Types
<1>2. /\ DOMAIN t.peer = s.open /\ DOMAIN t.interest = s.open
      /\ DOMAIN t.live = DOMAIN s.live
      /\ \A x \in s.open : x # fd => t.peer[x] = s.peer[x] /\ t.interest[x] = s.interest[x]
      /\ \A x \in DOMAIN s.live : x # c => t.live[x] = s.live[x]
  BY Fields DEF Touched
<1>3. /\ t.open = s.open /\ t.table = s.table /\ t.events = s.events
      /\ t.clients = s.clients /\ t.workers = s.workers /\ IsTables(t)
  BY DEF Touched
<1>4. Types(t)
  <2>1. /\ t.peer \in [s.open -> PeerStates]
        /\ t.interest \in [s.open -> SUBSET {"IN", "OUT"}]
        /\ t.live \in [DOMAIN s.live -> ClientType]
    <3>1. /\ t.peer = [s.peer EXCEPT ![fd] = t.peer[fd]]
          /\ t.interest = [s.interest EXCEPT ![fd] = t.interest[fd]]
          /\ t.live = [s.live EXCEPT ![c] = t.live[c]]
      BY DEF Touched
    <3>2. /\ s.peer \in [s.open -> PeerStates]
          /\ s.interest \in [s.open -> SUBSET {"IN", "OUT"}]
          /\ s.live \in [DOMAIN s.live -> ClientType]
      BY Fields
    <3>3. t.live[c] \in ClientType
      OBVIOUS
    <3> HIDE DEF c
    <3>4. t.peer \in [s.open -> PeerStates]
      BY <1>1, <3>1, <3>2
    <3>5. t.interest \in [s.open -> SUBSET {"IN", "OUT"}]
      BY <1>1, <3>1, <3>2
    <3>6. t.live \in [DOMAIN s.live -> ClientType]
      BY <1>1, <3>1, <3>2, <3>3
    <3> QED
      BY <3>4, <3>5, <3>6
  <2>2. t.armed \subseteq Ptrs
    BY <1>1 DEF Linked, Types, Touched
  <2> QED
    BY <1>2, <1>3, <2>1, <2>2 DEF Linked, Types, ClientType
<1>5. Domains(t)
  BY <1>2, <1>3 DEF Linked, Domains, Workers
<1>6. Listens(t)
  <2>1. Listener \in s.open
    BY DEF Linked, Domains
  <2> QED
    BY <1>1, <1>2, <1>3, <2>1 DEF Linked, Listens
<1>7. \A f \in DOMAIN t.clients : ClientOf(t, f)
  <2> SUFFICES ASSUME NEW f \in DOMAIN t.clients
               PROVE  ClientOf(t, f)
    OBVIOUS
  <2>1. f \in DOMAIN s.clients /\ ClientOf(s, f)
    BY <1>3 DEF Linked
  <2>2. t.live[t.clients[f]].fd = f
    <3>1. CASE f = fd
      BY <1>3, <3>1
    <3>2. CASE f # fd
      <4>1. s.clients[f] # c
        BY <2>1, <3>2 DEF ClientOf, Linked
      <4> QED
        BY <1>2, <1>3, <2>1, <4>1 DEF ClientOf
    <3> QED BY <3>1, <3>2
  <2> QED
    BY <1>2, <1>3, <2>1, <2>2 DEF ClientOf
<1>8. \A x \in DOMAIN t.live : ObjectOf(t, x)
  <2> SUFFICES ASSUME NEW x \in DOMAIN t.live
               PROVE  ObjectOf(t, x)
    OBVIOUS
  <2>1. CASE x = c
    BY <1>3, <2>1 DEF ObjectOf
  <2>2. CASE x # c
    BY <1>2, <1>3, <2>2 DEF ObjectOf, Linked
  <2> QED BY <2>1, <2>2
<1>9. \A f \in DOMAIN t.workers : WorkerOf(t, f)
  <2> SUFFICES ASSUME NEW f \in DOMAIN t.workers
               PROVE  WorkerOf(t, f)
    OBVIOUS
  <2>1. f \in DOMAIN s.workers /\ WorkerOf(s, f) /\ s.workers[f] # fd /\ f \in s.open
    BY <1>1, <1>3 DEF Linked, WorkerOf, ClientOf
  <2>2. /\ t.peer[s.workers[f]] = s.peer[s.workers[f]]
        /\ t.interest[s.workers[f]] = s.interest[s.workers[f]]
    BY <1>2, <2>1 DEF WorkerOf
  <2>3. t.peer[f] \notin HasData
    <3>1. CASE f = fd
      BY <2>1, <3>1
    <3>2. CASE f # fd
      BY <1>2, <2>1, <3>2 DEF WorkerOf
    <3> QED BY <3>1, <3>2
  <2> QED
    BY <1>3, <2>1, <2>2, <2>3 DEF WorkerOf
<1>10. WorkersApart(t)
  BY <1>3 DEF Linked, WorkersApart
<1> QED
  BY <1>4, <1>5, <1>6, <1>7, <1>8, <1>9, <1>10 DEF Linked

(* ... and the rest holds again when its answer is watched. *)
LEMMA TouchedKeeps ==
    ASSUME NEW s, NEW due, Good(s, due), NEW fd \in DOMAIN s.clients, NEW t,
           Touched(s, t, fd), Linked(t), Watched(t, fd),
           s.clients[fd] \notin due \/ t.armed = s.armed
    PROVE  /\ Good(t, due)
           /\ Gentle(s, t, {fd})
           /\ t.live = s.live => Gentle(s, t, {})
<1> DEFINE c == s.clients[fd]
<1>1. /\ c \in DOMAIN s.live /\ fd \in s.open /\ Linked(s)
      /\ \A f \in DOMAIN s.workers : s.workers[f] # fd /\ s.workers[f] \in s.open
  BY DEF Good, Linked, ClientOf, WorkerOf
<1>2. /\ DOMAIN t.live = DOMAIN s.live
      /\ \A x \in s.open : x # fd => t.peer[x] = s.peer[x] /\ t.interest[x] = s.interest[x]
      /\ \A x \in DOMAIN s.live : x # c => t.live[x] = s.live[x]
  <2>1. /\ DOMAIN s.peer = s.open /\ DOMAIN s.interest = s.open
    BY DEF Good, Linked, Types, Domains
  <2>2. /\ t.peer = [s.peer EXCEPT ![fd] = t.peer[fd]]
        /\ t.interest = [s.interest EXCEPT ![fd] = t.interest[fd]]
        /\ t.live = [s.live EXCEPT ![c] = t.live[c]]
    BY DEF Touched
  <2> HIDE DEF c
  <2> QED
    BY <2>1, <2>2
<1>3. /\ t.clients = s.clients /\ t.workers = s.workers
      /\ t.armed \in {s.armed, s.armed \cup {c}}
  BY DEF Touched
<1>4. \A f \in DOMAIN s.clients : f # fd =>
         f \in s.open /\ s.clients[f] \in DOMAIN s.live /\ s.clients[f] # c
  <2>1. s.live[c].fd = fd
    BY <1>1 DEF Linked, ClientOf
  <2> QED
    BY <1>1, <2>1 DEF Linked, ClientOf
<1>5. \A f \in DOMAIN t.clients : Watched(t, f)
  <2> SUFFICES ASSUME NEW f \in DOMAIN s.clients, f # fd
               PROVE  Watched(t, f)
    BY <1>3
  <2>1. Watched(s, f)
    BY DEF Good
  <2> QED
    BY <1>2, <1>3, <1>4, <2>1 DEF Watched
<1>6. Timed(t, due)
  BY <1>1, <1>2, <1>3 DEF Good, Timed
<1>7. Gentle(s, t, {fd})
  <2> SUFFICES ASSUME NEW f \in Fds, f # fd
               PROVE  /\ f \in Workers(t) => f \in Workers(s) /\ t.peer[f] = s.peer[f]
                      /\ f \in DOMAIN t.clients /\ ~Quiet(t, f) =>
                            f \in DOMAIN s.clients /\ ~Quiet(s, f)
    BY DEF Gentle
  <2>1. f \in Workers(t) => f \in Workers(s) /\ t.peer[f] = s.peer[f]
    BY <1>1, <1>2, <1>3 DEF Workers
  <2>2. f \in DOMAIN t.clients /\ ~Quiet(t, f) => f \in DOMAIN s.clients /\ ~Quiet(s, f)
    BY <1>2, <1>3, <1>4 DEF Quiet
  <2> QED BY <2>1, <2>2
<1>8. ASSUME t.live = s.live
      PROVE  Gentle(s, t, {})
  <2>1. fd \notin Workers(t)
    BY <1>1, <1>3 DEF Workers
  <2>2. Quiet(t, fd) = Quiet(s, fd)
    BY <1>3, <1>8 DEF Quiet
  <2> QED
    BY <1>3, <1>7, <2>1, <2>2 DEF Gentle
<1> QED
  BY <1>5, <1>6, <1>7, <1>8 DEF Good

(* The flags of a Client. *)
SetLive(s, c, k) == [s EXCEPT !.live[c] = k]
LEMMA LiveSet ==
    ASSUME NEW s, Linked(s), NEW c \in DOMAIN s.live, NEW k \in ClientType,
           k.fd = s.live[c].fd, NEW t, t = SetLive(s, c, k)
    PROVE  /\ Touched(s, t, s.live[c].fd) /\ Linked(t)
           /\ t.live[c] = k
           /\ t.peer = s.peer /\ t.interest = s.interest /\ t.armed = s.armed
           /\ t.faults = s.faults /\ DOMAIN t.live = DOMAIN s.live
<1> DEFINE fd == s.live[c].fd
<1>1. IsTables(s) /\ s.live \in [DOMAIN s.live -> ClientType]
  BY Fields
<1>2. t.live = [s.live EXCEPT ![c] = k]
  BY <1>1 DEF IsTables, SetLive
<1>3. /\ IsTables(t) /\ t.open = s.open /\ t.peer = s.peer /\ t.interest = s.interest
      /\ t.table = s.table /\ t.events = s.events /\ t.clients = s.clients
      /\ t.armed = s.armed /\ t.workers = s.workers /\ t.faults = s.faults
  BY <1>1 DEF IsTables, SetLive
<1>4. k.fd = fd
  OBVIOUS
<1>5. t.live[c] = k /\ DOMAIN t.live = DOMAIN s.live /\ t.live = [s.live EXCEPT ![c] = t.live[c]]
  BY <1>2
<1>6. fd \in DOMAIN s.clients /\ s.clients[fd] = c /\ fd \in s.open
  BY OfClient
<1>7. Touched(s, t, fd)
  <2>1. s.peer = [s.peer EXCEPT ![fd] = s.peer[fd]]
    BY <1>6, Fields
  <2>2. s.interest = [s.interest EXCEPT ![fd] = s.interest[fd]]
    BY <1>6, Fields
  <2> QED
    BY <1>3, <1>5, <1>6, <2>1, <2>2 DEF Touched
<1>8. Linked(t)
  <2>1. s.peer[fd] \in PeerStates /\ s.interest[fd] \in SUBSET {"IN", "OUT"}
    BY <1>6, Fields
  <2>2. fd \in DOMAIN s.workers => s.peer[fd] \notin HasData
    BY DEF Linked, WorkerOf
  <2>3. t.live[s.clients[fd]] \in ClientType /\ t.live[s.clients[fd]].fd = fd
    BY <1>4, <1>5, <1>6
  <2>4. t.peer[fd] = s.peer[fd] /\ t.interest[fd] = s.interest[fd]
    BY <1>3
  <2> HIDE DEF fd
  <2> QED
    BY <1>6, <1>7, <2>1, <2>2, <2>3, <2>4, TouchedLinked
<1> QED
  BY <1>3, <1>5, <1>7, <1>8

LEMMA InterestSet ==
    ASSUME NEW s, Linked(s), NEW fd \in DOMAIN s.clients, NEW bits \in SUBSET {"IN", "OUT"},
           NEW t, t = Modify(s, fd, bits)
    PROVE  /\ Touched(s, t, fd) /\ Linked(t)
           /\ t.interest[fd] = bits
           /\ t.peer = s.peer /\ t.live = s.live /\ t.armed = s.armed
           /\ t.faults = s.faults
<1>1. IsTables(s) /\ fd \in s.open /\ DOMAIN s.interest = s.open
  BY Fields DEF Linked, ClientOf
<1>2. t = [s EXCEPT !.interest[fd] = bits]
  BY <1>1 DEF Modify
<1>3. /\ IsTables(t) /\ t.open = s.open /\ t.peer = s.peer
      /\ t.interest = [s.interest EXCEPT ![fd] = bits]
      /\ t.table = s.table /\ t.events = s.events /\ t.clients = s.clients
      /\ t.live = s.live /\ t.armed = s.armed /\ t.workers = s.workers
      /\ t.faults = s.faults
  BY <1>1, <1>2 DEF IsTables
<1>4. /\ s.peer \in [s.open -> PeerStates] /\ s.live \in [DOMAIN s.live -> ClientType]
      /\ s.clients[fd] \in DOMAIN s.live /\ s.live[s.clients[fd]].fd = fd
  BY Fields DEF Linked, ClientOf
<1>5. fd \in DOMAIN s.workers => s.peer[fd] \notin HasData
  BY DEF Linked, WorkerOf
<1>6. t.interest[fd] = bits /\ t.interest = [s.interest EXCEPT ![fd] = t.interest[fd]]
  BY <1>1, <1>3
<1>7. /\ s.peer = [s.peer EXCEPT ![fd] = s.peer[fd]] /\ s.peer[fd] \in PeerStates
      /\ s.live = [s.live EXCEPT ![s.clients[fd]] = s.live[s.clients[fd]]]
      /\ s.live[s.clients[fd]] \in ClientType
  BY <1>1, <1>4
<1>8. Touched(s, t, fd)
  BY <1>3, <1>6, <1>7 DEF Touched
<1>9. Linked(t)
  <2>1. /\ t.peer[fd] \in PeerStates /\ t.interest[fd] \in SUBSET {"IN", "OUT"}
        /\ t.live[s.clients[fd]] \in ClientType /\ t.live[s.clients[fd]].fd = fd
    BY <1>3, <1>4, <1>6, <1>7
  <2>2. fd \in DOMAIN s.workers => t.peer[fd] \notin HasData
    BY <1>3, <1>5
  <2> QED
    BY <1>8, <2>1, <2>2, TouchedLinked
<1> QED
  BY <1>3, <1>6, <1>8, <1>9

LEMMA TimeoutUpdated ==
    ASSUME NEW s, Linked(s), NEW c \in DOMAIN s.live, NEW t, t = UpdateTimeout(s, c)
    PROVE  /\ Touched(s, t, s.live[c].fd) /\ Linked(t)
           /\ t.interest = s.interest /\ t.peer = s.peer /\ t.live = s.live
           /\ t.armed = s.armed \cup {c} /\ t.faults = s.faults
<1> DEFINE fd == s.live[c].fd
<1>1. IsTables(s) /\ fd \in DOMAIN s.clients /\ s.clients[fd] = c /\ fd \in s.open
      /\ s.live[c] \in ClientType
  BY OfClient, Fields
<1>2. /\ IsTables(t) /\ t.open = s.open /\ t.peer = s.peer
      /\ t.interest = s.interest
      /\ t.table = s.table /\ t.events = s.events /\ t.clients = s.clients
      /\ t.live = s.live /\ t.armed = s.armed \cup {c} /\ t.workers = s.workers
      /\ t.faults = s.faults
  BY <1>1 DEF IsTables, UpdateTimeout
<1>3. /\ s.peer \in [s.open -> PeerStates] /\ s.live \in [DOMAIN s.live -> ClientType]
      /\ s.interest \in [s.open -> SUBSET {"IN", "OUT"}]
  BY Fields
<1>4. fd \in DOMAIN s.workers => s.peer[fd] \notin HasData
  BY DEF Linked, WorkerOf
<1>5. /\ s.peer = [s.peer EXCEPT ![fd] = s.peer[fd]] /\ s.peer[fd] \in PeerStates
      /\ s.live = [s.live EXCEPT ![c] = s.live[c]]
      /\ s.interest = [s.interest EXCEPT ![fd] = s.interest[fd]]
      /\ s.interest[fd] \in SUBSET {"IN", "OUT"}
  BY <1>1, <1>3
<1>6. Touched(s, t, fd)
  BY <1>1, <1>2, <1>5 DEF Touched
<1>7. Linked(t)
  <2>1. /\ t.peer[fd] \in PeerStates /\ t.interest[fd] \in SUBSET {"IN", "OUT"}
        /\ t.live[s.clients[fd]] \in ClientType /\ t.live[s.clients[fd]].fd = fd
    BY <1>1, <1>2, <1>5
  <2>2. fd \in DOMAIN s.workers => t.peer[fd] \notin HasData
    BY <1>2, <1>4
  <2> HIDE DEF fd
  <2> QED
    BY <1>1, <1>6, <2>1, <2>2, TouchedLinked
<1> QED
  BY <1>2, <1>6, <1>7

LEMMA TouchedTwice ==
    ASSUME NEW s, NEW a, NEW t, NEW fd, Touched(s, a, fd), Touched(a, t, fd)
    PROVE  Touched(s, t, fd)
<1> DEFINE c == s.clients[fd]
<1>1. a.clients[fd] = c
  BY DEF Touched
<1> HIDE DEF c
<1>2. /\ a.peer = [s.peer EXCEPT ![fd] = a.peer[fd]] /\ t.peer = [a.peer EXCEPT ![fd] = t.peer[fd]]
      /\ a.interest = [s.interest EXCEPT ![fd] = a.interest[fd]]
      /\ t.interest = [a.interest EXCEPT ![fd] = t.interest[fd]]
      /\ a.live = [s.live EXCEPT ![c] = a.live[c]] /\ t.live = [a.live EXCEPT ![c] = t.live[c]]
  BY <1>1 DEF Touched, c
<1>3. t.peer = [s.peer EXCEPT ![fd] = t.peer[fd]]
  BY <1>2
<1>4. t.interest = [s.interest EXCEPT ![fd] = t.interest[fd]]
  BY <1>2
<1>5. t.live = [s.live EXCEPT ![c] = t.live[c]]
  BY <1>2
<1>6. t.armed \in {s.armed, s.armed \cup {c}}
  BY <1>1 DEF Touched, c
<1> QED
  BY <1>3, <1>4, <1>5, <1>6 DEF Touched, c

(* HttpConnection::handleWriteEvent: without an answer it stops waiting to *)
(* write, and with one it is killed, closes, sends a part, or all of it.   *)
Emptied(s, t, c, fd) ==
    /\ Touched(s, t, fd) /\ Linked(t)
    /\ t.live[c].out = FALSE /\ t.live[c].fd = fd
    /\ t.interest[fd] = {"IN"}
Written(s, t, c, fd) ==
    \/ s.live[c].out = TRUE /\ t = Fault(s, "sigpipe")
    \/ s.live[c].out = TRUE /\ Closed(s, t, fd)
    \/ s.live[c].out = TRUE /\ t = s
    \/ Emptied(s, t, c, fd)
LEMMA WriteOutcome ==
    ASSUME NEW s, Linked(s), NEW c \in DOMAIN s.live, NEW sent, NEW t,
           t = HandleWriteEvent(s, c, sent)
    PROVE  Written(s, t, c, s.live[c].fd)
<1> DEFINE fd == s.live[c].fd
           done == [s EXCEPT !.live[c].out = FALSE]
           m == Modify(done, fd, {"IN"})
<1>1. /\ fd \in DOMAIN s.clients /\ s.clients[fd] = c /\ s.live[c].out \in BOOLEAN
      /\ s.live[c].close \in BOOLEAN /\ IsTables(s)
      /\ s.workers = [x \in DOMAIN s.workers |-> s.workers[x]]
  <2> HIDE DEF done, m
  <2>1. s.live[c] \in ClientType /\ fd \in DOMAIN s.clients /\ s.clients[fd] = c
    BY OfClient
  <2>2. s.live[c].out \in BOOLEAN /\ s.live[c].close \in BOOLEAN
    BY <2>1 DEF ClientType
  <2> QED
    BY <2>1, <2>2, Fields
<1>2. /\ Touched(s, done, fd) /\ Linked(done) /\ done.live[c].out = FALSE
      /\ done.live[c].fd = fd /\ DOMAIN done.live = DOMAIN s.live
  <2> DEFINE k == [s.live[c] EXCEPT !.out = FALSE]
  <2>1. s.live[c] \in ClientType
    BY OfClient
  <2>2. k \in ClientType /\ k.fd = s.live[c].fd /\ k.out = FALSE
    BY <2>1 DEF ClientType
  <2>3. done = SetLive(s, c, k)
    BY DEF SetLive
  <2> HIDE DEF done, k
  <2> QED
    BY <2>2, <2>3, LiveSet
<1>3. done.clients = s.clients /\ done.workers = s.workers /\ IsTables(done)
  BY <1>2 DEF Touched
<1>4. t = CASE ~s.live[c].out -> Modify(s, fd, {"IN"})
            [] s.live[c].out /\ s.peer[fd] = "broken" -> Fault(s, "sigpipe")
            [] s.live[c].out /\ s.peer[fd] \in {"reset", "dataReset"} ->
                 CloseConnection(s, fd)
            [] OTHER ->
                 IF sent # "all" THEN s
                 ELSE IF s.live[c].close THEN CloseConnection(done, fd)
                 ELSE UpdateTimeout(m, c)
  BY DEF HandleWriteEvent
<1> HIDE DEF done, fd
<1>5. CASE ~s.live[c].out
  <2>1. t = Modify(s, fd, {"IN"})
    BY <1>4, <1>5
  <2>2. Touched(s, t, fd) /\ Linked(t) /\ t.interest[fd] = {"IN"} /\ t.live = s.live
    BY <1>1, <2>1, InterestSet
  <2> QED
    BY <1>1, <1>5, <2>2 DEF fd, Written, Emptied
<1>6. CASE s.live[c].out /\ s.peer[fd] = "broken"
  BY <1>1, <1>4, <1>6 DEF Written
<1>7. CASE s.live[c].out /\ s.peer[fd] \in {"reset", "dataReset"}
  <2>1. t = CloseConnection(s, fd)
    BY <1>4, <1>7
  <2> QED
    BY <1>1, <1>7, <2>1, CloseConnectionCloses DEF fd, Written
<1>8. CASE s.live[c].out /\ s.peer[fd] \notin {"broken", "reset", "dataReset"}
  <2>1. t = IF sent # "all" THEN s
            ELSE IF s.live[c].close THEN CloseConnection(done, fd)
            ELSE UpdateTimeout(m, c)
    BY <1>4, <1>8
  <2>2. CASE sent # "all"
    BY <1>1, <1>8, <2>1, <2>2 DEF Written
  <2>3. CASE sent = "all" /\ s.live[c].close
    <3>1. t = CloseConnection(done, fd)
      BY <2>1, <2>3
    <3>2. fd \in DOMAIN done.clients
          /\ done.workers = [x \in DOMAIN done.workers |-> done.workers[x]]
      BY <1>1, <1>3
    <3>3. Closed(done, t, fd)
      BY <1>3, <3>1, <3>2, CloseConnectionCloses
    <3>4. Closed(s, t, fd)
      BY <1>2, <3>3, TouchedClosed
    <3> QED
      BY <1>1, <1>8, <3>4 DEF fd, Written
  <2>4. CASE sent = "all" /\ ~s.live[c].close
    <3>1. t = UpdateTimeout(m, c)
      BY <2>1, <2>4
    <3>2. /\ Touched(done, m, fd) /\ Linked(m) /\ m.interest[fd] = {"IN"}
          /\ m.live = done.live
      BY <1>1, <1>2, <1>3, InterestSet
    <3> HIDE DEF m
    <3>3. /\ Touched(m, t, fd) /\ Linked(t) /\ t.interest = m.interest /\ t.live = m.live
      <4>1. c \in DOMAIN m.live /\ m.live[c].fd = fd
        BY <1>2, <3>2
      <4> QED
        BY <3>1, <3>2, <4>1, TimeoutUpdated
    <3>4. Touched(s, t, fd)
      BY <1>2, <3>2, <3>3, TouchedTwice
    <3> QED
      BY <1>2, <3>2, <3>3, <3>4 DEF fd, Written, Emptied
  <2> QED
    BY <1>1, <2>2, <2>3, <2>4
<1> QED
  BY <1>1, <1>5, <1>6, <1>7, <1>8

(* Client::onTimeout: the connection is closed unless the 408 kills the    *)
(* process, and a Client that was deleted meanwhile is read.               *)
LEMMA OnTimeoutCloses ==
    ASSUME NEW s, Linked(s), "sigpipe" \notin s.faults, NEW c \in DOMAIN s.live, NEW sent,
           NEW t, t = OnTimeout(s, c, sent)
    PROVE  \/ Types(t) /\ t.faults = s.faults \cup {"sigpipe"}
           \/ \E a : /\ Closed(s, a, s.live[c].fd)
                     /\ t = a \/ t = Fault(a, "freed")
<1> DEFINE fd == s.live[c].fd
           s1 == [s EXCEPT !.live[c].out = TRUE]
           w == HandleWriteEvent(s1, c, sent)
<1>1. /\ fd \in DOMAIN s.clients /\ s.clients[fd] = c
      /\ s.workers = [x \in DOMAIN s.workers |-> s.workers[x]]
      /\ fd \in s.open /\ s.table[fd] = TRUE /\ DOMAIN s.table = s.open
  BY OfClient, Fields
<1>2. /\ Touched(s, s1, fd) /\ Linked(s1) /\ s1.live[c].out = TRUE
      /\ s1.live[c].fd = fd /\ DOMAIN s1.live = DOMAIN s.live
  <2> DEFINE k == [s.live[c] EXCEPT !.out = TRUE]
  <2>1. s.live[c] \in ClientType
    BY OfClient
  <2>2. k \in ClientType /\ k.fd = s.live[c].fd /\ k.out = TRUE
    BY <2>1 DEF ClientType
  <2>3. s1 = SetLive(s, c, k)
    BY DEF SetLive
  <2> HIDE DEF s1, k
  <2> QED
    BY <2>2, <2>3, LiveSet
<1>3. t = IF "sigpipe" \in w.faults THEN w
          ELSE IF c \notin DOMAIN w.live THEN Fault(RemoveFd(w, fd), "freed")
          ELSE RemoveFd(w, w.live[c].fd)
  BY DEF OnTimeout
<1> HIDE DEF s1, fd
<1>4. s1.clients = s.clients /\ s1.faults = s.faults
  BY <1>2 DEF Touched
<1>5. \/ w = Fault(s1, "sigpipe")
      \/ Closed(s1, w, fd)
      \/ Touched(s1, w, fd) /\ Linked(w) /\ w.live[c].fd = fd
  <2>1. \/ w = Fault(s1, "sigpipe")
        \/ Closed(s1, w, fd)
        \/ w = s1
        \/ Touched(s1, w, fd) /\ Linked(w) /\ w.live[c].fd = fd
    <3> HIDE DEF w
    <3>1. w = HandleWriteEvent(s1, c, sent) /\ c \in DOMAIN s1.live
      BY <1>2 DEF w
    <3>2. Written(s1, w, c, s1.live[c].fd)
      BY <1>2, <3>1, WriteOutcome
    <3> QED
      BY <1>2, <3>2 DEF Written, Emptied
  <2>2. Touched(s1, s1, fd)
    <3>1. /\ s1.peer = [s1.peer EXCEPT ![fd] = s1.peer[fd]]
          /\ s1.interest = [s1.interest EXCEPT ![fd] = s1.interest[fd]]
          /\ s1.live = [s1.live EXCEPT ![s1.clients[fd]] = s1.live[s1.clients[fd]]]
      BY <1>2, Fields
    <3>2. IsTables(s1)
      BY <1>2, Fields
    <3> QED
      BY <3>1, <3>2 DEF Touched
  <2> QED
    BY <1>2, <2>1, <2>2
<1> HIDE DEF w
<1>6. CASE w = Fault(s1, "sigpipe")
  <2>1. IsTables(s1) /\ Types(s1)
    BY <1>2 DEF Linked, Types
  <2>2. w.faults = s.faults \cup {"sigpipe"} /\ Types(w)
    BY <1>4, <1>6, <2>1 DEF Types, IsTables, Fault
  <2> QED
    BY <1>3, <2>2
<1>7. CASE Closed(s1, w, fd)
  <2>1. Closed(s, w, fd)
    BY <1>2, <1>7, TouchedClosed
  <2>2. w.faults = s.faults /\ c \notin DOMAIN w.live
    BY <1>1, <2>1 DEF Closed, Without, Erase, Restrict
  <2>3. t = Fault(RemoveFd(w, fd), "freed")
    BY <1>3, <2>2
  <2>4. Closed(s, RemoveFd(w, fd), fd)
    BY <2>1, RemoveFdAgain
  <2> QED
    BY <2>3, <2>4 DEF fd
<1>8. CASE Touched(s1, w, fd) /\ Linked(w) /\ w.live[c].fd = fd
  <2>1. Touched(s, w, fd)
    BY <1>2, <1>8, TouchedTwice
  <2>2. /\ w.faults = s.faults /\ fd \in DOMAIN w.clients /\ IsTables(w)
        /\ w.workers = s.workers /\ w.table = s.table
        /\ w.live = [s.live EXCEPT ![c] = w.live[c]]
    BY <1>1, <2>1 DEF Touched
  <2>3. t = RemoveFd(w, fd)
    BY <1>3, <1>8, <2>2
  <2>4. Closed(w, t, fd)
    BY <1>1, <2>2, <2>3, RemoveFdCloses
  <2> QED
    BY <2>1, <2>4, TouchedClosed DEF fd
<1> QED
  BY <1>5, <1>6, <1>7, <1>8

-----------------------------------------------------------------------------
(* The same tables. *)
SameTables(s, t) ==
    /\ IsTables(t)
    /\ t.open = s.open /\ t.peer = s.peer /\ t.interest = s.interest
    /\ t.table = s.table /\ t.clients = s.clients
    /\ t.live = s.live /\ t.armed = s.armed /\ t.workers = s.workers
    /\ DOMAIN t.events = DOMAIN s.events
    /\ \A fd \in DOMAIN s.events : t.events[fd] = s.events[fd]
LEMMA SameKeeps ==
    ASSUME NEW s, NEW due, Good(s, due), NEW t, SameTables(s, t)
    PROVE  Good(t, due) /\ Gentle(s, t, {})
<1>1. Types(t)
  BY DEF SameTables, Good, Linked, Types
<1>2. Workers(t) = Workers(s)
  BY DEF SameTables, Workers
<1>3. Domains(t) /\ Listens(t)
  BY <1>2 DEF SameTables, Good, Linked, Domains, Listens
<1>4. \A fd \in DOMAIN t.clients : ClientOf(t, fd) /\ Watched(t, fd)
  BY DEF SameTables, Good, Linked, ClientOf, Watched, Domains
<1>5. \A c \in DOMAIN t.live : ObjectOf(t, c)
  BY DEF SameTables, Good, Linked, ObjectOf
<1>6. \A fd \in DOMAIN t.workers : WorkerOf(t, fd)
  BY DEF SameTables, Good, Linked, WorkerOf, Domains
<1>7. WorkersApart(t) /\ Timed(t, due)
  BY DEF SameTables, Good, Linked, WorkersApart, Timed
<1>8. Gentle(s, t, {})
  BY <1>2 DEF SameTables, Gentle, Quiet
<1> QED
  BY <1>1, <1>3, <1>4, <1>5, <1>6, <1>7, <1>8 DEF Good, Linked

(* What the kernel has for a client. *)
SetPeer(s, fd, p) == [s EXCEPT !.peer[fd] = p]
LEMMA PeerSet ==
    ASSUME NEW s, Linked(s), NEW fd \in DOMAIN s.clients, NEW p \in PeerStates,
           fd \in DOMAIN s.workers => p \notin HasData, NEW t, t = SetPeer(s, fd, p)
    PROVE  /\ Touched(s, t, fd) /\ Linked(t)
           /\ t.peer[fd] = p
           /\ t.interest = s.interest /\ t.live = s.live /\ t.armed = s.armed
           /\ t.faults = s.faults
<1> DEFINE c == s.clients[fd]
<1>1. /\ IsTables(s) /\ fd \in s.open /\ s.peer \in [s.open -> PeerStates]
      /\ s.interest \in [s.open -> SUBSET {"IN", "OUT"}]
      /\ s.live \in [DOMAIN s.live -> ClientType]
      /\ c \in DOMAIN s.live /\ s.live[c].fd = fd
  BY Fields DEF Linked, ClientOf
<1>2. /\ IsTables(t) /\ t.open = s.open /\ t.interest = s.interest
      /\ t.peer = [s.peer EXCEPT ![fd] = p]
      /\ t.table = s.table /\ t.events = s.events /\ t.clients = s.clients
      /\ t.live = s.live /\ t.armed = s.armed /\ t.workers = s.workers
      /\ t.faults = s.faults
  BY <1>1 DEF IsTables, SetPeer
<1> HIDE DEF c
<1>3. t.peer[fd] = p /\ t.peer = [s.peer EXCEPT ![fd] = t.peer[fd]]
  BY <1>1, <1>2
<1>4. /\ s.interest = [s.interest EXCEPT ![fd] = s.interest[fd]]
      /\ s.interest[fd] \in SUBSET {"IN", "OUT"}
      /\ s.live = [s.live EXCEPT ![c] = s.live[c]]
      /\ s.live[c] \in ClientType
  BY <1>1
<1>5. Touched(s, t, fd)
  BY <1>2, <1>3, <1>4 DEF Touched, c
<1>6. Linked(t)
  <2>1. /\ t.peer[fd] \in PeerStates /\ t.interest[fd] \in SUBSET {"IN", "OUT"}
        /\ t.live[s.clients[fd]] \in ClientType /\ t.live[s.clients[fd]].fd = fd
    BY <1>1, <1>2, <1>3, <1>4 DEF c
  <2>2. fd \in DOMAIN s.workers => t.peer[fd] \notin HasData
    BY <1>3
  <2> QED
    BY <1>5, <2>1, <2>2, TouchedLinked
<1> QED
  BY <1>2, <1>3, <1>5, <1>6

(* What a handler of fd comes to: the process is killed, or all is well.   *)
Fine(s, t, about) == Good(t, {}) /\ Gentle(s, t, about) /\ t.faults = s.faults
Handled(s, t, about) ==
    \/ Types(t) /\ t.faults = s.faults \cup {"sigpipe"}
    \/ Fine(s, t, about)

LEMMA ClosedFine ==
    ASSUME NEW s, Good(s, {}), NEW fd \in DOMAIN s.clients, NEW t, Closed(s, t, fd)
    PROVE  Fine(s, t, {}) /\ DOMAIN t.clients = DOMAIN s.clients \ {fd}
<1> DEFINE due == {}
<1>1. Good(s, due) /\ due \ {s.clients[fd]} = {}
  OBVIOUS
<1> HIDE DEF due
<1>2. /\ Good(t, due \ {s.clients[fd]}) /\ Gentle(s, t, {}) /\ t.faults = s.faults
      /\ DOMAIN t.clients = DOMAIN s.clients \ {fd}
  BY <1>1, ClosedKeeps
<1> QED
  BY <1>1, <1>2 DEF Fine

LEMMA WriteKeeps ==
    ASSUME NEW s, Good(s, {}), NEW c \in DOMAIN s.live, NEW sent, NEW t,
           t = HandleWriteEvent(s, c, sent)
    PROVE  /\ Handled(s, t, {s.live[c].fd})
           /\ Quiet(s, s.live[c].fd) => s.live[c].fd \in DOMAIN t.clients
<1> DEFINE fd == s.live[c].fd
<1>1. /\ Linked(s) /\ fd \in DOMAIN s.clients /\ s.clients[fd] = c
  BY OfClient DEF Good
<1> HIDE DEF fd
<1>2. Written(s, t, c, fd)
  BY <1>1, WriteOutcome DEF fd
<1>3. CASE s.live[c].out = TRUE /\ t = Fault(s, "sigpipe")
  <2>1. Types(t) /\ t.faults = s.faults \cup {"sigpipe"}
    BY <1>1, <1>3 DEF Linked, Types, IsTables, Fault
  <2> QED
    BY <1>1, <1>3, <2>1 DEF Handled, Fine, Quiet, fd
<1>4. CASE s.live[c].out = TRUE /\ Closed(s, t, fd)
  <2>1. Fine(s, t, {})
    BY <1>1, <1>4, ClosedFine
  <2>2. Fine(s, t, {fd})
    BY <2>1 DEF Fine, Gentle
  <2> QED
    BY <1>1, <1>4, <2>2 DEF Handled, Quiet, fd
<1>5. CASE s.live[c].out = TRUE /\ t = s
  BY <1>1, <1>5 DEF Handled, Fine, Gentle, fd
<1>6. CASE Emptied(s, t, c, fd)
  <2>1. Watched(t, fd) /\ t.clients = s.clients /\ t.faults = s.faults
    BY <1>1, <1>6 DEF Emptied, Watched, Touched
  <2>2. Good(t, {}) /\ Gentle(s, t, {fd})
    BY <1>1, <1>6, <2>1, TouchedKeeps DEF Emptied
  <2> QED
    BY <1>1, <2>1, <2>2 DEF Handled, Fine, fd
<1> QED
  BY <1>2, <1>3, <1>4, <1>5, <1>6 DEF Written

-----------------------------------------------------------------------------
(* A worker is gone, its client is not. *)
Ended(s, t, fd) ==
    /\ Without(s, t, {s.workers[fd]})
    /\ t.clients = s.clients /\ t.live = s.live /\ t.armed = s.armed
    /\ t.workers = Erase(s.workers, {fd})
LEMMA EndedKeeps ==
    ASSUME NEW s, NEW due, Good(s, due), NEW fd \in DOMAIN s.workers, NEW t, Ended(s, t, fd)
    PROVE  Good(t, due) /\ Gentle(s, t, {})
<1> DEFINE w == s.workers[fd]
<1>1. /\ w \in s.open /\ w \notin DOMAIN s.clients /\ w # Listener
      /\ \A f \in DOMAIN s.workers : f # fd => s.workers[f] # w
      /\ \A f \in DOMAIN s.clients : f \in s.open \ {w}
      /\ \A f \in DOMAIN s.workers : s.workers[f] \in s.open /\ f \in DOMAIN s.clients
  BY DEF Good, Linked, WorkerOf, WorkersApart, ClientOf
<1>2. /\ DOMAIN s.peer = s.open /\ DOMAIN s.interest = s.open
      /\ DOMAIN s.table = s.open /\ DOMAIN s.events = s.open
  BY DEF Good, Linked, Types, Domains
<1> HIDE DEF w
<1>3. /\ DOMAIN t.peer = s.open \ {w} /\ DOMAIN t.interest = s.open \ {w}
      /\ DOMAIN t.table = s.open \ {w} /\ DOMAIN t.events = s.open \ {w}
      /\ \A x \in s.open \ {w} :
            /\ t.peer[x] = s.peer[x] /\ t.interest[x] = s.interest[x]
            /\ t.table[x] = s.table[x] /\ t.events[x] = s.events[x]
  BY <1>2 DEF Ended, Without, Erase, Restrict, w
<1>4. /\ t.open = s.open \ {w} /\ IsTables(t)
      /\ t.clients = s.clients /\ t.live = s.live /\ t.armed = s.armed
      /\ DOMAIN t.workers = DOMAIN s.workers \ {fd}
      /\ \A f \in DOMAIN t.workers : t.workers[f] = s.workers[f]
  BY DEF Ended, Without, Erase, Restrict, w
<1>5. Types(t)
  <2>1. /\ s.peer \in [s.open -> PeerStates]
        /\ s.interest \in [DOMAIN s.interest -> SUBSET {"IN", "OUT"}]
        /\ s.table \in [DOMAIN s.table -> BOOLEAN]
        /\ s.workers \in [DOMAIN s.workers -> Fds]
    BY DEF Good, Linked, Types
  <2>2. /\ t.peer \in [DOMAIN t.peer -> PeerStates]
        /\ t.interest \in [DOMAIN t.interest -> SUBSET {"IN", "OUT"}]
        /\ t.table \in [DOMAIN t.table -> BOOLEAN]
    BY <2>1 DEF Ended, Without, Erase, Restrict
  <2>3. t.workers \in [DOMAIN t.workers -> Fds]
    BY <2>1 DEF Ended, Erase, Restrict
  <2> QED
    BY <1>3, <1>4, <2>2, <2>3 DEF Types, Good, Linked
<1>6. Domains(t)
  <2>1. \A x \in t.open : x = Listener \/ x \in DOMAIN t.clients \/ x \in Workers(t)
    <3> SUFFICES ASSUME NEW x \in t.open, x # Listener, x \notin DOMAIN t.clients
                 PROVE  x \in Workers(t)
      OBVIOUS
    <3>1. PICK f \in DOMAIN s.workers : s.workers[f] = x
      BY <1>4 DEF Good, Linked, Domains, Workers
    <3>2. f # fd
      BY <1>4, <3>1 DEF w
    <3> QED
      BY <1>4, <3>1, <3>2 DEF Workers
  <2>2. Listener \in t.open
    BY <1>1, <1>4 DEF Good, Linked, Domains
  <2> QED
    BY <1>3, <1>4, <2>1, <2>2 DEF Domains
<1>7. Listens(t)
  <2>1. Listener \in s.open \ {w}
    BY <1>1 DEF Good, Linked, Domains
  <2> QED
    BY <1>3, <1>4, <2>1 DEF Good, Linked, Listens
<1>8. \A f \in DOMAIN t.clients : ClientOf(t, f) /\ Watched(t, f)
  <2> SUFFICES ASSUME NEW f \in DOMAIN s.clients
               PROVE  ClientOf(t, f) /\ Watched(t, f)
    BY <1>4
  <2>1. ClientOf(s, f) /\ Watched(s, f) /\ f \in s.open \ {w}
    BY <1>1 DEF Good, Linked
  <2> QED
    BY <1>3, <1>4, <2>1 DEF ClientOf, Watched
<1>9. \A x \in DOMAIN t.live : ObjectOf(t, x)
  BY <1>4 DEF Good, Linked, ObjectOf
<1>10. \A f \in DOMAIN t.workers : WorkerOf(t, f)
  <2> SUFFICES ASSUME NEW f \in DOMAIN t.workers
               PROVE  WorkerOf(t, f)
    OBVIOUS
  <2>1. f \in DOMAIN s.workers /\ f # fd /\ WorkerOf(s, f) /\ t.workers[f] = s.workers[f]
    BY <1>4 DEF Good, Linked
  <2>2. s.workers[f] \in s.open \ {w} /\ f \in s.open \ {w}
    BY <1>1, <2>1
  <2> QED
    BY <1>3, <1>4, <2>1, <2>2 DEF WorkerOf
<1>11. WorkersApart(t)
  BY <1>4 DEF Good, Linked, WorkersApart
<1>12. Timed(t, due)
  BY <1>4 DEF Good, Timed
<1>13. Gentle(s, t, {})
  <2> SUFFICES ASSUME NEW f \in Fds
               PROVE  /\ f \in Workers(t) => f \in Workers(s) /\ t.peer[f] = s.peer[f]
                      /\ f \in DOMAIN t.clients /\ ~Quiet(t, f) =>
                            f \in DOMAIN s.clients /\ ~Quiet(s, f)
    BY DEF Gentle
  <2>1. ASSUME f \in Workers(t)
        PROVE  f \in Workers(s) /\ t.peer[f] = s.peer[f]
    <3>1. PICK g \in DOMAIN t.workers : t.workers[g] = f
      BY <2>1 DEF Workers
    <3>2. g \in DOMAIN s.workers /\ g # fd /\ s.workers[g] = f
      BY <1>4, <3>1
    <3>3. f \in s.open \ {w}
      BY <1>1, <3>2
    <3> QED
      BY <1>3, <3>2, <3>3 DEF Workers
  <2>2. f \in DOMAIN t.clients /\ ~Quiet(t, f) => f \in DOMAIN s.clients /\ ~Quiet(s, f)
    BY <1>4 DEF Quiet
  <2> QED
    BY <2>1, <2>2
<1> QED
  BY <1>5, <1>6, <1>7, <1>8, <1>9, <1>10, <1>11, <1>12, <1>13 DEF Good, Linked

-----------------------------------------------------------------------------
(* A client gets a worker with a descriptor that was free. *)
Started(s, t, fd, w) ==
    /\ IsTables(t)
    /\ t.open = s.open \cup {w}
    /\ t.peer = Put(s.peer, w, "idle")
    /\ t.interest = Put(s.interest, w, {"IN"})
    /\ t.table = Put(s.table, w, FALSE)
    /\ t.events = Put(s.events, w, <<Event("cgiEnd", s.clients[fd])>>)
    /\ t.workers = Put(s.workers, fd, w)
    /\ t.clients = s.clients /\ t.live = s.live /\ t.armed = s.armed
    /\ t.faults = s.faults
LEMMA StartedKeeps ==
    ASSUME NEW s, NEW due, Good(s, due), NEW fd \in DOMAIN s.clients,
           fd \notin DOMAIN s.workers, s.peer[fd] \notin HasData,
           NEW w \in Fds \ s.open, NEW t, Started(s, t, fd, w)
    PROVE  Good(t, due) /\ Gentle(s, t, {fd, w})
<1>1. /\ w \notin DOMAIN s.clients /\ w # Listener /\ Listener \in s.open
      /\ \A f \in DOMAIN s.clients : f \in s.open
      /\ \A f \in DOMAIN s.workers : s.workers[f] \in s.open /\ f \in DOMAIN s.clients
  BY DEF Good, Linked, WorkerOf, ClientOf, Domains
<1>2. /\ DOMAIN s.peer = s.open /\ DOMAIN s.interest = s.open
      /\ DOMAIN s.table = s.open /\ DOMAIN s.events = s.open
  BY DEF Good, Linked, Types, Domains
<1>3. /\ DOMAIN t.peer = t.open /\ DOMAIN t.interest = t.open
      /\ DOMAIN t.table = t.open /\ DOMAIN t.events = t.open
      /\ \A x \in s.open :
            /\ t.peer[x] = s.peer[x] /\ t.interest[x] = s.interest[x]
            /\ t.table[x] = s.table[x] /\ t.events[x] = s.events[x]
      /\ t.peer[w] = "idle" /\ t.interest[w] = {"IN"} /\ t.table[w] = FALSE
      /\ t.events[w] = <<Event("cgiEnd", s.clients[fd])>>
  <2>1. /\ DOMAIN t.peer = t.open /\ t.peer[w] = "idle"
        /\ \A x \in s.open : t.peer[x] = s.peer[x]
    BY <1>2 DEF Started, Put
  <2>2. /\ DOMAIN t.interest = t.open /\ t.interest[w] = {"IN"}
        /\ \A x \in s.open : t.interest[x] = s.interest[x]
    BY <1>2 DEF Started, Put
  <2>3. /\ DOMAIN t.table = t.open /\ t.table[w] = FALSE
        /\ \A x \in s.open : t.table[x] = s.table[x]
    <3> DEFINE v == FALSE
    <3>1. t.table = Put(s.table, w, v) /\ t.open = s.open \cup {w}
      BY DEF Started
    <3> HIDE DEF v
    <3>2. /\ DOMAIN t.table = t.open /\ t.table[w] = v
          /\ \A x \in s.open : t.table[x] = s.table[x]
      BY <1>2, <3>1 DEF Put
    <3> QED BY <3>2 DEF v
  <2>4. /\ DOMAIN t.events = t.open
        /\ t.events[w] = <<Event("cgiEnd", s.clients[fd])>>
        /\ \A x \in s.open : t.events[x] = s.events[x]
    <3> DEFINE v == <<Event("cgiEnd", s.clients[fd])>>
    <3>1. t.events = Put(s.events, w, v) /\ t.open = s.open \cup {w}
      BY DEF Started
    <3> HIDE DEF v
    <3>2. /\ DOMAIN t.events = t.open /\ t.events[w] = v
          /\ \A x \in s.open : t.events[x] = s.events[x]
      BY <1>2, <3>1 DEF Put
    <3> QED BY <3>2 DEF v
  <2> QED
    BY <2>1, <2>2, <2>3, <2>4
<1>4. /\ t.open = s.open \cup {w} /\ IsTables(t)
      /\ t.clients = s.clients /\ t.live = s.live /\ t.armed = s.armed
      /\ DOMAIN t.workers = DOMAIN s.workers \cup {fd} /\ t.workers[fd] = w
      /\ \A f \in DOMAIN s.workers : t.workers[f] = s.workers[f]
  BY DEF Started, Put
<1>5. Types(t)
  <2>1. /\ s.peer \in [s.open -> PeerStates]
        /\ s.interest \in [DOMAIN s.interest -> SUBSET {"IN", "OUT"}]
        /\ s.table \in [DOMAIN s.table -> BOOLEAN]
        /\ s.workers \in [DOMAIN s.workers -> Fds]
    BY DEF Good, Linked, Types
  <2>2. t.peer \in [t.open -> PeerStates]
    <3>1. "idle" \in PeerStates
      BY DEF PeerStates
    <3> QED
      BY <1>3, <2>1, <3>1 DEF Started, Put
  <2>3. t.interest \in [DOMAIN t.interest -> SUBSET {"IN", "OUT"}]
    BY <2>1 DEF Started, Put
  <2>4. t.table \in [DOMAIN t.table -> BOOLEAN]
    <3> DEFINE v == FALSE
    <3>1. t.table = Put(s.table, w, v) /\ v \in BOOLEAN
      BY DEF Started
    <3> HIDE DEF v
    <3> QED
      BY <2>1, <3>1 DEF Put
  <2>5. t.workers \in [DOMAIN t.workers -> Fds]
    BY <2>1 DEF Started, Put
  <2> QED
    BY <1>4, <2>2, <2>3, <2>4, <2>5 DEF Types, Good, Linked
<1>6. Domains(t)
  <2>1. \A x \in t.open : x = Listener \/ x \in DOMAIN t.clients \/ x \in Workers(t)
    <3> SUFFICES ASSUME NEW x \in t.open, x # Listener, x \notin DOMAIN t.clients
                 PROVE  x \in Workers(t)
      OBVIOUS
    <3>1. CASE x = w
      BY <1>4, <3>1 DEF Workers
    <3>2. CASE x # w
      <4>1. PICK f \in DOMAIN s.workers : s.workers[f] = x
        BY <1>4, <3>2 DEF Good, Linked, Domains, Workers
      <4> QED
        BY <1>4, <4>1 DEF Workers
    <3> QED BY <3>1, <3>2
  <2> QED
    BY <1>1, <1>3, <1>4, <2>1 DEF Domains
<1>7. Listens(t)
  BY <1>1, <1>3, <1>4 DEF Good, Linked, Listens
<1>8. \A f \in DOMAIN t.clients : ClientOf(t, f) /\ Watched(t, f)
  <2> SUFFICES ASSUME NEW f \in DOMAIN s.clients
               PROVE  ClientOf(t, f) /\ Watched(t, f)
    BY <1>4
  <2>1. ClientOf(s, f) /\ Watched(s, f) /\ f \in s.open
    BY <1>1 DEF Good, Linked
  <2> QED
    BY <1>3, <1>4, <2>1 DEF ClientOf, Watched
<1>9. \A x \in DOMAIN t.live : ObjectOf(t, x)
  BY <1>4 DEF Good, Linked, ObjectOf
<1>10. \A f \in DOMAIN t.workers : WorkerOf(t, f)
  <2> SUFFICES ASSUME NEW f \in DOMAIN t.workers
               PROVE  WorkerOf(t, f)
    OBVIOUS
  <2>1. CASE f = fd
    BY <1>1, <1>3, <1>4, <2>1 DEF WorkerOf
  <2>2. CASE f # fd
    <3>1. f \in DOMAIN s.workers /\ WorkerOf(s, f) /\ t.workers[f] = s.workers[f]
      BY <1>4, <2>2 DEF Good, Linked
    <3>2. s.workers[f] \in s.open /\ f \in s.open
      BY <1>1, <3>1
    <3> QED
      BY <1>3, <1>4, <3>1, <3>2 DEF WorkerOf
  <2> QED BY <2>1, <2>2
<1>11. WorkersApart(t)
  BY <1>1, <1>4 DEF Good, Linked, WorkersApart
<1>12. Timed(t, due)
  BY <1>4 DEF Good, Timed
<1>13. Gentle(s, t, {fd, w})
  <2> SUFFICES ASSUME NEW f \in Fds, f # fd, f # w
               PROVE  /\ f \in Workers(t) => f \in Workers(s) /\ t.peer[f] = s.peer[f]
                      /\ f \in DOMAIN t.clients /\ ~Quiet(t, f) =>
                            f \in DOMAIN s.clients /\ ~Quiet(s, f)
    BY DEF Gentle
  <2>1. ASSUME f \in Workers(t)
        PROVE  f \in Workers(s) /\ t.peer[f] = s.peer[f]
    <3>1. PICK g \in DOMAIN t.workers : t.workers[g] = f
      BY <2>1 DEF Workers
    <3>2. g \in DOMAIN s.workers /\ s.workers[g] = f
      BY <1>4, <3>1
    <3> QED
      BY <1>1, <1>3, <3>2 DEF Workers
  <2>2. f \in DOMAIN t.clients /\ ~Quiet(t, f) => f \in DOMAIN s.clients /\ ~Quiet(s, f)
    BY <1>4 DEF Quiet
  <2> QED
    BY <2>1, <2>2
<1> QED
  BY <1>5, <1>6, <1>7, <1>8, <1>9, <1>10, <1>11, <1>12, <1>13 DEF Good, Linked

(* A connection was accepted with a descriptor and an address that were    *)
(* free. *)
Accepted(s, t, fd, c) ==
    /\ IsTables(t)
    /\ t.open = s.open \cup {fd}
    /\ t.peer = Put(s.peer, fd, "idle")
    /\ t.interest = Put(s.interest, fd, {"IN"})
    /\ t.table = Put(s.table, fd, TRUE)
    /\ t.events = Put(s.events, fd, <<Event("read", c), Event("write", c)>>)
    /\ t.clients = Put(s.clients, fd, c)
    /\ t.live = Put(s.live, c, [fd |-> fd, out |-> FALSE, close |-> FALSE])
    /\ t.armed = s.armed \cup {c}
    /\ t.workers = s.workers
    /\ t.faults = s.faults
LEMMA AcceptedKeeps ==
    ASSUME NEW s, Good(s, {}), NEW fd \in Fds \ s.open, NEW c \in Ptrs \ DOMAIN s.live,
           NEW t, Accepted(s, t, fd, c)
    PROVE  Good(t, {}) /\ Gentle(s, t, {})
<1>1. /\ fd \notin DOMAIN s.clients /\ fd # Listener /\ Listener \in s.open
      /\ \A f \in DOMAIN s.clients : f \in s.open /\ s.clients[f] \in DOMAIN s.live
      /\ \A f \in DOMAIN s.workers : s.workers[f] \in s.open /\ f \in DOMAIN s.clients
  BY DEF Good, Linked, WorkerOf, ClientOf, Domains
<1>2. /\ DOMAIN s.peer = s.open /\ DOMAIN s.interest = s.open
      /\ DOMAIN s.table = s.open /\ DOMAIN s.events = s.open
  BY DEF Good, Linked, Types, Domains
<1>3. /\ DOMAIN t.peer = t.open /\ DOMAIN t.interest = t.open
      /\ DOMAIN t.table = t.open /\ DOMAIN t.events = t.open
      /\ \A x \in s.open :
            /\ t.peer[x] = s.peer[x] /\ t.interest[x] = s.interest[x]
            /\ t.table[x] = s.table[x] /\ t.events[x] = s.events[x]
      /\ t.peer[fd] = "idle" /\ t.interest[fd] = {"IN"} /\ t.table[fd] = TRUE
      /\ t.events[fd] = <<Event("read", c), Event("write", c)>>
  <2>1. /\ DOMAIN t.peer = t.open /\ t.peer[fd] = "idle"
        /\ \A x \in s.open : t.peer[x] = s.peer[x]
    BY <1>2 DEF Accepted, Put
  <2>2. /\ DOMAIN t.interest = t.open /\ t.interest[fd] = {"IN"}
        /\ \A x \in s.open : t.interest[x] = s.interest[x]
    BY <1>2 DEF Accepted, Put
  <2>3. /\ DOMAIN t.table = t.open /\ t.table[fd] = TRUE
        /\ \A x \in s.open : t.table[x] = s.table[x]
    <3> DEFINE v == TRUE
    <3>1. t.table = Put(s.table, fd, v) /\ t.open = s.open \cup {fd}
      BY DEF Accepted
    <3> HIDE DEF v
    <3>2. /\ DOMAIN t.table = t.open /\ t.table[fd] = v
          /\ \A x \in s.open : t.table[x] = s.table[x]
      BY <1>2, <3>1 DEF Put
    <3> QED BY <3>2 DEF v
  <2>4. /\ DOMAIN t.events = t.open
        /\ t.events[fd] = <<Event("read", c), Event("write", c)>>
        /\ \A x \in s.open : t.events[x] = s.events[x]
    <3> DEFINE v == <<Event("read", c), Event("write", c)>>
    <3>1. t.events = Put(s.events, fd, v) /\ t.open = s.open \cup {fd}
      BY DEF Accepted
    <3> HIDE DEF v
    <3>2. /\ DOMAIN t.events = t.open /\ t.events[fd] = v
          /\ \A x \in s.open : t.events[x] = s.events[x]
      BY <1>2, <3>1 DEF Put
    <3> QED BY <3>2 DEF v
  <2> QED
    BY <2>1, <2>2, <2>3, <2>4
<1>4. /\ t.open = s.open \cup {fd} /\ IsTables(t) /\ t.workers = s.workers
      /\ DOMAIN t.clients = DOMAIN s.clients \cup {fd} /\ t.clients[fd] = c
      /\ \A f \in DOMAIN s.clients : t.clients[f] = s.clients[f]
      /\ DOMAIN t.live = DOMAIN s.live \cup {c}
      /\ t.live[c] = [fd |-> fd, out |-> FALSE, close |-> FALSE]
      /\ \A x \in DOMAIN s.live : t.live[x] = s.live[x]
  BY <1>1 DEF Accepted, Put
<1>5. Types(t)
  <2>1. /\ s.peer \in [s.open -> PeerStates]
        /\ s.interest \in [DOMAIN s.interest -> SUBSET {"IN", "OUT"}]
        /\ s.table \in [DOMAIN s.table -> BOOLEAN]
        /\ s.workers \in [DOMAIN s.workers -> Fds]
        /\ s.clients \in [DOMAIN s.clients -> Ptrs]
        /\ s.live \in [DOMAIN s.live -> ClientType]
        /\ s.armed \subseteq Ptrs
    BY DEF Good, Linked, Types, ClientType
  <2>2. t.peer \in [t.open -> PeerStates]
    <3>1. "idle" \in PeerStates
      BY DEF PeerStates
    <3> QED
      BY <1>3, <2>1, <3>1 DEF Accepted, Put
  <2>3. t.interest \in [DOMAIN t.interest -> SUBSET {"IN", "OUT"}]
    BY <2>1 DEF Accepted, Put
  <2>4. t.table \in [DOMAIN t.table -> BOOLEAN]
    <3> DEFINE v == TRUE
    <3>1. t.table = Put(s.table, fd, v) /\ v \in BOOLEAN
      BY DEF Accepted
    <3> HIDE DEF v
    <3> QED
      BY <2>1, <3>1 DEF Put
  <2>5. t.clients \in [DOMAIN t.clients -> Ptrs]
    BY <2>1 DEF Accepted, Put
  <2>6. t.live \in [DOMAIN t.live -> ClientType]
    <3>1. t.live[c] \in ClientType
      BY <1>4 DEF ClientType
    <3>2. \A x \in DOMAIN t.live : t.live[x] \in ClientType
      BY <1>4, <2>1, <3>1
    <3>3. t.live = [x \in DOMAIN t.live |-> t.live[x]]
      BY DEF Accepted, Put
    <3> QED BY <3>2, <3>3
  <2>7. t.armed \subseteq Ptrs
    BY <2>1 DEF Accepted
  <2> QED
    BY <1>3, <1>4, <2>1, <2>2, <2>3, <2>4, <2>5, <2>6, <2>7 DEF Types, Good, Linked, ClientType
<1>6. Domains(t)
  <2>1. \A x \in t.open : x = Listener \/ x \in DOMAIN t.clients \/ x \in Workers(t)
    BY <1>4 DEF Good, Linked, Domains, Workers
  <2> QED
    BY <1>1, <1>3, <1>4, <2>1 DEF Domains
<1>7. Listens(t)
  BY <1>1, <1>3, <1>4 DEF Good, Linked, Listens
<1>8. \A f \in DOMAIN t.clients : ClientOf(t, f) /\ Watched(t, f)
  <2> SUFFICES ASSUME NEW f \in DOMAIN t.clients
               PROVE  ClientOf(t, f) /\ Watched(t, f)
    OBVIOUS
  <2>1. CASE f = fd
    <3>1. t.live[c].fd = fd /\ t.live[c].out = FALSE
      BY <1>4
    <3> QED
      BY <1>3, <1>4, <2>1, <3>1 DEF ClientOf, Watched
  <2>2. CASE f # fd
    <3>1. f \in DOMAIN s.clients /\ ClientOf(s, f) /\ Watched(s, f) /\ f \in s.open
      BY <1>1, <1>4, <2>2 DEF Good, Linked
    <3> QED
      BY <1>1, <1>3, <1>4, <3>1 DEF ClientOf, Watched
  <2> QED BY <2>1, <2>2
<1>9. \A x \in DOMAIN t.live : ObjectOf(t, x)
  <2> SUFFICES ASSUME NEW x \in DOMAIN t.live
               PROVE  ObjectOf(t, x)
    OBVIOUS
  <2>1. CASE x = c
    BY <1>4, <2>1 DEF ObjectOf
  <2>2. CASE x # c
    BY <1>4, <2>2 DEF Good, Linked, ObjectOf
  <2> QED BY <2>1, <2>2
<1>10. \A f \in DOMAIN t.workers : WorkerOf(t, f)
  <2> SUFFICES ASSUME NEW f \in DOMAIN s.workers
               PROVE  WorkerOf(t, f)
    BY <1>4
  <2>1. WorkerOf(s, f) /\ s.workers[f] \in s.open /\ f \in s.open /\ f \in DOMAIN s.clients
    BY <1>1 DEF Good, Linked
  <2> QED
    BY <1>1, <1>3, <1>4, <2>1 DEF WorkerOf
<1>11. WorkersApart(t)
  BY <1>4 DEF Good, Linked, WorkersApart
<1>12. Timed(t, {})
  BY <1>4 DEF Good, Timed, Accepted
<1>13. Gentle(s, t, {})
  <2> SUFFICES ASSUME NEW f \in Fds
               PROVE  /\ f \in Workers(t) => f \in Workers(s) /\ t.peer[f] = s.peer[f]
                      /\ f \in DOMAIN t.clients /\ ~Quiet(t, f) =>
                            f \in DOMAIN s.clients /\ ~Quiet(s, f)
    BY DEF Gentle
  <2>1. f \in Workers(t) => f \in Workers(s) /\ t.peer[f] = s.peer[f]
    BY <1>1, <1>3, <1>4 DEF Workers
  <2>2. f \in DOMAIN t.clients /\ ~Quiet(t, f) => f \in DOMAIN s.clients /\ ~Quiet(s, f)
    <3>1. CASE f = fd
      <4>1. t.live[c].out = FALSE
        BY <1>4
      <4> QED
        BY <1>1, <1>4, <3>1, <4>1 DEF Quiet
    <3>2. CASE f # fd
      BY <1>1, <1>4, <3>2 DEF Quiet
    <3> QED BY <3>1, <3>2
  <2> QED
    BY <2>1, <2>2
<1> QED
  BY <1>5, <1>6, <1>7, <1>8, <1>9, <1>10, <1>11, <1>12, <1>13 DEF Good, Linked

-----------------------------------------------------------------------------
LEMMA TouchedFine ==
    ASSUME NEW s, Good(s, {}), NEW fd \in DOMAIN s.clients, NEW t,
           Touched(s, t, fd), Linked(t), Watched(t, fd)
    PROVE  Fine(s, t, {fd})
<1>1. Good(t, {}) /\ Gentle(s, t, {fd})
  BY TouchedKeeps
<1>2. t.faults = s.faults
  BY DEF Touched
<1> QED BY <1>1, <1>2 DEF Fine

LEMMA FineTwice ==
    ASSUME NEW s, NEW a, NEW t, NEW A, NEW B, NEW C, Fine(s, a, A), Fine(a, t, B),
           A \subseteq C, B \subseteq C
    PROVE  Fine(s, t, C)
<1>1. Gentle(s, a, A) /\ Gentle(a, t, B)
  BY DEF Fine
<1>2. Gentle(s, t, C)
  <2> SUFFICES ASSUME NEW f \in Fds, f \notin C
               PROVE  /\ f \in Workers(t) => f \in Workers(s) /\ t.peer[f] = s.peer[f]
                      /\ f \in DOMAIN t.clients /\ ~Quiet(t, f) =>
                            f \in DOMAIN s.clients /\ ~Quiet(s, f)
    BY DEF Gentle
  <2>1. /\ f \in Workers(t) => f \in Workers(a) /\ t.peer[f] = a.peer[f]
        /\ f \in DOMAIN t.clients /\ ~Quiet(t, f) => f \in DOMAIN a.clients /\ ~Quiet(a, f)
        /\ f \in Workers(a) => f \in Workers(s) /\ a.peer[f] = s.peer[f]
        /\ f \in DOMAIN a.clients /\ ~Quiet(a, f) => f \in DOMAIN s.clients /\ ~Quiet(s, f)
    BY <1>1 DEF Gentle
  <2> QED BY <2>1
<1> QED
  BY <1>2 DEF Fine

Serves(s, t, c, about) ==
    /\ Fine(s, t, about)
    /\ c \in DOMAIN t.live
    /\ t.live[c].fd = s.live[c].fd
    /\ t.clients = s.clients

(* HttpConnection::generateResponse. *)
LEMMA ResponseFine ==
    ASSUME NEW s, Good(s, {}), NEW c \in DOMAIN s.live, NEW close \in BOOLEAN, NEW t,
           t = GenerateResponse(s, c, close)
    PROVE  Serves(s, t, c, {s.live[c].fd})
<1> DEFINE fd == s.live[c].fd
           k == [s.live[c] EXCEPT !.out = TRUE, !.close = close]
           a == SetLive(s, c, k)
<1>1. /\ fd \in DOMAIN s.clients /\ s.clients[fd] = c /\ s.live[c] \in ClientType
      /\ Linked(s)
  BY OfClient DEF Good
<1>2. k \in ClientType /\ k.fd = s.live[c].fd /\ k.out = TRUE
  BY <1>1 DEF ClientType
<1>3. t = Modify(a, fd, {"IN", "OUT"})
  <2> DEFINE b == [s EXCEPT !.live[c].out = TRUE, !.live[c].close = close]
  <2>0. s.live \in [DOMAIN s.live -> ClientType] /\ IsTables(s)
    BY <1>1, Fields
  <2>1. b.live = [s.live EXCEPT ![c] = k]
    BY <1>1, <2>0 DEF IsTables, ClientType
  <2>2. b = [s EXCEPT !.live = b.live]
    BY <2>0 DEF IsTables
  <2>3. a = [s EXCEPT !.live = [s.live EXCEPT ![c] = k]]
    BY DEF SetLive
  <2>4. t = Modify(b, fd, {"IN", "OUT"})
    BY DEF GenerateResponse
  <2> HIDE DEF a, b, k
  <2> QED
    BY <2>1, <2>2, <2>3, <2>4
<1> HIDE DEF fd, k, a
<1>4. /\ Touched(s, a, fd) /\ Linked(a) /\ a.live[c] = k /\ DOMAIN a.live = DOMAIN s.live
  BY <1>1, <1>2, LiveSet DEF a, fd
<1>5. a.clients = s.clients
  BY <1>4 DEF Touched
<1>6. /\ Touched(a, t, fd) /\ Linked(t) /\ t.interest[fd] = {"IN", "OUT"} /\ t.live = a.live
  BY <1>1, <1>3, <1>4, <1>5, InterestSet
<1>7. Touched(s, t, fd) /\ t.clients = s.clients
  <2>1. Touched(s, t, fd)
    BY <1>4, <1>6, TouchedTwice
  <2> QED
    BY <2>1 DEF Touched
<1>8. Watched(t, fd)
  BY <1>1, <1>2, <1>4, <1>6, <1>7 DEF Watched
<1>9. Fine(s, t, {fd})
  BY <1>1, <1>6, <1>7, <1>8, TouchedFine
<1> QED
  BY <1>2, <1>4, <1>6, <1>7, <1>9 DEF fd, Serves

(* CgiManager::createWorker. *)
LEMMA CreateWorkerFine ==
    ASSUME NEW s, Good(s, {}), NEW c \in DOMAIN s.live, NEW close \in BOOLEAN,
           s.live[c].fd \notin DOMAIN s.workers, s.peer[s.live[c].fd] \notin HasData,
           NEW fds \in SUBSET (Fds \ s.open), NEW t, t = CreateWorker(s, c, close, fds)
    PROVE  Serves(s, t, c, {s.live[c].fd} \cup fds)
<1> DEFINE fd == s.live[c].fd
<1>1. /\ fd \in DOMAIN s.clients /\ s.clients[fd] = c /\ s.live[c] \in ClientType
      /\ Linked(s) /\ IsTables(s) /\ s.live \in [DOMAIN s.live -> ClientType]
  BY OfClient, Fields DEF Good
<1>2. CASE fds = {}
  <2>1. PICK b \in BOOLEAN : b = TRUE
    OBVIOUS
  <2>2. t = GenerateResponse(s, c, b)
    BY <1>2, <2>1 DEF CreateWorker
  <2>3. Serves(s, t, c, {fd})
    BY <2>2, ResponseFine
  <2>4. {fd} = {fd} \cup fds
    BY <1>2
  <2> QED
    BY <2>3, <2>4
<1>3. CASE fds # {}
  <2> DEFINE w == Min(fds)
             k == [s.live[c] EXCEPT !.close = close]
             a == SetLive(s, c, k)
  <2>1. w \in fds
    <3>1. fds \subseteq Nat
      BY ConnectionsAssumption
    <3> QED
      BY <1>3, <3>1, MinOf
  <2>2. t = [s EXCEPT !.open = @ \cup {w},
                      !.peer = Put(@, w, "idle"),
                      !.live[c].close = close,
                      !.workers = Put(@, fd, w),
                      !.interest = Put(@, w, {"IN"}),
                      !.table = Put(@, w, FALSE),
                      !.events = Put(@, w, <<[kind |-> "cgiEnd", client |-> c]>>)]
    BY <1>3 DEF CreateWorker
  <2> HIDE DEF w
  <2>3. k \in ClientType /\ k.fd = s.live[c].fd /\ k.out = s.live[c].out
    BY <1>1 DEF ClientType
  <2>4. /\ IsTables(t) /\ t.open = s.open \cup {w} /\ t.peer = Put(s.peer, w, "idle")
        /\ t.interest = Put(s.interest, w, {"IN"}) /\ t.table = Put(s.table, w, FALSE)
        /\ t.events = Put(s.events, w, <<[kind |-> "cgiEnd", client |-> c]>>)
        /\ t.workers = Put(s.workers, fd, w) /\ t.clients = s.clients
        /\ t.armed = s.armed /\ t.faults = s.faults
    BY <1>1, <2>2 DEF IsTables
  <2>5. t.live = [s.live EXCEPT ![c] = k]
    BY <1>1, <2>2 DEF IsTables
  <2>6. a.live = [s.live EXCEPT ![c] = k]
    BY <1>1 DEF IsTables, SetLive
  <2> HIDE DEF k, a, fd
  <2>7. /\ Touched(s, a, fd) /\ Linked(a) /\ a.live[c] = k /\ DOMAIN a.live = DOMAIN s.live
        /\ a.peer = s.peer /\ a.interest = s.interest /\ a.armed = s.armed
    BY <1>1, <2>3, LiveSet DEF a, fd
  <2>8. /\ a.open = s.open /\ a.table = s.table /\ a.events = s.events
        /\ a.clients = s.clients /\ a.workers = s.workers /\ a.faults = s.faults
    BY <2>7 DEF Touched
  <2>9. Fine(s, a, {fd})
    <3>1. Watched(s, fd)
      BY <1>1 DEF Good
    <3>2. Watched(a, fd)
      BY <1>1, <2>3, <2>7, <2>8, <3>1 DEF Watched
    <3> QED
      BY <1>1, <2>7, <3>2, TouchedFine
  <2>10. Started(a, t, fd, w)
    <3>1. <<[kind |-> "cgiEnd", client |-> c]>> = <<Event("cgiEnd", a.clients[fd])>>
      BY <1>1, <2>8 DEF Event
    <3> QED
      BY <2>4, <2>5, <2>6, <2>7, <2>8, <3>1 DEF Started
  <2>11. Fine(a, t, {fd, w})
    <3>1. /\ Good(a, {}) /\ fd \in DOMAIN a.clients /\ fd \notin DOMAIN a.workers
          /\ a.peer[fd] \notin HasData /\ w \in Fds \ a.open
      BY <1>1, <2>1, <2>7, <2>8, <2>9 DEF Fine, fd
    <3>2. Good(t, {}) /\ Gentle(a, t, {fd, w})
      BY <2>10, <3>1, StartedKeeps
    <3> QED
      BY <2>4, <2>8, <3>2 DEF Fine
  <2>12. Fine(s, t, {fd} \cup fds)
    BY <2>1, <2>9, <2>11, FineTwice
  <2>13. c \in DOMAIN t.live /\ t.live[c].fd = s.live[c].fd
    BY <2>3, <2>5
  <2> QED
    BY <2>4, <2>12, <2>13 DEF fd, Serves
<1> QED
  BY <1>2, <1>3

LEMMA TimeoutFine ==
    ASSUME NEW s, Good(s, {}), NEW c \in DOMAIN s.live, NEW t, t = UpdateTimeout(s, c)
    PROVE  Fine(s, t, {s.live[c].fd}) /\ t.clients = s.clients
<1> DEFINE fd == s.live[c].fd
<1>1. fd \in DOMAIN s.clients /\ s.clients[fd] = c /\ Linked(s) /\ Watched(s, fd)
  BY OfClient DEF Good
<1>2. /\ Touched(s, t, fd) /\ Linked(t) /\ t.interest = s.interest /\ t.live = s.live
  BY <1>1, TimeoutUpdated
<1>3. Watched(t, fd) /\ t.clients = s.clients
  BY <1>1, <1>2 DEF Watched, Touched
<1> HIDE DEF fd
<1>4. Fine(s, t, {fd})
  BY <1>1, <1>2, <1>3, TouchedFine
<1> QED
  BY <1>3, <1>4 DEF fd

(* HttpConnection::handleReadEvent: what was sent is handled, or the       *)
(* connection is closed; one that is only idle or has sent is kept.        *)
LEMMA ReadKeeps ==
    ASSUME NEW s, Good(s, {}), NEW c \in DOMAIN s.live, NEW close \in BOOLEAN,
           NEW outcome \in {"incomplete", "response", "cgi"},
           NEW fds \in SUBSET (Fds \ s.open), NEW t,
           t = HandleReadEvent(s, c, outcome, close, fds)
    PROVE  /\ Fine(s, t, {s.live[c].fd} \cup fds)
           /\ s.peer[s.live[c].fd] \in {"idle", "data"} =>
                 s.live[c].fd \in DOMAIN t.clients
<1> DEFINE fd == s.live[c].fd
           p == IF s.peer[fd] = "dataReset" THEN "reset" ELSE "idle"
           r == SetPeer(s, fd, p)
           x == CASE outcome = "incomplete" -> r
                  [] outcome = "response" -> GenerateResponse(r, c, close)
                  [] outcome = "cgi" -> CreateWorker(r, c, close, fds)
<1>1. /\ fd \in DOMAIN s.clients /\ s.clients[fd] = c /\ Linked(s) /\ Watched(s, fd)
      /\ fd \in s.open /\ IsTables(s) /\ s.peer \in [s.open -> PeerStates]
      /\ s.workers = [f \in DOMAIN s.workers |-> s.workers[f]]
  <2>1. Linked(s)
    BY DEF Good
  <2>2. fd \in DOMAIN s.clients /\ s.clients[fd] = c /\ fd \in s.open
    BY <2>1, OfClient
  <2>3. /\ IsTables(s) /\ s.peer \in [s.open -> PeerStates]
        /\ s.workers = [f \in DOMAIN s.workers |-> s.workers[f]]
    BY <2>1, Fields
  <2> HIDE DEF fd
  <2>4. Watched(s, fd)
    BY <2>2 DEF Good
  <2> QED
    BY <2>1, <2>2, <2>3, <2>4
<1>2. t = CASE s.peer[fd] = "idle" -> s
            [] s.peer[fd] \in HasData -> UpdateTimeout(x, c)
            [] OTHER -> CloseConnection(s, fd)
  <2>1. [s EXCEPT !.peer[fd] = IF @ = "dataReset" THEN "reset" ELSE "idle"] = r
    BY DEF SetPeer
  <2> QED
    BY <2>1 DEF HandleReadEvent
<1>3. CASE s.peer[fd] = "idle"
  <2>1. t = s
    BY <1>2, <1>3 DEF HasData
  <2> QED
    BY <1>1, <2>1 DEF Fine, Gentle
<1>4. CASE s.peer[fd] \in HasData
  <2>1. t = UpdateTimeout(x, c)
    BY <1>2, <1>4 DEF HasData
  <2>2. fd \notin DOMAIN s.workers
    BY <1>1, <1>4 DEF Linked, WorkerOf
  <2>3. p \in PeerStates /\ p \notin HasData
    BY DEF PeerStates, HasData, HungUp
  <2> HIDE DEF p, fd
  <2>4. /\ Touched(s, r, fd) /\ Linked(r) /\ r.peer[fd] = p
        /\ r.interest = s.interest /\ r.live = s.live
    BY <1>1, <2>2, <2>3, PeerSet
  <2> HIDE DEF r
  <2>5. /\ r.clients = s.clients /\ r.workers = s.workers /\ r.open = s.open
        /\ Watched(r, fd)
    BY <1>1, <2>4 DEF Touched, Watched
  <2>6. Fine(s, r, {fd})
    BY <1>1, <2>4, <2>5, TouchedFine
  <2>7. /\ Good(r, {}) /\ c \in DOMAIN r.live /\ r.live[c].fd = fd
        /\ r.live[c].fd \notin DOMAIN r.workers /\ r.peer[r.live[c].fd] \notin HasData
        /\ fds \in SUBSET (Fds \ r.open)
    BY <2>2, <2>3, <2>4, <2>5, <2>6 DEF Fine, fd
  <2>8. /\ Fine(r, x, {fd} \cup fds)
        /\ c \in DOMAIN x.live /\ x.live[c].fd = fd /\ x.clients = s.clients
    <3>1. CASE outcome = "incomplete"
      <4>1. x = r
        BY <3>1
      <4> QED
        BY <2>5, <2>6, <2>7, <4>1 DEF Fine, Gentle
    <3>2. CASE outcome = "response"
      <4>1. x = GenerateResponse(r, c, close)
        BY <3>2
      <4> HIDE DEF x
      <4>2. Serves(r, x, c, {r.live[c].fd})
        BY <2>7, <4>1, ResponseFine
      <4> QED
        BY <2>5, <2>7, <4>2 DEF Fine, Gentle, Serves
    <3>3. CASE outcome = "cgi"
      <4>1. x = CreateWorker(r, c, close, fds)
        BY <3>3
      <4> HIDE DEF x
      <4>2. Serves(r, x, c, {r.live[c].fd} \cup fds)
        BY <2>7, <4>1, CreateWorkerFine
      <4> QED
        BY <2>5, <2>7, <4>2 DEF Serves
    <3> QED BY <3>1, <3>2, <3>3
  <2> HIDE DEF x
  <2>9. Fine(x, t, {fd}) /\ t.clients = x.clients
    BY <2>1, <2>8, TimeoutFine DEF Fine
  <2>10. Fine(s, x, {fd} \cup fds)
    BY <2>6, <2>8, FineTwice
  <2>11. Fine(s, t, {fd} \cup fds)
    BY <2>9, <2>10, FineTwice
  <2> QED
    BY <1>1, <2>8, <2>9, <2>11 DEF fd
<1>5. CASE s.peer[fd] \notin HasData \cup {"idle"}
  <2>1. t = CloseConnection(s, fd)
    BY <1>2, <1>5
  <2> HIDE DEF fd
  <2>2. Closed(s, t, fd)
    BY <1>1, <2>1, CloseConnectionCloses
  <2>3. Fine(s, t, {})
    BY <1>1, <2>2, ClosedFine
  <2>4. Fine(s, t, {fd} \cup fds)
    BY <2>3 DEF Fine, Gentle
  <2> QED
    BY <1>5, <2>4 DEF fd, HasData
<1> QED
  BY <1>3, <1>4, <1>5

-----------------------------------------------------------------------------
(* CgiEndEvent::process when the byte of a worker has arrived: the worker  *)
(* is gone and its connection has an answer to send.                       *)
LEMMA CgiEndFine ==
    ASSUME NEW s, Good(s, {}), NEW cfd \in DOMAIN s.workers, NEW fd, fd = s.workers[cfd],
           s.peer[fd] = "data", NEW c, c = s.clients[cfd], NEW t, t = CgiEnd(s, c, fd)
    PROVE  Fine(s, t, {})
<1> DEFINE k == [s.live[c] EXCEPT !.out = TRUE]
           r == [s EXCEPT !.workers = Erase(@, {cfd})]
           m == Modify([r EXCEPT !.live[c].out = TRUE], cfd, {"OUT"})
           b == SetLive(s, c, k)
           a == Modify(b, cfd, {"OUT"})
<1>1. /\ Linked(s) /\ IsTables(s) /\ s.live \in [DOMAIN s.live -> ClientType]
      /\ cfd \in DOMAIN s.clients /\ c \in DOMAIN s.live /\ s.live[c].fd = cfd
      /\ cfd \in DOMAIN s.interest /\ fd \in Nat
  <2>1. Linked(s) /\ cfd \in DOMAIN s.clients
    BY DEF Good, Linked, WorkerOf
  <2>2. IsTables(s) /\ s.live \in [DOMAIN s.live -> ClientType] /\ DOMAIN s.interest = s.open
    BY <2>1, Fields
  <2>3. c \in DOMAIN s.live /\ s.live[c].fd = cfd /\ cfd \in s.open
    BY <2>1 DEF Linked, ClientOf
  <2>4. fd \in Nat
    BY <2>1, ConnectionsAssumption DEF Linked, Types
  <2> QED BY <2>1, <2>2, <2>3, <2>4
<1>2. t = ForgetFd(CloseFd(Unregister(m, fd), fd), fd)
  <2>1. cfd = s.live[c].fd
    BY <1>1
  <2>2. fd # -1
    BY <1>1
  <2> QED
    BY <1>1, <2>1, <2>2 DEF CgiEnd
<1>3. k \in ClientType /\ k.fd = s.live[c].fd /\ k.out = TRUE
  BY <1>1 DEF ClientType
<1>4. /\ IsTables(m) /\ m.open = s.open /\ m.peer = s.peer
      /\ m.interest = [s.interest EXCEPT ![cfd] = {"OUT"}]
      /\ m.table = s.table /\ m.events = s.events /\ m.clients = s.clients
      /\ m.armed = s.armed /\ m.workers = Erase(s.workers, {cfd})
      /\ m.faults = s.faults /\ m.live = [s.live EXCEPT ![c] = k]
  <2> DEFINE q == [r EXCEPT !.live[c].out = TRUE]
  <2>1. /\ IsTables(r) /\ r.open = s.open /\ r.peer = s.peer /\ r.interest = s.interest
        /\ r.table = s.table /\ r.events = s.events /\ r.clients = s.clients
        /\ r.live = s.live /\ r.armed = s.armed /\ r.faults = s.faults
        /\ r.workers = Erase(s.workers, {cfd})
    BY <1>1 DEF IsTables
  <2> HIDE DEF r
  <2>2. /\ IsTables(q) /\ q.open = s.open /\ q.peer = s.peer /\ q.interest = s.interest
        /\ q.table = s.table /\ q.events = s.events /\ q.clients = s.clients
        /\ q.armed = s.armed /\ q.faults = s.faults /\ q.workers = Erase(s.workers, {cfd})
    BY <2>1 DEF IsTables
  <2>3. q.live = [s.live EXCEPT ![c] = k]
    BY <1>1, <2>1 DEF IsTables
  <2>4. m = Modify(q, cfd, {"OUT"})
    OBVIOUS
  <2> HIDE DEF q, m, k
  <2>5. m = [q EXCEPT !.interest[cfd] = {"OUT"}]
    BY <1>1, <2>2, <2>4 DEF Modify
  <2> QED
    BY <2>2, <2>3, <2>5 DEF IsTables
<1> HIDE DEF k, m, b, a
<1>5. Without(m, t, {fd}) /\ SameOwners(m, t)
  BY <1>2, <1>4, ShutCgiEnd
<1>6. /\ Touched(s, b, cfd) /\ Linked(b) /\ b.live = [s.live EXCEPT ![c] = k]
      /\ b.peer = s.peer /\ b.interest = s.interest /\ b.armed = s.armed
      /\ b.clients = s.clients
  <2>1. /\ Touched(s, b, s.live[c].fd) /\ Linked(b) /\ b.live[c] = k
        /\ b.peer = s.peer /\ b.interest = s.interest /\ b.armed = s.armed
    BY <1>1, <1>3, LiveSet DEF b
  <2> QED
    BY <1>1, <2>1 DEF Touched
<1>7. /\ Touched(b, a, cfd) /\ Linked(a) /\ a.interest[cfd] = {"OUT"}
      /\ a.peer = s.peer /\ a.live = b.live /\ a.armed = s.armed
  BY <1>1, <1>6, InterestSet DEF a
<1>8. Touched(s, a, cfd)
  BY <1>6, <1>7, TouchedTwice
<1>9. /\ a.open = s.open /\ a.table = s.table /\ a.events = s.events
      /\ a.clients = s.clients /\ a.workers = s.workers /\ a.faults = s.faults
      /\ a.interest = m.interest
  BY <1>4, <1>7, <1>8 DEF Touched
<1>10. Fine(s, a, {cfd})
  <2>1. Watched(a, cfd)
    BY <1>1, <1>3, <1>6, <1>7, <1>9 DEF Watched
  <2> QED
    BY <1>1, <1>7, <1>8, <2>1, TouchedFine
<1>11. Ended(a, t, cfd)
  <2>1. Without(a, t, {a.workers[cfd]})
    BY <1>4, <1>5, <1>7, <1>9 DEF Without
  <2> QED
    BY <1>4, <1>5, <1>6, <1>7, <1>9, <2>1 DEF Ended, SameOwners
<1>12. Fine(a, t, {})
  <2> DEFINE due == {}
  <2>1. Good(a, due) /\ cfd \in DOMAIN a.workers
    BY <1>9, <1>10 DEF Fine
  <2> HIDE DEF due
  <2>2. Good(t, due) /\ Gentle(a, t, {})
    BY <1>11, <2>1, EndedKeeps
  <2> QED
    BY <1>11, <2>2 DEF Fine, Ended, Without, due
<1>13. Fine(s, t, {cfd})
  BY <1>10, <1>12, FineTwice
<1>14. cfd \notin Workers(t) /\ cfd \in DOMAIN s.clients /\ ~Quiet(s, cfd)
  <2>1. Linked(t) /\ t.clients = s.clients
    BY <1>9, <1>11, <1>13 DEF Fine, Good, Ended
  <2>2. ASSUME NEW f \in DOMAIN t.workers PROVE t.workers[f] # cfd
    <3>1. WorkerOf(t, f)
      BY <2>1 DEF Linked
    <3>2. cfd \in DOMAIN t.clients
      BY <1>1, <2>1
    <3> QED
      BY <3>1, <3>2 DEF WorkerOf
  <2>3. cfd \notin Workers(t)
    BY <2>2 DEF Workers
  <2> QED
    BY <1>1, <2>3 DEF Quiet
<1> QED
  BY <1>13, <1>14 DEF Fine, Gentle

(* EventManager::handle before it looks for an event: a hang-up may take   *)
(* the error of a client.                                                  *)
Looked(s, t, fd) ==
    /\ Fine(s, t, {})
    /\ t.open = s.open /\ t.events = s.events /\ t.clients = s.clients
    /\ t.live = s.live /\ t.workers = s.workers
    /\ s.peer[fd] \in {"idle", "data"} => t.peer[fd] = s.peer[fd]
LEMMA PeekFine ==
    ASSUME NEW s, Good(s, {}), NEW fd \in s.open, NEW mask, "ERR" \in mask => "HUP" \in mask,
           NEW t, t = Peek(s, fd, mask)
    PROVE  Looked(s, t, fd)
<1>1. Linked(s) /\ IsTables(s) /\ s.peer \in [s.open -> PeerStates]
  BY Fields DEF Good
<1>2. CASE "HUP" \notin mask
  <2>1. t = s
    BY <1>2 DEF Peek
  <2> QED
    BY <2>1 DEF Looked, Fine, Gentle
<1>3. CASE "HUP" \in mask
  <2> DEFINE p == IF s.peer[fd] = "reset" THEN "broken" ELSE s.peer[fd]
  <2>1. t = SetPeer(s, fd, p)
    BY <1>3 DEF Peek, SetPeer
  <2>2. s.peer[fd] \in {"idle", "data"} => p = s.peer[fd]
    OBVIOUS
  <2>3. CASE fd \in DOMAIN s.clients
    <3>1. p \in PeerStates
      BY <1>1 DEF PeerStates, HungUp
    <3>2. fd \in DOMAIN s.workers => p \notin HasData
      BY <1>1 DEF Linked, WorkerOf, HasData
    <3> HIDE DEF p
    <3>3. /\ Touched(s, t, fd) /\ Linked(t) /\ t.peer[fd] = p
          /\ t.interest = s.interest /\ t.live = s.live /\ t.armed = s.armed
      BY <1>1, <2>1, <2>3, <3>1, <3>2, PeerSet
    <3>4. Watched(t, fd)
      BY <2>3, <3>3 DEF Good, Watched, Touched
    <3>5. Good(t, {}) /\ Gentle(s, t, {})
      BY <2>3, <3>3, <3>4, TouchedKeeps
    <3> QED
      BY <2>2, <3>3, <3>5 DEF Looked, Fine, Touched
  <2>4. CASE fd \notin DOMAIN s.clients
    <3>1. s.peer[fd] \in {"idle", "data"}
      BY <1>1, <2>4 DEF Linked, Domains, Listens, Workers, WorkerOf
    <3>2. p = s.peer[fd]
      BY <3>1
    <3> HIDE DEF p
    <3>3. t.peer = s.peer
      BY <1>1, <2>1, <3>2 DEF SetPeer, IsTables
    <3>4. SameTables(s, t)
      BY <1>1, <2>1, <3>3 DEF SetPeer, IsTables, SameTables
    <3>5. Good(t, {}) /\ Gentle(s, t, {})
      BY <3>4, SameKeeps
    <3> QED
      BY <1>1, <2>1, <3>3, <3>4, <3>5 DEF Looked, Fine, SameTables, SetPeer, IsTables
  <2> QED BY <2>3, <2>4
<1> QED BY <1>2, <1>3

-----------------------------------------------------------------------------
(* Taking back an entry that was never there. *)
LEMMA NothingErased ==
    ASSUME NEW f, NEW k, k \notin DOMAIN f, f = [x \in DOMAIN f |-> f[x]]
    PROVE  Erase(f, {k}) = f
  BY ErasedIs

(* Server::handleNewConnection: a connection is there in every table, or   *)
(* in none of them when a step of it throws.                               *)
LEMMA NewConnectionFine ==
    ASSUME NEW s, Good(s, {}), NEW fd \in Fds \ s.open, NEW c \in Ptrs \ DOMAIN s.live,
           NEW failAt \in 1..8, NEW t, t = HandleNewConnection(s, fd, c, failAt)
    PROVE  Fine(s, t, {})
<1> DEFINE n == NewConnection(s, fd, c, failAt)
           reading == [kind |-> "read", client |-> c]
           writing == [kind |-> "write", client |-> c]
           object == [fd |-> fd, out |-> FALSE, close |-> FALSE]
<1>1. /\ Linked(s) /\ IsTables(s) /\ DOMAIN s.live = s.armed
      /\ DOMAIN s.peer = s.open /\ DOMAIN s.interest = s.open
      /\ DOMAIN s.table = s.open /\ DOMAIN s.events = s.open
      /\ s.peer = [x \in DOMAIN s.peer |-> s.peer[x]]
      /\ s.interest = [x \in DOMAIN s.interest |-> s.interest[x]]
      /\ s.table = [x \in DOMAIN s.table |-> s.table[x]]
      /\ s.live = [x \in DOMAIN s.live |-> s.live[x]]
  BY DEF Good, Linked, Timed, Types, Domains
<1>2. /\ IsTables(n) /\ n.open = s.open \cup {fd} /\ n.peer = Put(s.peer, fd, "idle")
      /\ n.workers = s.workers /\ n.faults = s.faults
  BY <1>1 DEF NewConnection, IsTables
<1>3. n.live = IF 1 < failAt THEN Put(s.live, c, object) ELSE s.live
  BY <1>1 DEF NewConnection, IsTables
<1>4. n.interest = IF 2 < failAt THEN Put(s.interest, fd, {"IN"}) ELSE s.interest
  BY <1>1 DEF NewConnection, IsTables
<1>5. n.table = IF 3 < failAt THEN Put(s.table, fd, TRUE) ELSE s.table
  BY <1>1 DEF NewConnection, IsTables
<1>6. n.events = IF 5 < failAt THEN Put(s.events, fd, <<reading, writing>>)
                 ELSE IF 4 < failAt THEN Put(s.events, fd, <<reading>>) ELSE s.events
  BY <1>1 DEF NewConnection, IsTables
<1>7. n.armed = IF 6 < failAt THEN s.armed \cup {c} ELSE s.armed
  BY <1>1 DEF NewConnection, IsTables
<1>8. n.clients = IF 7 < failAt THEN Put(s.clients, fd, c) ELSE s.clients
  BY <1>1 DEF NewConnection, IsTables
<1> HIDE DEF n
<1>9. CASE failAt = 8
  <2>1. t = n
    BY <1>9 DEF HandleNewConnection, n
  <2>2. /\ n.live = Put(s.live, c, object) /\ n.interest = Put(s.interest, fd, {"IN"})
        /\ n.table = Put(s.table, fd, TRUE) /\ n.events = Put(s.events, fd, <<reading, writing>>)
        /\ n.armed = s.armed \cup {c} /\ n.clients = Put(s.clients, fd, c)
    BY <1>3, <1>4, <1>5, <1>6, <1>7, <1>8, <1>9
  <2>3. Accepted(s, n, fd, c)
    BY <1>2, <2>2 DEF Accepted, Event
  <2>4. Good(n, {}) /\ Gentle(s, n, {})
    BY <2>3, AcceptedKeeps
  <2> QED
    BY <1>2, <2>1, <2>4 DEF Fine
<1>10. CASE failAt < 8
  <2> DEFINE q == [n EXCEPT !.armed = @ \ {c}]
             g == CloseFd(Unregister(ForgetFd(q, fd), fd), fd)
  <2>1. t = [g EXCEPT !.live = Erase(@, {c})]
    BY <1>10 DEF HandleNewConnection, Rollback, n
  <2>2. /\ IsTables(g) /\ g.open = n.open \ {fd} /\ g.peer = Erase(n.peer, {fd})
        /\ g.interest = Erase(Erase(n.interest, {fd}), {fd})
        /\ g.table = Erase(n.table, {fd}) /\ g.events = Erase(n.events, {fd})
        /\ g.armed = n.armed \ {c} /\ g.live = n.live /\ g.clients = n.clients
        /\ g.workers = n.workers /\ g.faults = n.faults
    BY <1>2 DEF IsTables, CloseFd, Unregister, ForgetFd, ClearEvents
  <2> HIDE DEF g
  <2>3. /\ IsTables(t) /\ t.open = s.open /\ t.peer = Erase(n.peer, {fd})
        /\ t.interest = Erase(n.interest, {fd})
        /\ t.table = Erase(n.table, {fd}) /\ t.events = Erase(n.events, {fd})
        /\ t.armed = n.armed \ {c} /\ t.live = Erase(n.live, {c}) /\ t.clients = s.clients
        /\ t.workers = s.workers /\ t.faults = s.faults
    <3>1. Erase(Erase(n.interest, {fd}), {fd}) = Erase(n.interest, {fd})
      BY ErasedTwice
    <3>2. n.open \ {fd} = s.open /\ n.clients = s.clients
      BY <1>2, <1>8, <1>10
    <3> QED
      BY <1>2, <2>1, <2>2, <3>1, <3>2 DEF IsTables
  <2>4. t.peer = s.peer
    BY <1>1, <1>2, <2>3, PutErased
  <2>5. t.interest = s.interest
    <3>1. n.interest = s.interest \/ n.interest = Put(s.interest, fd, {"IN"})
      BY <1>4
    <3> QED
      BY <1>1, <2>3, <3>1, NothingErased, PutErased
  <2>6. t.table = s.table
    <3> DEFINE v == TRUE
    <3>1. n.table = s.table \/ n.table = Put(s.table, fd, v)
      BY <1>5
    <3> HIDE DEF v
    <3> QED
      BY <1>1, <2>3, <3>1, NothingErased, PutErased
  <2>7. t.live = s.live
    <3>1. n.live = s.live \/ n.live = Put(s.live, c, object)
      BY <1>3
    <3> HIDE DEF object
    <3> QED
      BY <1>1, <2>3, <3>1, NothingErased, PutErased
  <2>8. t.armed = s.armed
    BY <1>1, <1>7, <2>3
  <2>9. /\ DOMAIN t.events = DOMAIN s.events
        /\ \A x \in DOMAIN s.events : t.events[x] = s.events[x]
    <3> DEFINE v == <<reading>>
               w == <<reading, writing>>
    <3>1. \/ n.events = s.events
          \/ n.events = Put(s.events, fd, v)
          \/ n.events = Put(s.events, fd, w)
      BY <1>6
    <3>2. t.events = Erase(n.events, {fd}) /\ fd \notin DOMAIN s.events
      BY <1>1, <2>3
    <3> HIDE DEF v, w
    <3>3. CASE n.events = s.events
      BY <3>2, <3>3 DEF Erase, Restrict
    <3>4. CASE n.events = Put(s.events, fd, v)
      BY <3>2, <3>4 DEF Erase, Restrict, Put
    <3>5. CASE n.events = Put(s.events, fd, w)
      BY <3>2, <3>5 DEF Erase, Restrict, Put
    <3> QED
      BY <3>1, <3>3, <3>4, <3>5
  <2>10. SameTables(s, t)
    BY <2>3, <2>4, <2>5, <2>6, <2>7, <2>8, <2>9 DEF SameTables
  <2> QED
    BY <2>3, <2>10, SameKeeps DEF Fine
<1> QED
  BY <1>9, <1>10

-----------------------------------------------------------------------------
(* The events of the batch after a step: they are what they were for the   *)
(* connections it is gentle to. *)
LEMMA EventKept ==
    ASSUME NEW s, NEW due, Good(s, due), NEW t, NEW about, Gentle(s, t, about),
           NEW e, EventOK(s, e), e.fd \notin about,
           NEW f, f = [fd |-> f.fd, mask |-> f.mask, stale |-> f.stale],
           f.fd = e.fd, f.mask = e.mask, f.stale \in BOOLEAN,
           f.stale => e.stale \/ e.fd \notin s.open
    PROVE  EventOK(t, f)
<1>1. /\ e.fd \in Workers(t) => e.fd \in Workers(s) /\ t.peer[e.fd] = s.peer[e.fd]
      /\ e.fd \in DOMAIN t.clients /\ ~Quiet(t, e.fd) =>
            e.fd \in DOMAIN s.clients /\ ~Quiet(s, e.fd)
  BY DEF EventOK, Gentle
<1>2. f.fd \in Workers(t) => t.peer[f.fd] = "data"
  BY <1>1 DEF EventOK
<1>3. f.stale /\ f.fd \in DOMAIN t.clients => Quiet(t, f.fd)
  <2> SUFFICES ASSUME f.stale, f.fd \in DOMAIN t.clients, ~Quiet(t, f.fd)
               PROVE  FALSE
    OBVIOUS
  <2>1. e.fd \in DOMAIN s.clients /\ ~Quiet(s, e.fd) /\ e.fd \in s.open
    BY <1>1 DEF Good, Linked, ClientOf
  <2>2. e.stale
    BY <2>1
  <2> QED
    BY <2>1, <2>2 DEF EventOK
<1> QED
  BY <1>2, <1>3 DEF EventOK

Passed(s, t, rest) == {[e EXCEPT !.stale = @ \/ e.fd \in t.open \ s.open] : e \in rest}
LEMMA BatchKept ==
    ASSUME NEW s, NEW due, Good(s, due), NEW t, NEW about, Gentle(s, t, about),
           NEW b, BatchOK(s, b), NEW rest \in SUBSET b, \A e \in rest : e.fd \notin about
    PROVE  BatchOK(t, Passed(s, t, rest))
<1> DEFINE now(e) == [e EXCEPT !.stale = @ \/ e.fd \in t.open \ s.open]
           kept == {now(e) : e \in rest}
<1>1. \A e \in rest :
         /\ now(e) = [fd |-> now(e).fd, mask |-> now(e).mask, stale |-> now(e).stale]
         /\ now(e).fd = e.fd /\ now(e).mask = e.mask
         /\ now(e).stale = (e.stale \/ e.fd \in t.open \ s.open)
  BY DEF BatchOK, EventOK
<1> HIDE DEF now
<1>2. ASSUME NEW e \in rest
      PROVE  EventOK(t, now(e))
  <2>1. EventOK(s, e)
    BY DEF BatchOK
  <2>2. now(e).stale \in BOOLEAN /\ (now(e).stale => e.stale \/ e.fd \notin s.open)
    BY <1>1
  <2> QED
    BY <1>1, <2>1, <2>2, EventKept
<1>3. \A e, f \in kept : e.fd = f.fd => e = f
  BY <1>1 DEF BatchOK
<1> QED
  BY <1>2, <1>3 DEF BatchOK, now, Passed

LEMMA BatchSame ==
    ASSUME NEW s, NEW due, Good(s, due), NEW t, NEW about, Gentle(s, t, about),
           NEW b, BatchOK(s, b), \A e \in b : e.fd \notin about
    PROVE  BatchOK(t, b)
<1>1. ASSUME NEW e \in b
      PROVE  EventOK(t, e)
  <2>1. /\ EventOK(s, e) /\ e.stale \in BOOLEAN
        /\ e = [fd |-> e.fd, mask |-> e.mask, stale |-> e.stale]
    BY DEF BatchOK, EventOK
  <2> QED
    BY <2>1, EventKept
<1> QED
  BY <1>1 DEF BatchOK

(* An event that is called is the accept event of the listener, one of the *)
(* two of a client, or that of a worker. *)
IsAccept(s, fd, event) == fd = Listener /\ event.kind = "accept"
IsClients(s, fd, event) ==
    /\ fd \in DOMAIN s.clients
    /\ event.kind \in {"read", "write"}
    /\ event.client = s.clients[fd]
IsWorkers(s, fd, event) ==
    /\ event.kind = "cgiEnd"
    /\ \E f \in DOMAIN s.workers : fd = s.workers[f] /\ event.client = s.clients[f]
LEMMA ListOf ==
    ASSUME NEW s, Linked(s), NEW fd \in s.open, NEW i \in DOMAIN s.events[fd]
    PROVE  \/ IsAccept(s, fd, s.events[fd][i])
           \/ IsClients(s, fd, s.events[fd][i])
           \/ IsWorkers(s, fd, s.events[fd][i])
<1>1. CASE fd = Listener
  <2>1. s.events[fd] = <<Event("accept", "none")>>
    BY <1>1 DEF Linked, Listens
  <2>2. i = 1
    BY <2>1
  <2> QED
    BY <1>1, <2>1, <2>2 DEF IsAccept, Event
<1>2. CASE fd \in DOMAIN s.clients
  <2>1. s.events[fd] = <<Event("read", s.clients[fd]), Event("write", s.clients[fd])>>
    BY <1>2 DEF Linked, ClientOf
  <2>2. i = 1 \/ i = 2
    BY <2>1
  <2> QED
    BY <1>2, <2>1, <2>2 DEF IsClients, Event
<1>3. CASE fd \in Workers(s)
  <2>1. PICK f \in DOMAIN s.workers : fd = s.workers[f]
    BY <1>3 DEF Workers
  <2>2. s.events[fd] = <<Event("cgiEnd", s.clients[f])>>
    BY <2>1 DEF Linked, WorkerOf
  <2>3. i = 1
    BY <2>2
  <2> QED
    BY <2>1, <2>2, <2>3 DEF IsWorkers, Event
<1> QED
  BY <1>1, <1>2, <1>3 DEF Linked, Domains

LEMMA FirstOf ==
    ASSUME Good(srv, {}), BatchOK(srv, batch), NEW e \in batch, Known(e),
           Matching(srv, e.fd, e.mask) # {}
    PROVE  /\ Looked(srv, Peeked(e), e.fd)
           /\ \/ IsAccept(srv, e.fd, First(e))
              \/ IsClients(srv, e.fd, First(e))
              \/ IsWorkers(srv, e.fd, First(e))
<1> DEFINE list == Peeked(e).events[e.fd]
           places == Matching(srv, e.fd, e.mask)
<1>1. /\ Linked(srv) /\ e.fd \in srv.open /\ ("ERR" \in e.mask => "HUP" \in e.mask)
  BY DEF Good, Linked, Domains, Known, BatchOK, EventOK
<1>2. Looked(srv, Peeked(e), e.fd)
  BY <1>1, PeekFine DEF Peeked
<1>3. list = srv.events[e.fd]
  BY <1>2 DEF Looked
<1>4. places \subseteq DOMAIN list
  BY DEF Matching, Peeked
<1>5. DOMAIN srv.events[e.fd] \subseteq Nat
  <2>1. CASE e.fd = Listener
    BY <1>1, <2>1 DEF Linked, Listens
  <2>2. CASE e.fd \in DOMAIN srv.clients
    BY <1>1, <2>2 DEF Linked, ClientOf
  <2>3. CASE e.fd \in Workers(srv)
    <3>1. PICK f \in DOMAIN srv.workers : e.fd = srv.workers[f]
      BY <2>3 DEF Workers
    <3>2. srv.events[e.fd] = <<Event("cgiEnd", srv.clients[f])>>
      BY <1>1, <3>1 DEF Linked, WorkerOf
    <3> QED
      BY <3>2
  <2> QED
    BY <1>1, <2>1, <2>2, <2>3 DEF Linked, Domains
<1> HIDE DEF places
<1>6. Min(places) \in DOMAIN srv.events[e.fd]
  <2>1. places \in SUBSET Nat /\ places # {}
    BY <1>3, <1>4, <1>5 DEF places
  <2> QED
    BY <1>3, <1>4, <2>1, MinOf
<1>7. First(e) = srv.events[e.fd][Min(places)]
  BY <1>3 DEF First, places
<1> QED
  BY <1>1, <1>2, <1>6, <1>7, ListOf

-----------------------------------------------------------------------------
(* What the handling of one event comes to. *)
Keeps(s, e) ==
    e.stale /\ e.fd \in ClientFds /\ srv.peer[e.fd] \in {"idle", "data"}
       => e.fd \in DOMAIN s.clients
Others(e, about) == \A f \in batch \ {e} : f.fd \notin about
Served(e) ==
    \E s, about : /\ Handled(srv, s, about)
                  /\ Others(e, about)
                  /\ Keeps(s, e)
                  /\ Proceed(s, batch \ {e})

LEMMA NothingServed ==
    ASSUME Good(srv, {}), BatchOK(srv, batch), NEW e \in batch, HandleNothing(e)
    PROVE  Served(e)
<1> DEFINE s == IF Known(e) THEN Peeked(e) ELSE srv
<1>1. Fine(srv, s, {}) /\ s.clients = srv.clients
  <2>1. CASE ~Known(e)
    BY <2>1 DEF Fine, Gentle
  <2>2. CASE Known(e)
    <3>1. /\ e.fd \in srv.open /\ ("ERR" \in e.mask => "HUP" \in e.mask)
      BY <2>2 DEF Good, Linked, Domains, Known, BatchOK, EventOK
    <3>2. Looked(srv, Peeked(e), e.fd)
      BY <3>1, PeekFine DEF Peeked
    <3> QED
      BY <2>2, <3>2 DEF Looked
  <2> QED BY <2>1, <2>2
<1>2. Proceed(s, batch \ {e})
  BY DEF HandleNothing
<1> HIDE DEF s
<1>3. Handled(srv, s, {}) /\ Others(e, {}) /\ Keeps(s, e)
  BY <1>1 DEF Handled, Others, Keeps, ClientFds
<1> QED
  BY <1>2, <1>3 DEF Served

(* The connection of a read or write event, after the look at its socket.  *)
LEMMA ClientEvent ==
    ASSUME Good(srv, {}), BatchOK(srv, batch), NEW e \in batch,
           Matches(e, "read") \/ Matches(e, "write")
    PROVE  LET c == First(e).client
               p == Peeked(e)
           IN /\ Looked(srv, p, e.fd)
              /\ Good(p, {}) /\ p.open = srv.open
              /\ c \in DOMAIN p.live /\ p.live[c].fd = e.fd
              /\ e.fd \in DOMAIN p.clients /\ p.clients[e.fd] = c
<1> DEFINE c == First(e).client
           p == Peeked(e)
<1>1. Known(e) /\ Matching(srv, e.fd, e.mask) # {} /\ First(e).kind \in {"read", "write"}
  BY DEF Matches
<1>2. Looked(srv, p, e.fd) /\ IsClients(srv, e.fd, First(e))
  BY <1>1, FirstOf DEF IsAccept, IsWorkers
<1> HIDE DEF p
<1>3. e.fd \in DOMAIN srv.clients /\ c = srv.clients[e.fd]
  BY <1>2 DEF IsClients
<1> HIDE DEF c
<1>4. c \in DOMAIN srv.live /\ srv.live[c].fd = e.fd
  BY <1>3 DEF Good, Linked, ClientOf
<1>5. Good(p, {}) /\ p.open = srv.open /\ p.live = srv.live /\ p.clients = srv.clients
  BY <1>2 DEF Looked, Fine
<1> QED
  BY <1>2, <1>3, <1>4, <1>5 DEF c, p

LEMMA ReadServed ==
    ASSUME Good(srv, {}), BatchOK(srv, batch), FreshFds, NEW e \in batch, HandleRead(e)
    PROVE  Served(e)
<1> DEFINE c == First(e).client
           p == Peeked(e)
<1>1. PICK outcome \in {"incomplete", "response", "cgi"}, close \in BOOLEAN :
         Proceed(HandleReadEvent(p, c, outcome, close, WorkerFds), batch \ {e})
  BY DEF HandleRead
<1> DEFINE t == HandleReadEvent(p, c, outcome, close, WorkerFds)
<1>2. /\ Looked(srv, p, e.fd) /\ Good(p, {}) /\ p.open = srv.open
      /\ c \in DOMAIN p.live /\ p.live[c].fd = e.fd
  BY ClientEvent DEF HandleRead
<1> HIDE DEF p, c
<1>3. WorkerFds \in SUBSET (Fds \ p.open) /\ \A f \in batch : f.fd \notin WorkerFds
  BY <1>2 DEF WorkerFds, FreeFds
<1> DEFINE fds == WorkerFds
<1> HIDE DEF fds
<1>4. /\ Fine(p, t, {p.live[c].fd} \cup fds)
      /\ p.peer[p.live[c].fd] \in {"idle", "data"} => p.live[c].fd \in DOMAIN t.clients
  BY <1>2, <1>3, ReadKeeps DEF fds
<1> HIDE DEF t
<1>5. Fine(srv, t, {e.fd} \cup fds)
  <2>1. Fine(srv, p, {}) /\ Fine(p, t, {e.fd} \cup fds)
    BY <1>2, <1>4 DEF Looked
  <2> QED
    BY <2>1, FineTwice
<1>6. Others(e, {e.fd} \cup fds)
  BY <1>3 DEF Others, BatchOK, fds
<1>7. Keeps(t, e)
  BY <1>2, <1>4 DEF Keeps, Looked
<1> QED
  BY <1>1, <1>5, <1>6, <1>7 DEF Served, Handled, t

LEMMA WriteServed ==
    ASSUME Good(srv, {}), BatchOK(srv, batch), NEW e \in batch, HandleWrite(e)
    PROVE  Served(e)
<1> DEFINE c == First(e).client
           p == Peeked(e)
<1>1. PICK sent \in {"all", "part"} : Proceed(HandleWriteEvent(p, c, sent), batch \ {e})
  BY DEF HandleWrite
<1> DEFINE t == HandleWriteEvent(p, c, sent)
<1>2. /\ Looked(srv, p, e.fd) /\ Good(p, {})
      /\ c \in DOMAIN p.live /\ p.live[c].fd = e.fd
  BY ClientEvent DEF HandleWrite
<1> HIDE DEF p, c
<1>3. /\ Handled(p, t, {p.live[c].fd})
      /\ Quiet(p, p.live[c].fd) => p.live[c].fd \in DOMAIN t.clients
  BY <1>2, WriteKeeps
<1> HIDE DEF t
<1>4. Handled(srv, t, {e.fd})
  <2>1. Fine(srv, p, {}) /\ Handled(p, t, {e.fd})
    BY <1>2, <1>3 DEF Looked
  <2>2. CASE Fine(p, t, {e.fd})
    BY <2>1, <2>2, FineTwice DEF Handled
  <2> QED
    BY <2>1, <2>2 DEF Handled, Fine
<1>5. Others(e, {e.fd})
  BY DEF Others, BatchOK
<1>6. Keeps(t, e)
  <2> SUFFICES ASSUME e.stale, e.fd \in ClientFds
               PROVE  e.fd \in DOMAIN t.clients
    BY DEF Keeps
  <2>1. Quiet(srv, e.fd)
    BY DEF BatchOK, EventOK, ClientFds
  <2>2. Quiet(p, e.fd)
    BY <1>2, <2>1 DEF Quiet, Looked
  <2> QED
    BY <1>2, <1>3, <2>2
<1> QED
  BY <1>1, <1>4, <1>5, <1>6 DEF Served, t

LEMMA CgiEndServed ==
    ASSUME Good(srv, {}), BatchOK(srv, batch), NEW e \in batch, HandleCgiEnd(e)
    PROVE  Served(e)
<1> DEFINE c == First(e).client
           p == Peeked(e)
           t == CgiEnd(p, c, e.fd)
<1>1. Known(e) /\ Matching(srv, e.fd, e.mask) # {} /\ First(e).kind = "cgiEnd"
  BY DEF HandleCgiEnd, Matches
<1>2. Looked(srv, p, e.fd) /\ IsWorkers(srv, e.fd, First(e))
  BY <1>1, FirstOf DEF IsAccept, IsClients
<1>3. Proceed(t, batch \ {e})
  BY DEF HandleCgiEnd
<1> HIDE DEF p
<1>4. PICK f \in DOMAIN srv.workers : e.fd = srv.workers[f] /\ c = srv.clients[f]
  BY <1>2 DEF IsWorkers
<1> HIDE DEF c
<1>5. srv.peer[e.fd] = "data" /\ e.fd \notin ClientFds
  <2>1. e.fd \in Workers(srv)
    BY <1>4 DEF Workers
  <2> QED
    BY <1>4, <2>1 DEF BatchOK, EventOK, Good, Linked, WorkerOf, ClientFds
<1>6. /\ Good(p, {}) /\ f \in DOMAIN p.workers /\ e.fd = p.workers[f]
      /\ p.peer[e.fd] = "data" /\ c = p.clients[f] /\ Fine(srv, p, {})
  BY <1>2, <1>4, <1>5 DEF Looked, Fine
<1>7. Fine(p, t, {})
  BY <1>6, CgiEndFine
<1> HIDE DEF t
<1>8. Fine(srv, t, {})
  BY <1>6, <1>7, FineTwice
<1>9. Handled(srv, t, {}) /\ Others(e, {}) /\ Keeps(t, e)
  BY <1>5, <1>8 DEF Handled, Others, Keeps
<1> QED
  BY <1>3, <1>9 DEF Served

LEMMA AcceptServed ==
    ASSUME Good(srv, {}), BatchOK(srv, batch), backlog \in Nat, NEW e \in batch,
           HandleAccept(e)
    PROVE  Served(e) /\ backlog' \in 0..backlog
<1>1. Known(e) /\ Matching(srv, e.fd, e.mask) # {} /\ First(e).kind = "accept"
  BY DEF HandleAccept, Matches
<1>2. IsAccept(srv, e.fd, First(e))
  BY <1>1, FirstOf DEF IsWorkers, IsClients
<1>3. e.fd \notin ClientFds
  BY <1>2 DEF IsAccept, Good, Linked, Listens, ClientFds
<1>4. CASE backlog = 0 \/ FreeFds = {}
  <2>1. Proceed(srv, batch \ {e}) /\ backlog' = backlog
    BY <1>4 DEF HandleAccept
  <2>2. Handled(srv, srv, {}) /\ Others(e, {}) /\ Keeps(srv, e)
    BY DEF Handled, Others, Keeps, Fine, Gentle, ClientFds
  <2> QED
    BY <2>1, <2>2 DEF Served
<1>5. CASE ~(backlog = 0 \/ FreeFds = {})
  <2>1. backlog' = backlog - 1
    BY <1>5 DEF HandleAccept
  <2>2. PICK c \in Ptrs \ DOMAIN srv.live, failAt \in 1..8 :
           Proceed(HandleNewConnection(srv, Min(FreeFds), c, failAt), batch \ {e})
    BY <1>5 DEF HandleAccept
  <2> DEFINE fd == Min(FreeFds)
             t == HandleNewConnection(srv, fd, c, failAt)
  <2>3. fd \in Fds \ srv.open
    <3>1. FreeFds \in SUBSET Nat /\ FreeFds # {}
      BY <1>5, ConnectionsAssumption DEF FreeFds
    <3> QED
      BY <3>1, MinOf DEF FreeFds
  <2> HIDE DEF fd
  <2>4. Fine(srv, t, {})
    BY <2>3, NewConnectionFine
  <2> HIDE DEF t
  <2>5. Handled(srv, t, {}) /\ Others(e, {}) /\ Keeps(t, e)
    BY <1>3, <2>4 DEF Handled, Others, Keeps
  <2>6. Served(e)
    BY <2>2, <2>5 DEF Served, t, fd
  <2> QED
    BY <1>5, <2>1, <2>6
<1> QED BY <1>4, <1>5

-----------------------------------------------------------------------------
(* The invariant of the loop. *)
LEMMA InitInv == Init => IInv
<1> SUFFICES ASSUME Init PROVE IInv
  OBVIOUS
<1>1. /\ IsTables(srv) /\ srv.open = {Listener}
      /\ srv.peer = [fd \in {Listener} |-> "idle"]
      /\ srv.interest = [fd \in {Listener} |-> {"IN"}]
      /\ srv.table = [fd \in {Listener} |-> FALSE]
      /\ srv.events = [fd \in {Listener} |-> <<[kind |-> "accept", client |-> "none"]>>]
      /\ srv.clients = <<>> /\ srv.live = <<>> /\ srv.armed = {}
      /\ srv.workers = <<>> /\ srv.faults = {}
  BY DEF Init, IsTables
<1>2. backlog = 0 /\ pc = "wait" /\ batch = {} /\ expired = {}
  BY DEF Init
<1>3. Listener \in Fds /\ Cardinality(Ptrs) \in Nat
  BY ConnectionsAssumption, FS_CardinalityType
<1>4. /\ srv.table[Listener] = FALSE
      /\ srv.table \in [DOMAIN srv.table -> BOOLEAN] /\ DOMAIN srv.table = {Listener}
  <2> DEFINE v == FALSE
  <2>1. srv.table = [fd \in {Listener} |-> v] /\ v \in BOOLEAN
    BY <1>1
  <2> HIDE DEF v
  <2>2. /\ srv.table[Listener] = v
        /\ srv.table \in [DOMAIN srv.table -> BOOLEAN] /\ DOMAIN srv.table = {Listener}
    BY <2>1
  <2> QED BY <2>2 DEF v
<1>5. Types(srv)
  <2>1. srv.peer \in [srv.open -> PeerStates]
    BY <1>1 DEF PeerStates
  <2>2. srv.interest \in [DOMAIN srv.interest -> SUBSET {"IN", "OUT"}]
    BY <1>1
  <2>3. /\ DOMAIN srv.clients = {} /\ DOMAIN srv.live = {} /\ DOMAIN srv.workers = {}
        /\ srv.clients \in [DOMAIN srv.clients -> Ptrs]
        /\ srv.live \in [DOMAIN srv.live -> [fd : Fds, out : BOOLEAN, close : BOOLEAN]]
        /\ srv.workers \in [DOMAIN srv.workers -> Fds]
    BY <1>1
  <2> QED
    BY <1>1, <1>3, <1>4, <2>1, <2>2, <2>3 DEF Types
<1>6. DOMAIN srv.clients = {} /\ DOMAIN srv.live = {} /\ DOMAIN srv.workers = {}
  BY <1>1
<1>7. Domains(srv) /\ Listens(srv)
  BY <1>1, <1>4, <1>6 DEF Domains, Listens, Event
<1>8. Good(srv, expired)
  BY <1>1, <1>2, <1>5, <1>6, <1>7 DEF Good, Linked, WorkersApart, Timed
<1>9. BatchOK(srv, batch)
  BY <1>2 DEF BatchOK
<1> QED
  BY <1>1, <1>2, <1>3, <1>5, <1>8, <1>9 DEF IInv, NoFaults

LEMMA FaultKeeps ==
    ASSUME NEW s, NEW due, Good(s, due), NEW f, NEW t, t = Fault(s, f)
    PROVE  /\ Good(t, due) /\ Gentle(s, t, {})
           /\ t.faults = s.faults \cup {f}
<1>1. IsTables(s)
  BY DEF Good, Linked, Types
<1>2. SameTables(s, t) /\ t.faults = s.faults \cup {f}
  BY <1>1 DEF IsTables, SameTables, Fault
<1> QED
  BY <1>2, SameKeeps

(* The state after a step of the loop that ends neither in a fault nor     *)
(* with the process. *)
LEMMA ProceedKeeps ==
    ASSUME NEW due, Good(srv, due), BatchOK(srv, batch), NEW s, NEW after, Good(s, after),
           NEW about, Gentle(srv, s, about), NEW rest \in SUBSET batch,
           \A f \in rest : f.fd \notin about, Proceed(s, rest)
    PROVE  Good(srv', after) /\ BatchOK(srv', batch')
<1>1. BatchOK(s, Passed(srv, s, rest))
  BY BatchKept
<1> QED
  BY <1>1 DEF Proceed, Passed

LEMMA HandleEventInv == IInv /\ FreshFds /\ HandleEvent => IInv'
<1> SUFFICES ASSUME IInv, FreshFds, HandleEvent
             PROVE  IInv'
  OBVIOUS
<1>1. /\ pc = "events" /\ expired = {} /\ Running /\ Cardinality(Ptrs) \in Nat
      /\ Good(srv, {}) /\ BatchOK(srv, batch) /\ NoFaults(srv)
      /\ backlog \in 0..Cardinality(Ptrs)
  BY ConnectionsAssumption, FS_CardinalityType DEF HandleEvent, IInv, Running
<1>2. PICK e \in batch : HandleNothing(e) \/ HandleRead(e) \/ HandleWrite(e)
                            \/ HandleCgiEnd(e) \/ HandleAccept(e)
  BY DEF HandleEvent
<1>3. Served(e) /\ backlog' \in 0..Cardinality(Ptrs) /\ expired' = {}
  <2>1. expired' = {}
    BY <1>1 DEF HandleEvent
  <2>2. CASE HandleNothing(e)
    BY <1>1, <2>1, <2>2, NothingServed DEF HandleNothing
  <2>3. CASE HandleRead(e)
    BY <1>1, <2>1, <2>3, ReadServed DEF HandleRead
  <2>4. CASE HandleWrite(e)
    BY <1>1, <2>1, <2>4, WriteServed DEF HandleWrite
  <2>5. CASE HandleCgiEnd(e)
    BY <1>1, <2>1, <2>5, CgiEndServed DEF HandleCgiEnd
  <2>6. CASE HandleAccept(e)
    <3>1. Served(e) /\ backlog' \in 0..backlog
      BY <1>1, <2>6, AcceptServed
    <3> QED BY <1>1, <2>1, <3>1
  <2> QED
    BY <1>2, <2>2, <2>3, <2>4, <2>5, <2>6
<1>4. PICK s, about : /\ Handled(srv, s, about) /\ Others(e, about)
                      /\ Proceed(s, batch \ {e})
  BY <1>3 DEF Served
<1>5. srv' = s /\ pc' = IF s.faults \cap {"sigpipe", "escaped"} # {} THEN "down" ELSE pc
  BY <1>4 DEF Proceed
<1>6. CASE Types(s) /\ s.faults = srv.faults \cup {"sigpipe"}
  <2>1. pc' = "down" /\ srv'.faults \subseteq {"freed", "sigpipe"} /\ Types(srv')
    BY <1>1, <1>5, <1>6 DEF NoFaults
  <2> QED
    BY <1>3, <2>1 DEF IInv, Running
<1>7. CASE Fine(srv, s, about)
  <2>1. /\ pc' = "events" /\ NoFaults(srv') /\ srv'.faults \subseteq {"freed", "sigpipe"}
    BY <1>1, <1>5, <1>7 DEF Fine, NoFaults
  <2>2. Good(srv', {}) /\ BatchOK(srv', batch')
    <3> DEFINE due == {}
               rest == batch \ {e}
    <3>1. /\ Good(srv, due) /\ Good(s, due) /\ Gentle(srv, s, about)
          /\ rest \in SUBSET batch /\ \A f \in rest : f.fd \notin about
          /\ Proceed(s, rest)
      BY <1>1, <1>4, <1>7 DEF Fine, Others
    <3> HIDE DEF due, rest
    <3>2. Good(srv', due) /\ BatchOK(srv', batch')
      BY <1>1, <3>1, ProceedKeeps
    <3> QED BY <3>2 DEF due
  <2>3. Types(srv')
    BY <2>2 DEF Good, Linked
  <2> QED
    BY <1>3, <2>1, <2>2, <2>3 DEF IInv
<1> QED
  BY <1>4, <1>6, <1>7 DEF Handled

LEMMA CallOnTimeoutInv == \A c \in Ptrs : IInv /\ CallOnTimeout(c) => IInv'
<1> SUFFICES ASSUME NEW c \in Ptrs, IInv, CallOnTimeout(c)
             PROVE  IInv'
  OBVIOUS
<1>1. /\ pc = "callbacks" /\ c \in expired /\ expired' = expired \ {c} /\ Running
      /\ backlog' = backlog /\ expired \subseteq Ptrs /\ backlog \in 0..Cardinality(Ptrs)
      /\ Good(srv, expired) /\ BatchOK(srv, batch) /\ NoFaults(srv)
  BY DEF CallOnTimeout, IInv, Running
<1>2. PICK sent \in {"all", "part"} : Proceed(OnTimeout(srv, c, sent), batch)
  BY DEF CallOnTimeout
<1> DEFINE t == OnTimeout(srv, c, sent)
           fd == srv.live[c].fd
<1>3. c \in DOMAIN srv.live /\ Linked(srv) /\ fd \in DOMAIN srv.clients /\ srv.clients[fd] = c
  BY <1>1, OfClient DEF Good, Timed
<1>4. srv' = t /\ pc' = IF t.faults \cap {"sigpipe", "escaped"} # {} THEN "down" ELSE pc
  BY <1>2 DEF Proceed
<1>5. \/ Types(t) /\ t.faults = srv.faults \cup {"sigpipe"}
      \/ \E a : Closed(srv, a, fd) /\ (t = a \/ t = Fault(a, "freed"))
  <2>1. "sigpipe" \notin srv.faults
    BY <1>1 DEF NoFaults
  <2> QED
    BY <1>3, <2>1, OnTimeoutCloses
<1> HIDE DEF t, fd
<1>6. CASE Types(t) /\ t.faults = srv.faults \cup {"sigpipe"}
  <2>1. pc' = "down" /\ srv'.faults \subseteq {"freed", "sigpipe"} /\ Types(srv')
    BY <1>1, <1>4, <1>6 DEF NoFaults
  <2> QED
    BY <1>1, <2>1 DEF IInv, Running
<1>7. ASSUME NEW a, Closed(srv, a, fd), t = a \/ t = Fault(a, "freed")
      PROVE  IInv'
  <2>1. Good(a, expired \ {c}) /\ Gentle(srv, a, {}) /\ a.faults = srv.faults
    BY <1>1, <1>3, <1>7, ClosedKeeps
  <2>2. /\ Good(t, expired \ {c}) /\ Gentle(srv, t, {})
        /\ t.faults = srv.faults \/ t.faults = srv.faults \cup {"freed"}
    <3>1. CASE t = a
      BY <2>1, <3>1
    <3>2. CASE t = Fault(a, "freed")
      <4>1. Good(t, expired \ {c}) /\ Gentle(a, t, {}) /\ t.faults = a.faults \cup {"freed"}
        BY <2>1, <3>2, FaultKeeps
      <4>2. Gentle(srv, t, {})
        BY <2>1, <4>1 DEF Gentle
      <4> QED BY <2>1, <4>1, <4>2
    <3> QED BY <1>7, <3>1, <3>2
  <2>3. NoFaults(srv') /\ pc' = "callbacks" /\ srv'.faults \subseteq {"freed", "sigpipe"}
    BY <1>1, <1>4, <2>2 DEF NoFaults
  <2>4. Good(srv', expired') /\ BatchOK(srv', batch')
    <3> DEFINE after == expired \ {c}
    <3>1. Good(t, after) /\ batch \in SUBSET batch /\ Proceed(t, batch)
      BY <1>2, <2>2 DEF t
    <3> HIDE DEF after
    <3>2. Good(srv', after) /\ BatchOK(srv', batch')
      BY <1>1, <2>2, <3>1, ProceedKeeps
    <3> QED BY <1>1, <3>2 DEF after
  <2>5. Types(srv')
    BY <2>4 DEF Good, Linked
  <2> QED
    BY <1>1, <2>3, <2>4, <2>5 DEF IInv
<1> QED
  BY <1>5, <1>6, <1>7

-----------------------------------------------------------------------------
(* The peers and the CGI processes. *)
LEMMA ConnectInv == IInv /\ Connect => IInv'
<1> SUFFICES ASSUME IInv, Connect
             PROVE  IInv'
  OBVIOUS
<1>1. /\ srv' = srv /\ pc' = pc /\ batch' = batch /\ expired' = expired
      /\ backlog' = backlog + 1 /\ Running
      /\ backlog + Cardinality(DOMAIN srv.live) < Cardinality(Ptrs)
  BY DEF Connect
<1>2. Cardinality(DOMAIN srv.live) \in Nat /\ Cardinality(Ptrs) \in Nat
  <2>1. DOMAIN srv.live \subseteq Ptrs /\ IsFiniteSet(Ptrs)
    BY ConnectionsAssumption DEF IInv, Types
  <2> QED
    BY <2>1, FS_Subset, FS_CardinalityType
<1>3. backlog' \in 0..Cardinality(Ptrs)
  BY <1>1, <1>2 DEF IInv
<1> QED
  BY <1>1, <1>3 DEF IInv, Running

(* What a peer does changes what the kernel has for one client. *)
LEMMA PeerInv ==
    ASSUME IInv, Running, NEW fd \in ClientFds, NEW p \in PeerStates,
           fd \in DOMAIN srv.workers => p \notin HasData,
           srv' = SetPeer(srv, fd, p), UNCHANGED <<backlog, pc, batch, expired>>
    PROVE  IInv'
<1>1. /\ Good(srv, expired) /\ BatchOK(srv, batch) /\ NoFaults(srv) /\ Linked(srv)
      /\ fd \in DOMAIN srv.clients
  BY DEF IInv, ClientFds, Good
<1>2. /\ Touched(srv, srv', fd) /\ Linked(srv')
      /\ srv'.interest = srv.interest /\ srv'.live = srv.live /\ srv'.armed = srv.armed
      /\ srv'.faults = srv.faults
  BY <1>1, PeerSet
<1>3. Watched(srv', fd)
  BY <1>1, <1>2 DEF Good, Watched, Touched
<1>4. Good(srv', expired) /\ Gentle(srv, srv', {})
  BY <1>1, <1>2, <1>3, TouchedKeeps
<1>5. BatchOK(srv', batch)
  BY <1>1, <1>4, BatchSame
<1>6. Types(srv') /\ NoFaults(srv') /\ srv'.faults \subseteq {"freed", "sigpipe"}
  BY <1>1, <1>2 DEF Linked, NoFaults
<1> QED
  BY <1>4, <1>5, <1>6 DEF IInv, Running

LEMMA PeersInv ==
    \A fd \in Fds : IInv /\ PeersWait /\ (PeerSends(fd) \/ PeerCloses(fd) \/ PeerResets(fd)) => IInv'
<1> SUFFICES ASSUME NEW fd \in Fds, IInv, PeersWait,
                    PeerSends(fd) \/ PeerCloses(fd) \/ PeerResets(fd)
             PROVE  IInv'
  OBVIOUS
<1>1. /\ Running /\ fd \in ClientFds /\ Linked(srv) /\ srv.peer[fd] \in PeerStates
      /\ UNCHANGED <<backlog, pc, batch, expired>>
  <2>1. Running /\ fd \in ClientFds /\ UNCHANGED <<backlog, pc, batch, expired>>
    BY DEF PeerSends, PeerCloses, PeerResets
  <2>2. Linked(srv)
    BY <2>1 DEF IInv, Good
  <2>3. fd \in srv.open
    BY <2>1, <2>2 DEF Linked, ClientOf, ClientFds
  <2>4. srv.peer \in [srv.open -> PeerStates]
    BY <2>2, Fields
  <2> QED
    BY <2>1, <2>2, <2>3, <2>4
<1>2. fd \in DOMAIN srv.workers => srv.peer[fd] \notin HasData
  BY <1>1 DEF Linked, WorkerOf
<1>3. CASE PeerSends(fd)
  <2>1. srv' = SetPeer(srv, fd, "data") /\ fd \notin DOMAIN srv.workers
    BY <1>3 DEF PeerSends, SetPeer
  <2> QED
    BY <1>1, <2>1, PeerInv DEF PeerStates, HasData
<1>4. CASE PeerCloses(fd)
  <2>1. srv' = SetPeer(srv, fd, "eof")
    BY <1>4 DEF PeerCloses, SetPeer
  <2> QED
    BY <1>1, <2>1, PeerInv DEF PeerStates, HasData
<1>5. CASE PeerResets(fd)
  <2> DEFINE p == CASE srv.peer[fd] = "data" -> "dataReset"
                    [] srv.peer[fd] = "eof"  -> "broken"
                    [] OTHER                 -> "reset"
  <2>1. srv' = SetPeer(srv, fd, p)
    BY <1>5 DEF PeerResets, SetPeer
  <2>2. p \in PeerStates /\ (fd \in DOMAIN srv.workers => p \notin HasData)
    BY <1>2 DEF PeerStates, HasData, HungUp
  <2> HIDE DEF p
  <2> QED
    BY <1>1, <2>1, <2>2, PeerInv
<1> QED
  BY <1>3, <1>4, <1>5

(* The byte of a worker: no event of the batch is waiting for it. *)
LEMMA CgiFinishesInv == \A fd \in Fds : IInv /\ CgiFinishes(fd) => IInv'
<1> SUFFICES ASSUME NEW fd \in Fds, IInv, CgiFinishes(fd)
             PROVE  IInv'
  OBVIOUS
<1> DEFINE s == srv
           t == srv'
<1>1. /\ Running /\ fd \in DOMAIN s.events /\ s.events[fd] # <<>>
      /\ s.events[fd][1].kind = "cgiEnd" /\ s.peer[fd] = "idle"
      /\ t = [s EXCEPT !.peer[fd] = "data"]
      /\ UNCHANGED <<backlog, pc, batch, expired>>
  BY DEF CgiFinishes
<1>2. /\ Good(s, expired) /\ BatchOK(s, batch) /\ NoFaults(s) /\ Linked(s)
      /\ IsTables(s) /\ s.peer \in [s.open -> PeerStates] /\ fd \in s.open
  BY <1>1, Fields DEF IInv, Good, Linked, Domains
<1>3. PICK cfd \in DOMAIN s.workers : s.workers[cfd] = fd
  <2>1. fd # Listener
    <3>1. <<Event("accept", "none")>>[1].kind = "accept"
      BY DEF Event
    <3> QED
      BY <1>1, <1>2, <3>1 DEF Linked, Listens
  <2>2. fd \notin DOMAIN s.clients
    <3> SUFFICES ASSUME fd \in DOMAIN s.clients PROVE FALSE
      OBVIOUS
    <3>1. s.events[fd] = <<Event("read", s.clients[fd]), Event("write", s.clients[fd])>>
      BY <1>2 DEF Linked, ClientOf
    <3>2. s.events[fd][1].kind = "read"
      BY <3>1 DEF Event
    <3> QED BY <1>1, <3>2
  <2> QED
    BY <1>2, <2>1, <2>2 DEF Linked, Domains, Workers
<1>4. /\ t.peer = [s.peer EXCEPT ![fd] = "data"] /\ IsTables(t)
      /\ t.open = s.open /\ t.interest = s.interest
      /\ t.table = s.table /\ t.events = s.events /\ t.clients = s.clients
      /\ t.live = s.live /\ t.armed = s.armed /\ t.workers = s.workers
      /\ t.faults = s.faults
  BY <1>1, <1>2 DEF IsTables
<1>5. fd \notin DOMAIN s.clients /\ fd # Listener
  BY <1>2, <1>3 DEF Linked, WorkerOf
<1> HIDE DEF s, t
<1>6. Types(t)
  <2>1. t.peer \in [t.open -> PeerStates]
    BY <1>2, <1>4 DEF PeerStates, HasData
  <2> QED
    BY <1>2, <1>4, <2>1 DEF Linked, Types
<1>7. Domains(t)
  BY <1>2, <1>4 DEF Linked, Domains, Workers
<1>8. Listens(t)
  BY <1>2, <1>4, <1>5 DEF Linked, Listens, Domains
<1>9. \A f \in DOMAIN t.clients : ClientOf(t, f) /\ Watched(t, f)
  BY <1>2, <1>4 DEF Good, Linked, ClientOf, Watched
<1>10. \A c \in DOMAIN t.live : ObjectOf(t, c)
  BY <1>2, <1>4 DEF Linked, ObjectOf
<1>11. \A f \in DOMAIN t.workers : WorkerOf(t, f)
  <2> SUFFICES ASSUME NEW f \in DOMAIN s.workers
               PROVE  WorkerOf(t, f)
    BY <1>4
  <2>1. WorkerOf(s, f) /\ f # fd
    BY <1>2, <1>5 DEF Linked, WorkerOf
  <2>2. t.peer[f] = s.peer[f] /\ t.peer[s.workers[f]] \in {"idle", "data"}
    BY <1>2, <1>4, <2>1 DEF WorkerOf
  <2> QED
    BY <1>4, <2>1, <2>2 DEF WorkerOf
<1>12. WorkersApart(t) /\ Timed(t, expired)
  BY <1>2, <1>4 DEF Good, Linked, WorkersApart, Timed
<1>13. Good(t, expired)
  BY <1>6, <1>7, <1>8, <1>9, <1>10, <1>11, <1>12 DEF Good, Linked
<1>14. Gentle(s, t, {fd})
  <2> SUFFICES ASSUME NEW f \in Fds, f # fd
               PROVE  /\ f \in Workers(t) => f \in Workers(s) /\ t.peer[f] = s.peer[f]
                      /\ f \in DOMAIN t.clients /\ ~Quiet(t, f) =>
                            f \in DOMAIN s.clients /\ ~Quiet(s, f)
    BY DEF Gentle
  <2>1. Workers(t) = Workers(s) /\ \A x \in Workers(s) : x \in s.open
    BY <1>2, <1>4 DEF Workers, Linked, WorkerOf
  <2> QED
    BY <1>2, <1>4, <2>1 DEF Quiet
<1>15. \A e \in batch : e.fd \notin {fd}
  <2>1. fd \in Workers(s)
    BY <1>3 DEF Workers
  <2> QED
    BY <1>1, <1>2, <2>1 DEF BatchOK, EventOK
<1>16. BatchOK(t, batch)
  BY <1>2, <1>14, <1>15, BatchSame
<1> QED
  BY <1>1, <1>2, <1>4, <1>6, <1>13, <1>16 DEF IInv, Running, NoFaults, s, t

-----------------------------------------------------------------------------
(* The rest of the loop. *)
LEMMA ReadyOK ==
    ASSUME NEW due, Good(srv, due), NEW writable
    PROVE  BatchOK(srv, Ready(writable))
<1>1. ASSUME NEW e \in Ready(writable)
      PROVE  EventOK(srv, e)
  <2>1. PICK f \in DOMAIN srv.interest :
           Bits(f, writable) # {} /\ e = [fd |-> f, mask |-> Bits(f, writable), stale |-> FALSE]
    BY <1>1 DEF Ready
  <2>2. e = [fd |-> e.fd, mask |-> e.mask, stale |-> e.stale] /\ e.fd = f /\ e.mask = Bits(f, writable)
        /\ e.stale \in BOOLEAN /\ ~e.stale
    BY <2>1
  <2>3. f \in Fds /\ srv.interest[f] \subseteq {"IN", "OUT"}
    BY DEF Good, Linked, Types, Domains
  <2>4. "ERR" \in e.mask => "HUP" \in e.mask
    BY <2>2, <2>3 DEF Bits
  <2>5. ASSUME f \in Workers(srv) PROVE srv.peer[f] = "data"
    <3>1. PICK g \in DOMAIN srv.workers : srv.workers[g] = f
      BY <2>5 DEF Workers
    <3>2. srv.peer[f] \in {"idle", "data"} /\ srv.interest[f] = {"IN"} /\ f # Listener
      BY <3>1 DEF Good, Linked, WorkerOf
    <3>3. ~HangsUp(f)
      BY <3>2 DEF HangsUp, HungUp
    <3>4. Readable(f)
      BY <2>1, <3>2, <3>3 DEF Bits
    <3> QED
      BY <3>2, <3>4 DEF Readable
  <2> QED
    BY <2>2, <2>3, <2>4, <2>5 DEF EventOK
<1>2. ASSUME NEW e \in Ready(writable), NEW f \in Ready(writable), e.fd = f.fd
      PROVE  e = f
  <2> DEFINE report(fd) == [fd |-> fd, mask |-> Bits(fd, writable), stale |-> FALSE]
  <2>1. PICK g, h \in DOMAIN srv.interest : e = report(g) /\ f = report(h)
    BY DEF Ready
  <2>2. e.fd = g /\ f.fd = h
    BY <2>1
  <2> QED
    BY <1>2, <2>1, <2>2
<1> QED
  BY <1>1, <1>2 DEF BatchOK

LEMMA WaitInv == IInv /\ Wait => IInv'
<1> SUFFICES ASSUME IInv, Wait
             PROVE  IInv'
  OBVIOUS
<1>1. /\ pc = "wait" /\ pc' = "check" /\ srv' = srv /\ backlog' = backlog
      /\ expired' = expired /\ Running /\ Good(srv, expired) /\ expired = {}
  BY DEF Wait, IInv, Running
<1>2. PICK writable \in SUBSET {fd \in DOMAIN srv.interest : "OUT" \in srv.interest[fd]} :
         batch' \subseteq Ready(writable)
  BY DEF Wait
<1>3. BatchOK(srv, Ready(writable))
  BY <1>1, ReadyOK
<1>4. BatchOK(srv, batch')
  BY <1>2, <1>3 DEF BatchOK
<1> QED
  BY <1>1, <1>4 DEF IInv, Running

LEMMA CheckTimeoutsInv == IInv /\ CheckTimeouts => IInv'
<1> SUFFICES ASSUME IInv, CheckTimeouts
             PROVE  IInv'
  OBVIOUS
<1> DEFINE t == srv'
<1>1. /\ pc = "check" /\ pc' = "callbacks" /\ backlog' = backlog /\ batch' = batch
      /\ Running /\ Good(srv, {}) /\ BatchOK(srv, batch) /\ NoFaults(srv)
  BY DEF CheckTimeouts, IInv, Running
<1>2. PICK due \in SUBSET srv.armed :
         expired' = due /\ t = [srv EXCEPT !.armed = @ \ due]
  BY DEF CheckTimeouts
<1>3. /\ IsTables(t) /\ t.peer = srv.peer
      /\ t.open = srv.open /\ t.interest = srv.interest
      /\ t.table = srv.table /\ t.events = srv.events /\ t.clients = srv.clients
      /\ t.live = srv.live /\ t.armed = srv.armed \ due /\ t.workers = srv.workers
      /\ t.faults = srv.faults
  BY <1>1, <1>2 DEF IsTables, Good, Linked, Types
<1> HIDE DEF t
<1>4. Types(t)
  BY <1>1, <1>3 DEF Good, Linked, Types
<1>5. Workers(t) = Workers(srv)
  BY <1>3 DEF Workers
<1>6. Domains(t) /\ Listens(t)
  BY <1>1, <1>3, <1>5 DEF Good, Linked, Domains, Listens
<1>7. \A fd \in DOMAIN t.clients : ClientOf(t, fd) /\ Watched(t, fd)
  BY <1>1, <1>3 DEF Good, Linked, ClientOf, Watched
<1>8. \A c \in DOMAIN t.live : ObjectOf(t, c)
  BY <1>1, <1>3 DEF Good, Linked, ObjectOf
<1>9. \A fd \in DOMAIN t.workers : WorkerOf(t, fd)
  BY <1>1, <1>3 DEF Good, Linked, WorkerOf
<1>10. WorkersApart(t)
  BY <1>1, <1>3 DEF Good, Linked, WorkersApart
<1>11. Timed(t, due)
  BY <1>1, <1>2, <1>3 DEF Good, Timed
<1>12. Good(t, due)
  BY <1>4, <1>6, <1>7, <1>8, <1>9, <1>10, <1>11 DEF Good, Linked
<1>13. Gentle(srv, t, {})
  BY <1>3, <1>5 DEF Gentle, Quiet
<1>14. BatchOK(t, batch)
  <2> DEFINE none == {}
  <2>1. Good(srv, none) /\ \A e \in batch : e.fd \notin {}
    BY <1>1
  <2> HIDE DEF none
  <2> QED
    BY <1>1, <1>13, <2>1, BatchSame
<1>15. due \subseteq Ptrs
  BY <1>1, <1>2 DEF Good, Linked, Types
<1> QED
  BY <1>1, <1>2, <1>3, <1>4, <1>12, <1>14, <1>15 DEF IInv, Running, NoFaults, t

LEMMA PassInv == IInv /\ (EndCallbacks \/ EndEvents) => IInv'
<1>1. ASSUME IInv, EndCallbacks
      PROVE  IInv'
  BY <1>1 DEF IInv, EndCallbacks, Running
<1>2. ASSUME IInv, EndEvents
      PROVE  IInv'
  BY <1>2 DEF IInv, EndEvents, Running
<1> QED BY <1>1, <1>2

LEMMA NextInv == PeersWait /\ FreshFds /\ IInv /\ [Next]_vars => IInv'
<1> SUFFICES ASSUME PeersWait, FreshFds, IInv, [Next]_vars
             PROVE  IInv'
  OBVIOUS
<1>1. CASE Wait
  BY <1>1, WaitInv
<1>2. CASE CheckTimeouts
  BY <1>2, CheckTimeoutsInv
<1>3. ASSUME NEW c \in Ptrs, CallOnTimeout(c)
      PROVE  IInv'
  BY <1>3, CallOnTimeoutInv
<1>4. CASE EndCallbacks \/ EndEvents
  BY <1>4, PassInv
<1>5. CASE HandleEvent
  BY <1>5, HandleEventInv
<1>6. CASE Connect
  BY <1>6, ConnectInv
<1>7. ASSUME NEW fd \in Fds, PeerSends(fd) \/ PeerCloses(fd) \/ PeerResets(fd)
      PROVE  IInv'
  BY <1>7, PeersInv
<1>8. ASSUME NEW fd \in Fds, CgiFinishes(fd)
      PROVE  IInv'
  BY <1>8, CgiFinishesInv
<1>9. CASE UNCHANGED vars
  BY <1>9 DEF vars, IInv, Running
<1> QED
  BY <1>1, <1>2, <1>3, <1>4, <1>5, <1>6, <1>7, <1>8, <1>9 DEF Next, Loop

-----------------------------------------------------------------------------
(* The theorems.  A peer that sends while its CGI answer is outstanding,   *)
(* or a worker that gets a descriptor the batch mentions, breaks them.     *)
Orderly == PeersWait /\ FreshFds

(* The tables, the Clients, the workers, the timers and the events epoll   *)
(* has returned fit together in every state of the loop.                   *)
THEOREM TablesInvariant == ASSUME Orderly PROVE Spec => []IInv
<1>1. Init => IInv
  BY InitInv
<1>2. IInv /\ [Next]_vars => IInv'
  BY NextInv DEF Orderly
<1> QED
  BY <1>1, <1>2, PTL DEF Spec

(* The tables of Server and EventManager keep their types. *)
THEOREM TypeCorrect == ASSUME Orderly PROVE Spec => []TypeOK
<1>1. IInv => TypeOK
  BY DEF IInv, Types, IsTables, TypeOK, ClientFds
<1> QED
  BY <1>1, TablesInvariant, PTL

(* closeConnection(), handleNewConnection() and its catch block,           *)
(* createWorker(), CgiEndEvent and the timeouts leave every table with the *)
(* same descriptors, Clients, workers and timers. *)
THEOREM TablesStayInAgreement == ASSUME Orderly PROVE Spec => []TablesAgree
<1>1. IInv => TablesAgree
  <2> SUFFICES ASSUME IInv, Running
               PROVE  DescriptorsAgree /\ ClientsLive /\ WorkersOwned /\ ClientsTimed
    BY DEF TablesAgree
  <2>1. Good(srv, expired) /\ Linked(srv) /\ Types(srv)
    BY DEF IInv, Good
  <2>2. DescriptorsAgree
    <3>1. srv.open \subseteq {Listener} \cup ClientFds \cup WorkerFdsInUse
      BY <2>1 DEF Linked, Domains, ClientFds, WorkerFdsInUse, Workers
    <3>2. {Listener} \cup ClientFds \cup WorkerFdsInUse \subseteq srv.open
      BY <2>1 DEF Linked, Domains, ClientOf, WorkerOf, ClientFds, WorkerFdsInUse
    <3>3. \A fd \in DOMAIN srv.table : srv.table[fd] = TRUE <=> fd \in ClientFds
      <4> SUFFICES ASSUME NEW fd \in srv.open
                   PROVE  srv.table[fd] = TRUE <=> fd \in ClientFds
        BY <2>1 DEF Linked, Domains
      <4>1. CASE fd \in ClientFds
        BY <2>1, <4>1 DEF Linked, ClientOf, ClientFds
      <4>2. CASE fd = Listener
        BY <2>1, <4>2 DEF Linked, Listens, ClientFds
      <4>3. CASE fd \in WorkerFdsInUse
        BY <2>1, <4>3 DEF Linked, WorkerOf, WorkerFdsInUse, ClientFds
      <4> QED
        BY <3>1, <4>1, <4>2, <4>3
    <3>4. ClientFds \subseteq DOMAIN srv.table
      BY <2>1 DEF Linked, Domains, ClientOf, ClientFds
    <3>5. ClientFds = {fd \in DOMAIN srv.table : srv.table[fd]}
      <4>1. \A fd \in DOMAIN srv.table : srv.table[fd] \in BOOLEAN
        BY <2>1 DEF Types
      <4> QED
        BY <3>3, <3>4, <4>1, Zenon
    <3> QED
      BY <2>1, <3>1, <3>2, <3>5 DEF DescriptorsAgree, Linked, Domains
  <2>3. ClientsLive
    <3>1. DOMAIN srv.live = {srv.clients[fd] : fd \in ClientFds}
      <4>1. \A c \in DOMAIN srv.live : c \in {srv.clients[fd] : fd \in ClientFds}
        BY <2>1 DEF Linked, ObjectOf, ClientFds
      <4>2. \A fd \in ClientFds : srv.clients[fd] \in DOMAIN srv.live
        BY <2>1 DEF Linked, ClientOf, ClientFds
      <4> QED
        BY <4>1, <4>2
    <3> QED
      BY <2>1, <3>1 DEF ClientsLive, Linked, ClientOf, ClientFds
  <2>4. WorkersOwned
    BY <2>1 DEF WorkersOwned, Linked, WorkerOf, WorkersApart, ClientFds
  <2>5. ClientsTimed
    BY <2>1 DEF ClientsTimed, Good, Timed
  <2> QED
    BY <2>2, <2>3, <2>4, <2>5
<1> QED
  BY <1>1, TablesInvariant, PTL

(* A connection with an answer in its buffer waits for EPOLLOUT, one       *)
(* without waits for EPOLLIN. *)
THEOREM AnswersAreWatched == ASSUME Orderly PROVE Spec => []AnswersWatched
<1>1. IInv => AnswersWatched
  BY DEF IInv, Good, Watched, AnswersWatched, ClientFds
<1> QED
  BY <1>1, TablesInvariant, PTL

(* No handler calls modifySocket() on a descriptor that left epoll. *)
THEOREM NoExceptionEscapes == ASSUME Orderly PROVE Spec => []NothingEscapes
<1>1. IInv => NothingEscapes
  BY DEF IInv, NothingEscapes
<1> QED
  BY <1>1, TablesInvariant, PTL

(* CgiEndEvent finds the worker of its own descriptor, and finished. *)
THEOREM CompletionFindsItsWorker == ASSUME Orderly PROVE Spec => []NothingPremature
<1>1. IInv => NothingPremature
  BY DEF IInv, NothingPremature
<1> QED
  BY <1>1, TablesInvariant, PTL

(* An event returned for a descriptor that was closed and given to a new   *)
(* connection in the same batch does not close that connection. *)
THEOREM StaleEventsCloseNothing == ASSUME Orderly PROVE Spec => StaleEventsHarmless
<1> DEFINE Spared(e) == (e.stale /\ e \notin batch' /\ e.fd \in ClientFds
                           /\ srv.peer[e.fd] \in {"idle", "data"})
                             => e.fd \in DOMAIN srv'.clients
<1>1. IInv /\ [Next]_vars => [\A e \in batch : Spared(e)]_vars
  <2> SUFFICES ASSUME IInv, Next, NEW e \in batch,
                      e.stale, e \notin batch', e.fd \in ClientFds,
                      srv.peer[e.fd] \in {"idle", "data"}
               PROVE  e.fd \in DOMAIN srv'.clients
    OBVIOUS
  <2>1. Running
    BY DEF Next, Loop, Wait, CheckTimeouts, CallOnTimeout, EndCallbacks, HandleEvent, EndEvents,
           Connect, PeerSends, PeerCloses, PeerResets, CgiFinishes, Running
  <2>2. BatchOK(srv, batch)
    BY <2>1 DEF IInv
  <2>3. ASSUME NEW s, NEW rest, Proceed(s, rest), e \in rest
        PROVE  FALSE
    <3> DEFINE now == [e EXCEPT !.stale = @ \/ e.fd \in s.open \ srv.open]
    <3>1. now \in batch'
      BY <2>3 DEF Proceed
    <3>2. e = [fd |-> e.fd, mask |-> e.mask, stale |-> e.stale] /\ e.stale
      BY <2>2 DEF BatchOK, EventOK
    <3>3. now = e
      BY <3>2
    <3> QED
      BY <3>1, <3>3
  <2>4. CASE HandleEvent
    <3>1. PICK f \in batch : HandleNothing(f) \/ HandleRead(f) \/ HandleWrite(f)
                                \/ HandleCgiEnd(f) \/ HandleAccept(f)
      BY <2>4 DEF HandleEvent
    <3>2. Served(f)
      <4>1. Good(srv, {}) /\ backlog \in Nat /\ FreshFds
        BY <2>1, <2>4 DEF IInv, HandleEvent, Orderly
      <4> QED
        BY <2>2, <3>1, <4>1, NothingServed, ReadServed, WriteServed, CgiEndServed, AcceptServed
    <3>3. PICK s : Keeps(s, f) /\ Proceed(s, batch \ {f})
      BY <3>2 DEF Served
    <3>4. e = f
      BY <2>3, <3>3
    <3> QED
      BY <3>3, <3>4 DEF Keeps, Proceed
  <2>5. ASSUME NEW c \in Ptrs, CallOnTimeout(c)
        PROVE  FALSE
    BY <2>3, <2>5 DEF CallOnTimeout
  <2>6. CASE Wait
    BY <2>6 DEF IInv, Wait
  <2> QED
    BY <2>4, <2>5, <2>6 DEF Next, Loop, CheckTimeouts, EndCallbacks, EndEvents,
           Connect, PeerSends, PeerCloses, PeerResets, CgiFinishes
<1> QED
  BY <1>1, TablesInvariant, PTL DEF Spec, StaleEventsHarmless
=============================================================================
