----------------------------- MODULE Listening -----------------------------
(***************************************************************************)
(* The listening sockets of the server (src/src/Server/Listen), with what  *)
(* the event manager, epoll and the kernel know of them.  A value x:       *)
(*   x.listeners : _listeners, key -> [fd, vhosts, default]; a key is      *)
(*                 [interface, port], fd is -1 for no socket               *)
(*   x.byFd      : _listenersByFd, descriptor -> key                       *)
(*   x.known     : EventManager::_clientTable, the descriptors initFd() saw*)
(*   x.events    : those with a NewConnectionEvent in _eventsTable         *)
(*   x.epoll     : the interest list                                       *)
(*   x.sockets   : descriptor -> [address, port, listening]                *)
(*   x.opened    : openedFds, a local of openAndRegisterListeners()        *)
(* The order in _vhostIndices and openedFds has no effect: they are sets.  *)
(***************************************************************************)
EXTENDS Integers, Sequences, FiniteSets, SequencesExt, Maps

CONSTANT Address  \* interface -> address; "any" is the address of all interfaces

Nothing ==
    [listeners |-> <<>>, byFd |-> <<>>, known |-> {}, events |-> {}, epoll |-> {},
     sockets |-> <<>>, opened |-> {}]

KeyOf(listen) == [interface |-> listen.interface, port |-> listen.port]

ListensOn(config, key) == {l \in ToSet(config.listens) : KeyOf(l) = key}

(* ListenerRegistry::build(): a listener for each key of a virtual host,   *)
(* the first virtual host with it being its default.                       *)
Build(configs) ==
    LET on(key) == {i \in DOMAIN configs : ListensOn(configs[i], key) # {}}
        keys == UNION {{KeyOf(l) : l \in ToSet(configs[i].listens)} : i \in DOMAIN configs}
    IN [Nothing EXCEPT !.listeners =
           [key \in keys |-> [fd |-> -1, vhosts |-> on(key),
                               default |-> CHOOSE i \in on(key) : \A j \in on(key) : i <= j]]]

(* One turn of the loop of openAndRegisterListeners(): what there is after *)
(* the first n of its calls, which are                                     *)
(*   1 socket         (fcntl, setsockopt and getaddrinfo change nothing)   *)
(*   2 bind, 3 listen, 4 setSocket, 5 registerSocket, 6 initFd,            *)
(*   7 _listenersByFd[fd] = listener, 8 addEvent, 9 openedFds.push_back.   *)
AllCalls == 9

After(x, n, key, fd) ==
    LET socket == [address |-> IF n >= 2 THEN Address[key.interface] ELSE "none",
                   port |-> IF n >= 2 THEN key.port ELSE 0,
                   listening |-> n >= 3]
        with(set, first) == IF n >= first THEN set \cup {fd} ELSE set
    IN [x EXCEPT
          !.sockets = IF n >= 1 THEN Put(@, fd, socket) ELSE @,
          !.listeners = IF n >= 4
                        THEN [k \in DOMAIN @ |-> IF k = key THEN [@[k] EXCEPT !.fd = fd]
                                                 ELSE @[k]]
                        ELSE @,
          !.epoll = with(@, 5),
          !.known = with(@, 6),
          !.byFd = IF n >= 7 THEN Put(@, fd, key) ELSE @,
          !.events = with(@, 8),
          !.opened = with(@, 9)]

(* bind() refuses an address that is in use, and an address and the one of *)
(* all interfaces use the same port.                                       *)
InUse(x, key) ==
    \E fd \in DOMAIN x.sockets :
       /\ x.sockets[fd].listening
       /\ x.sockets[fd].port = key.port
       /\ \/ x.sockets[fd].address = Address[key.interface]
          \/ "any" \in {x.sockets[fd].address, Address[key.interface]}

(* close(): the kernel takes a closed descriptor off the interest list.    *)
CloseFds(x, fds) ==
    [x EXCEPT !.sockets = Erase(@, fds), !.epoll = @ \ fds]

(* forgetFd() and unregisterSocket() of each. *)
ForgetFds(x, fds) ==
    [x EXCEPT !.known = @ \ fds, !.events = @ \ fds, !.epoll = @ \ fds]

NoSockets(listeners) == [key \in DOMAIN listeners |-> [listeners[key] EXCEPT !.fd = -1]]

(* Mutant: the descriptor that was being opened is only closed. *)
RollsBackOthers(x, current) ==
    [CloseFds(ForgetFds(CloseFds(x, current), x.opened), x.opened)
        EXCEPT !.byFd = <<>>, !.listeners = NoSockets(@)]

(* The exception: the guard closes the socket at hand (current, no element *)
(* if there is none), the handler forgets it, forgets and closes those     *)
(* opened before, and empties the tables.                                  *)
Rollback(x, current) ==
    [CloseFds(ForgetFds(CloseFds(x, current), current \cup x.opened), x.opened)
        EXCEPT !.byFd = <<>>, !.listeners = NoSockets(@)]

(* forgetAll(), of the destructor of the server: what _listenersByFd has.  *)
ForgetAll(x) ==
    LET fds == DOMAIN x.byFd
    IN [CloseFds(ForgetFds(x, fds), fds) EXCEPT !.byFd = <<>>, !.listeners = <<>>]

-----------------------------------------------------------------------------
(* Nothing is left in any table. *)
Closed(x) ==
    /\ DOMAIN x.sockets = {} /\ x.epoll = {} /\ x.known = {} /\ x.events = {}
    /\ DOMAIN x.byFd = {}
    /\ \A key \in DOMAIN x.listeners : x.listeners[key].fd = -1

(* The tables agree on the listeners that are open, each on a descriptor   *)
(* of its own that listens where it should.                                *)
Agree(x) ==
    LET fds == x.opened
        open == {key \in DOMAIN x.listeners : x.listeners[key].fd # -1}
    IN /\ DOMAIN x.sockets = fds /\ x.epoll = fds /\ x.known = fds /\ x.events = fds
       /\ DOMAIN x.byFd = fds
       /\ {x.byFd[fd] : fd \in fds} = open
       /\ \A fd \in fds :
             LET key == x.byFd[fd]
             IN /\ x.listeners[key].fd = fd
                /\ x.sockets[fd] = [address |-> Address[key.interface],
                                    port |-> key.port, listening |-> TRUE]
=============================================================================
