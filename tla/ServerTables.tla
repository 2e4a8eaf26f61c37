---------------------------- MODULE ServerTables ----------------------------
(***************************************************************************)
(* The tables the server keeps about its descriptors and the code that     *)
(* changes them: Server.cpp, Client/EventManager.cpp, Client/Client.cpp,   *)
(* Client/HttpConnection.cpp, Client/Events/*.cpp and SocketsManager.cpp,  *)
(* all under src/src/.  A value s of this module is                        *)
(*   s.open     : descriptors that are open                                *)
(*   s.peer     : open descriptor -> what the kernel has for it            *)
(*   s.interest : the epoll set, descriptor -> {"IN", "OUT"}               *)
(*   s.table    : EventManager::_clientTable, TRUE for client sockets      *)
(*   s.events   : EventManager::_eventsTable                               *)
(*   s.clients  : Server::_clients, descriptor -> address of a Client      *)
(*   s.live     : the Client objects that have not been deleted            *)
(*   s.armed    : the Clients the TimeoutManager watches                   *)
(*   s.workers  : CgiManager::_clientFdToWorker, client descriptor ->      *)
(*                completion descriptor (the other descriptors of a worker *)
(*                and the worker itself are in module CgiWorkers)          *)
(*   s.faults   : ghost, what went wrong                                   *)
(* A method is an operator from s to s, so that the handlers that call     *)
(* one another in C++ compose here in the same order.                      *)
(***************************************************************************)
EXTENDS Maps, Sequences, FiniteSets, FiniteSetsExt

(* "idle": nothing to read.  "data": bytes to read.  "eof": the peer shut  *)
(* its side.  "reset": the peer reset the connection, the error is still   *)
(* to be reported ("dataReset": after the bytes it had sent).  "broken":   *)
(* reset, and the error is not going to be reported as such any more.      *)
HasData == {"data", "dataReset"}
HungUp == {"reset", "dataReset", "broken"}
PeerStates == HasData \cup HungUp \cup {"idle", "eof"}

Fault(s, f) == [s EXCEPT !.faults = @ \cup {f}]

-----------------------------------------------------------------------------
(* SocketsManager: ADD and MOD throw, DEL ignores errors. *)
Modify(s, fd, bits) ==
    IF fd \in DOMAIN s.interest THEN [s EXCEPT !.interest[fd] = bits]
    ELSE Fault(s, "escaped")
Unregister(s, fd) == [s EXCEPT !.interest = Erase(@, {fd})]

(* close(2); the kernel drops the epoll registration with it. *)
CloseFd(s, fd) ==
    [s EXCEPT !.open = @ \ {fd}, !.peer = Erase(@, {fd}),
              !.interest = Erase(@, {fd})]

(* EventManager::clearEvents and forgetFd. *)
ClearEvents(s, fd) == [s EXCEPT !.events = Erase(@, {fd})]
ForgetFd(s, fd) ==
    [ClearEvents(s, fd) EXCEPT !.table = Erase(@, {fd})]

(* Mutant: abortClient() leaves the client in _clientFdToWorker. *)
AbortClientKeepsEntry(s, clientFd) ==
    IF clientFd \notin DOMAIN s.workers THEN s
    ELSE LET fd == s.workers[clientFd]
         IN CloseFd(ForgetFd(Unregister(s, fd), fd), fd)

(* CgiManager::abortClient down to ~CgiWorker: the worker of this client   *)
(* leaves epoll and the event table and its descriptor is closed.          *)
AbortClient(s, clientFd) ==
    IF clientFd \notin DOMAIN s.workers THEN s
    ELSE LET fd == s.workers[clientFd]
         IN [CloseFd(ForgetFd(Unregister(s, fd), fd), fd)
                EXCEPT !.workers = Erase(@, {clientFd})]

(* Mutant: closeConnection() does not call TimeoutManager::remove(). *)
CloseConnectionKeepsTimer(s, fd) ==
    LET a == CloseFd(ForgetFd(Unregister(AbortClient(s, fd), fd), fd), fd)
    IN IF fd \notin DOMAIN a.clients THEN a
       ELSE [a EXCEPT !.live = Erase(@, {a.clients[fd]}),
                      !.clients = Erase(@, {fd})]

(* Server::closeConnection. *)
CloseConnection(s, fd) ==
    LET a == CloseFd(ForgetFd(Unregister(AbortClient(s, fd), fd), fd), fd)
    IN IF fd \notin DOMAIN a.clients THEN a
       ELSE [a EXCEPT !.armed = @ \ {a.clients[fd]},
                      !.live = Erase(@, {a.clients[fd]}),
                      !.clients = Erase(@, {fd})]

(* Mutant: removeFd() forgets that a client socket has to be closed. *)
RemoveFdKeepsOpen(s, fd) ==
    IF fd \notin DOMAIN s.table THEN ClearEvents(s, fd)
    ELSE [ClearEvents(s, fd) EXCEPT !.table = Erase(@, {fd})]

(* EventManager::removeFd. *)
RemoveFd(s, fd) ==
    LET e == ClearEvents(s, fd)
        r == IF e.table[fd] THEN CloseConnection(e, fd) ELSE e
    IN IF fd \notin DOMAIN e.table THEN e
       ELSE [r EXCEPT !.table = Erase(@, {fd})]

(* Client::updateTimeout. *)
UpdateTimeout(s, c) == [s EXCEPT !.armed = @ \cup {c}]

-----------------------------------------------------------------------------
(* Mutant: EPOLLOUT is dropped after every complete send, also when the    *)
(* connection was closed by it.                                            *)
HandleWriteEventModifiesClosed(s, c, sent) ==
    LET fd == s.live[c].fd
        done == [s EXCEPT !.live[c].out = FALSE]
    IN CASE ~s.live[c].out -> Modify(s, fd, {"IN"})
         [] s.live[c].out /\ s.peer[fd] = "broken" -> Fault(s, "sigpipe")
         [] s.live[c].out /\ s.peer[fd] \in {"reset", "dataReset"} ->
              CloseConnection(s, fd)
         [] OTHER ->
              IF sent # "all" THEN s
              ELSE IF s.live[c].close THEN Modify(CloseConnection(done, fd), fd, {"IN"})
              ELSE UpdateTimeout(Modify(done, fd, {"IN"}), c)

(* HttpConnection::handleWriteEvent.  sent says how much send(2) took.  A  *)
(* send after the error was taken raises SIGPIPE, which nobody handles.    *)
HandleWriteEvent(s, c, sent) ==
    LET fd == s.live[c].fd
        done == [s EXCEPT !.live[c].out = FALSE]
    IN CASE ~s.live[c].out -> Modify(s, fd, {"IN"})
         [] s.live[c].out /\ s.peer[fd] = "broken" -> Fault(s, "sigpipe")
         [] s.live[c].out /\ s.peer[fd] \in {"reset", "dataReset"} ->
              CloseConnection(s, fd)
         [] OTHER ->
              IF sent # "all" THEN s
              ELSE IF s.live[c].close THEN CloseConnection(done, fd)
              ELSE UpdateTimeout(Modify(done, fd, {"IN"}), c)

(* Mutant: the response is put in the buffer and EPOLLOUT not asked for. *)
GenerateResponseUnwatched(s, c, close) ==
    [s EXCEPT !.live[c].out = TRUE, !.live[c].close = close]

(* HttpConnection::generateResponse, for a complete or bad request. *)
GenerateResponse(s, c, close) ==
    Modify([s EXCEPT !.live[c].out = TRUE, !.live[c].close = close],
           s.live[c].fd, {"IN", "OUT"})

(* CgiManager::createWorker gives the worker the descriptor fd, or none is *)
(* left and the answer is 500, which closes the connection.                *)
CreateWorker(s, c, close, fds) ==
    IF fds = {} THEN GenerateResponse(s, c, TRUE)
    ELSE LET fd == Min(fds)
         IN [s EXCEPT !.open = @ \cup {fd},
                      !.peer = Put(@, fd, "idle"),
                      !.live[c].close = close,
                      !.workers = Put(@, s.live[c].fd, fd),
                      !.interest = Put(@, fd, {"IN"}),
                      !.table = Put(@, fd, FALSE),
                      !.events = Put(@, fd, <<[kind |-> "cgiEnd", client |-> c]>>)]

(* HttpConnection::handleReadEvent.  outcome is what the middlewares make  *)
(* of the bytes, fds the descriptors a CGI worker can get.                 *)
HandleReadEvent(s, c, outcome, close, fds) ==
    LET fd == s.live[c].fd
        r == [s EXCEPT !.peer[fd] = IF @ = "dataReset" THEN "reset" ELSE "idle"]
    IN CASE s.peer[fd] = "idle" -> s
         [] s.peer[fd] \in HasData ->
              UpdateTimeout(CASE outcome = "incomplete" -> r
                              [] outcome = "response" -> GenerateResponse(r, c, close)
                              [] outcome = "cgi" -> CreateWorker(r, c, close, fds), c)
         [] OTHER -> CloseConnection(s, fd)

(* Client::onTimeout: put the 408 in the send buffer, send, and remove the *)
(* descriptor, whose number it reads from the Client.  When sending closed *)
(* the connection that Client is gone: the memory still holds the number,  *)
(* which no table knows any more, so that removeFd finds nothing to do.    *)
OnTimeout(s, c, sent) ==
    LET w == HandleWriteEvent([s EXCEPT !.live[c].out = TRUE], c, sent)
    IN IF "sigpipe" \in w.faults THEN w
       ELSE IF c \notin DOMAIN w.live THEN Fault(RemoveFd(w, s.live[c].fd), "freed")
       ELSE RemoveFd(w, w.live[c].fd)

(* Mutant: the completion descriptor stays registered after its event. *)
CgiEndKeepsEvent(s, c, fd) ==
    IF c \notin DOMAIN s.live THEN Fault(s, "freed")
    ELSE LET clientFd == s.live[c].fd
             owned == clientFd \in DOMAIN s.workers
             r == IF owned THEN [s EXCEPT !.workers = Erase(@, {clientFd})]
                  ELSE Fault(s, "premature")
         IN Modify([r EXCEPT !.live[c].out = TRUE], clientFd, {"OUT"})

(* CgiEndEvent::process on the completion descriptor fd: isCgiComplete()   *)
(* looks for a finished worker of the client and, when there is none, the  *)
(* default answer is sent all the same.                                    *)
CgiEnd(s, c, fd) ==
    IF c \notin DOMAIN s.live THEN Fault(s, "freed")
    ELSE LET clientFd == s.live[c].fd
             worker == IF clientFd \in DOMAIN s.workers THEN s.workers[clientFd] ELSE -1
             finished == worker # -1 /\ s.peer[worker] = "data"
             r == IF finished /\ worker = fd
                  THEN [s EXCEPT !.workers = Erase(@, {clientFd})]
                  ELSE IF finished
                  THEN Fault([s EXCEPT !.workers = Erase(@, {clientFd})], "premature")
                  ELSE Fault(s, "premature")
             m == Modify([r EXCEPT !.live[c].out = TRUE], clientFd, {"OUT"})
         IN ForgetFd(CloseFd(Unregister(m, fd), fd), fd)

-----------------------------------------------------------------------------
(* Mutant: EPOLLERR removes the descriptor with or without EPOLLHUP. *)
PeekAlwaysRemoves(s, fd, mask) ==
    IF "ERR" \in mask
    THEN [RemoveFd(s, fd) EXCEPT !.events = Put(@, fd, <<>>)]
    ELSE s

(* EventManager::handle before it looks for an event: a hang-up peeks at   *)
(* the socket, which takes a pending error; an error without a hang-up     *)
(* removes the descriptor, and operator[] puts back an empty list.         *)
Peek(s, fd, mask) ==
    IF "HUP" \in mask
    THEN [s EXCEPT !.peer[fd] = IF @ = "reset" THEN "broken" ELSE @]
    ELSE IF "ERR" \in mask
    THEN [RemoveFd(s, fd) EXCEPT !.events = Put(@, fd, <<>>)]
    ELSE s
Effective(s, fd, mask) ==
    IF "HUP" \in mask /\ s.peer[fd] \in HasData THEN mask \cup {"IN"} ELSE mask

ExpectedBit == [read |-> "IN", write |-> "OUT", accept |-> "IN", cgiEnd |-> "IN"]
(* The places of the events that match; only the first of them is handled. *)
Matching(s, fd, mask) ==
    LET list == Peek(s, fd, mask).events[fd]
    IN {i \in DOMAIN list : ExpectedBit[list[i].kind] \in Effective(s, fd, mask)}

(* Server::handleNewConnection for the accepted descriptor fd and the new  *)
(* Client c, up to the step that throws; failAt = 8 is none of them.       *)
NewConnection(s, fd, c, failAt) ==
    LET made(step) == step < failAt
        reading == [kind |-> "read", client |-> c]
        writing == [kind |-> "write", client |-> c]
    IN [s EXCEPT !.open = @ \cup {fd},
                 !.peer = Put(@, fd, "idle"),
                 !.live = IF made(1) THEN Put(@, c, [fd |-> fd, out |-> FALSE, close |-> FALSE])
                          ELSE @,
                 !.interest = IF made(2) THEN Put(@, fd, {"IN"}) ELSE @,
                 !.table = IF made(3) THEN Put(@, fd, TRUE) ELSE @,
                 !.events = IF made(5) THEN Put(@, fd, <<reading, writing>>)
                            ELSE IF made(4) THEN Put(@, fd, <<reading>>) ELSE @,
                 !.armed = IF made(6) THEN @ \cup {c} ELSE @,
                 !.clients = IF made(7) THEN Put(@, fd, c) ELSE @]

(* Mutant: the catch block does not take back initFd() and addEvent(). *)
RollbackKeepsEvents(s, fd, c) ==
    [CloseFd(Unregister([s EXCEPT !.armed = @ \ {c}], fd), fd)
        EXCEPT !.live = Erase(@, {c})]

(* Its catch block. *)
Rollback(s, fd, c) ==
    [CloseFd(Unregister(ForgetFd([s EXCEPT !.armed = @ \ {c}], fd), fd), fd)
        EXCEPT !.live = Erase(@, {c})]

HandleNewConnection(s, fd, c, failAt) ==
    IF failAt = 8 THEN NewConnection(s, fd, c, failAt)
    ELSE Rollback(NewConnection(s, fd, c, failAt), fd, c)
=============================================================================
