---------------------------- MODULE Connections ----------------------------
(***************************************************************************)
(* The server's loop and its connections (src/src/Server): epoll_wait,     *)
(* the timers that are due, then the batch of events in the order epoll    *)
(* returned them, over the tables of module ServerTables.  The peers and   *)
(* the CGI processes act at any moment, also between two events of a batch.*)
(*                                                                         *)
(* The timers are those of module Deadlines: an armed Client may be found  *)
(* due by any check.  What the middlewares make of the bytes is one of     *)
(* three outcomes.  Of the descriptors of a CGI worker only the completion *)
(* end is here.                                                            *)
(***************************************************************************)
EXTENDS ServerTables

CONSTANTS
    Ptrs,       \* addresses a Client object can have
    Fds,        \* descriptor numbers (the process limit)
    Listener,   \* the one listening descriptor
    MaxEvents,  \* size of the buffer given to epoll_wait
    PeersWait,  \* a peer sends nothing while its CGI answer is outstanding
    FreshFds    \* a worker gets no descriptor the current batch mentions

ASSUME ConnectionsAssumption ==
    /\ IsFiniteSet(Ptrs)
    /\ Fds \subseteq Nat
    /\ IsFiniteSet(Fds)
    /\ Listener \in Fds
    /\ MaxEvents \in Nat \ {0}
    /\ PeersWait \in BOOLEAN
    /\ FreshFds \in BOOLEAN

VARIABLES srv,      \* the tables
          backlog,  \* connections waiting to be accepted
          pc,       \* where the loop is
          batch,    \* events returned by epoll_wait and not yet handled
          expired   \* Clients taken by the timeouts check, to be called back

vars == <<srv, backlog, pc, batch, expired>>

Init ==
    /\ srv = [open |-> {Listener},
              peer |-> [fd \in {Listener} |-> "idle"],
              interest |-> [fd \in {Listener} |-> {"IN"}],
              table |-> [fd \in {Listener} |-> FALSE],
              events |-> [fd \in {Listener} |->
                             <<[kind |-> "accept", client |-> "none"]>>],
              clients |-> <<>>, live |-> <<>>, armed |-> {},
              workers |-> <<>>, faults |-> {}]
    /\ backlog = 0
    /\ pc = "wait"
    /\ batch = {}
    /\ expired = {}

FreeFds == Fds \ srv.open
WorkerFds == IF FreshFds THEN FreeFds \ {e.fd : e \in batch} ELSE FreeFds
ClientFds == DOMAIN srv.clients

-----------------------------------------------------------------------------
(* The peers and the CGI processes. *)
Running == pc # "down"

Connect ==
    /\ Running
    /\ backlog + Cardinality(DOMAIN srv.live) < Cardinality(Ptrs)
    /\ backlog' = backlog + 1
    /\ UNCHANGED <<srv, pc, batch, expired>>

PeerSends(fd) ==
    /\ Running
    /\ fd \in ClientFds
    /\ srv.peer[fd] = "idle"
    /\ PeersWait => fd \notin DOMAIN srv.workers
    /\ srv' = [srv EXCEPT !.peer[fd] = "data"]
    /\ UNCHANGED <<backlog, pc, batch, expired>>

PeerCloses(fd) ==
    /\ Running
    /\ fd \in ClientFds
    /\ srv.peer[fd] = "idle"
    /\ srv' = [srv EXCEPT !.peer[fd] = "eof"]
    /\ UNCHANGED <<backlog, pc, batch, expired>>

PeerResets(fd) ==
    /\ Running
    /\ fd \in ClientFds
    /\ srv.peer[fd] \notin HungUp
    /\ srv' = [srv EXCEPT !.peer[fd] = CASE @ = "data" -> "dataReset"
                                         [] @ = "eof"  -> "broken"
                                         [] OTHER      -> "reset"]
    /\ UNCHANGED <<backlog, pc, batch, expired>>

(* The completion byte of a worker is written. *)
CgiFinishes(fd) ==
    /\ Running
    /\ fd \in DOMAIN srv.events
    /\ srv.events[fd] # <<>>
    /\ srv.events[fd][1].kind = "cgiEnd"
    /\ srv.peer[fd] = "idle"
    /\ srv' = [srv EXCEPT !.peer[fd] = "data"]
    /\ UNCHANGED <<backlog, pc, batch, expired>>

-----------------------------------------------------------------------------
(* What epoll reports for fd.  A socket can be written to unless its peer  *)
(* has stopped reading. *)
Readable(fd) == (fd = Listener /\ backlog > 0) \/ srv.peer[fd] # "idle"
HangsUp(fd) == srv.peer[fd] \in HungUp
Bits(fd, writable) ==
    {bit \in srv.interest[fd] :
        IF bit = "IN" THEN Readable(fd) ELSE fd \in writable \/ HangsUp(fd)}
    \cup (IF HangsUp(fd) THEN {"HUP", "ERR"} ELSE {})

Ready(writable) ==
    {[fd |-> fd, mask |-> Bits(fd, writable), stale |-> FALSE] :
        fd \in {f \in DOMAIN srv.interest : Bits(f, writable) # {}}}

(* epoll_wait returns with events or, when a timer is armed, without. *)
Wait ==
    /\ pc = "wait"
    /\ pc' = "check"
    /\ \E writable \in SUBSET {fd \in DOMAIN srv.interest : "OUT" \in srv.interest[fd]} :
          \E b \in SUBSET Ready(writable) :
             /\ \/ Cardinality(b) = MaxEvents
                \/ Cardinality(b) < MaxEvents /\ b = Ready(writable)
             /\ b = {} => srv.armed # {}
             /\ batch' = b
    /\ UNCHANGED <<srv, backlog, expired>>

(* The first half of checkAndHandleTimeouts takes the timers that are due. *)
CheckTimeouts ==
    /\ pc = "check"
    /\ pc' = "callbacks"
    /\ \E due \in SUBSET srv.armed :
          /\ expired' = due
          /\ srv' = [srv EXCEPT !.armed = @ \ due]
    /\ UNCHANGED <<backlog, batch>>

(* A step of the loop: the new tables; descriptors opened by it make the   *)
(* events of the batch that carry the same number stale (a ghost), and the *)
(* process ends on SIGPIPE or on an exception nobody catches.              *)
Proceed(s, rest) ==
    /\ srv' = s
    /\ batch' = {[e EXCEPT !.stale = @ \/ e.fd \in s.open \ srv.open] : e \in rest}
    /\ pc' = IF s.faults \cap {"sigpipe", "escaped"} # {} THEN "down" ELSE pc

CallOnTimeout(c) ==
    /\ pc = "callbacks"
    /\ c \in expired
    /\ expired' = expired \ {c}
    /\ \E sent \in {"all", "part"} : Proceed(OnTimeout(srv, c, sent), batch)
    /\ UNCHANGED backlog

EndCallbacks ==
    /\ pc = "callbacks"
    /\ expired = {}
    /\ pc' = "events"
    /\ UNCHANGED <<srv, backlog, batch, expired>>

-----------------------------------------------------------------------------
(* One event of the batch.  First(e) is what handle() calls for it. *)
Known(e) == e.fd \in DOMAIN srv.events
Peeked(e) == Peek(srv, e.fd, e.mask)
First(e) == Peeked(e).events[e.fd][Min(Matching(srv, e.fd, e.mask))]
Matches(e, kind) ==
    Known(e) /\ Matching(srv, e.fd, e.mask) # {} /\ First(e).kind = kind

HandleNothing(e) ==
    /\ Known(e) => Matching(srv, e.fd, e.mask) = {}
    /\ Proceed(IF Known(e) THEN Peeked(e) ELSE srv, batch \ {e})
    /\ UNCHANGED backlog

HandleRead(e) ==
    /\ Matches(e, "read")
    /\ \E outcome \in {"incomplete", "response", "cgi"}, close \in BOOLEAN :
          Proceed(HandleReadEvent(Peeked(e), First(e).client, outcome, close, WorkerFds),
                  batch \ {e})
    /\ UNCHANGED backlog

HandleWrite(e) ==
    /\ Matches(e, "write")
    /\ \E sent \in {"all", "part"} :
          Proceed(HandleWriteEvent(Peeked(e), First(e).client, sent), batch \ {e})
    /\ UNCHANGED backlog

HandleCgiEnd(e) ==
    /\ Matches(e, "cgiEnd")
    /\ Proceed(CgiEnd(Peeked(e), First(e).client, e.fd), batch \ {e})
    /\ UNCHANGED backlog

(* Mutant: the -1 of a failing accept() is taken for a descriptor. *)
HandleAcceptUnchecked(e) ==
    /\ Matches(e, "accept")
    /\ IF backlog = 0
       THEN Proceed(srv, batch \ {e}) /\ UNCHANGED backlog
       ELSE /\ backlog' = backlog - 1
            /\ \E c \in Ptrs \ DOMAIN srv.live, failAt \in 1..8 :
                  Proceed(HandleNewConnection(srv, Min(FreeFds \cup {-1}), c, failAt),
                          batch \ {e})

(* accept() fails without a connection or a free descriptor. *)
HandleAccept(e) ==
    /\ Matches(e, "accept")
    /\ IF backlog = 0 \/ FreeFds = {}
       THEN Proceed(srv, batch \ {e}) /\ UNCHANGED backlog
       ELSE /\ backlog' = backlog - 1
            /\ \E c \in Ptrs \ DOMAIN srv.live, failAt \in 1..8 :
                  Proceed(HandleNewConnection(srv, Min(FreeFds), c, failAt), batch \ {e})

HandleEvent ==
    /\ pc = "events"
    /\ \E e \in batch :
          HandleNothing(e) \/ HandleRead(e) \/ HandleWrite(e) \/ HandleCgiEnd(e)
             \/ HandleAccept(e)
    /\ UNCHANGED expired

EndEvents ==
    /\ pc = "events"
    /\ batch = {}
    /\ pc' = "wait"
    /\ UNCHANGED <<srv, backlog, batch, expired>>

-----------------------------------------------------------------------------
Loop ==
    \/ Wait
    \/ CheckTimeouts
    \/ \E c \in Ptrs : CallOnTimeout(c)
    \/ EndCallbacks
    \/ HandleEvent
    \/ EndEvents

Next ==
    \/ Loop
    \/ Connect
    \/ \E fd \in Fds : PeerSends(fd) \/ PeerCloses(fd) \/ PeerResets(fd)
                          \/ CgiFinishes(fd)

Spec == Init /\ [][Next]_vars

(* The loop goes on, and the timer of a connection whose peer is gone does *)
(* not stay unexpired forever: nothing such a peer does can renew it again *)
(* and again, and module TimeoutManager shows that a deadline that is not  *)
(* renewed is reached.                                                     *)
Gone(fd) == fd \in ClientFds /\ srv.peer[fd] \in HungUp \cup {"eof"}
ExpireGone(fd) ==
    /\ CheckTimeouts
    /\ Gone(fd)
    /\ srv.clients[fd] \in expired'
FairSpec ==
    Spec /\ WF_vars(Loop) /\ \A fd \in Fds : SF_vars(ExpireGone(fd))

-----------------------------------------------------------------------------
Event(kind, c) == [kind |-> kind, client |-> c]
WorkerFdsInUse == {srv.workers[fd] : fd \in DOMAIN srv.workers}

TypeOK ==
    /\ DOMAIN srv = {"open", "peer", "interest", "table", "events", "clients",
                     "live", "armed", "workers", "faults"}
    /\ srv.open \subseteq Fds
    /\ srv.peer \in [srv.open -> PeerStates]
    /\ srv.interest \in [DOMAIN srv.interest -> SUBSET {"IN", "OUT"}]
    /\ srv.table \in [DOMAIN srv.table -> BOOLEAN]
    /\ srv.clients \in [ClientFds -> Ptrs]
    /\ srv.live \in [DOMAIN srv.live ->
                        [fd : Fds, out : BOOLEAN, close : BOOLEAN]]
    /\ srv.armed \subseteq Ptrs
    /\ srv.workers \in [DOMAIN srv.workers -> Fds]
    /\ srv.faults \subseteq {"escaped", "sigpipe", "freed", "premature"}
    /\ backlog \in 0..Cardinality(Ptrs)
    /\ pc \in {"wait", "check", "callbacks", "events", "down"}
    /\ expired \subseteq Ptrs

(* Every table knows the same descriptors: what is open is registered with *)
(* epoll and has its events, and _clients and _clientTable agree on which  *)
(* are clients. *)
DescriptorsAgree ==
    /\ srv.open = {Listener} \cup ClientFds \cup WorkerFdsInUse
    /\ srv.open = DOMAIN srv.interest
    /\ srv.open = DOMAIN srv.table
    /\ srv.open = DOMAIN srv.events
    /\ ClientFds = {fd \in DOMAIN srv.table : srv.table[fd]}

(* Each event and each entry of _clients refers to the live Client of its  *)
(* own descriptor. *)
ClientsLive ==
    /\ DOMAIN srv.live = {srv.clients[fd] : fd \in ClientFds}
    /\ \A fd \in ClientFds :
          LET c == srv.clients[fd]
          IN /\ srv.live[c].fd = fd
             /\ srv.events[fd] = <<Event("read", c), Event("write", c)>>

(* A worker belongs to a connection that is still open, answers to its     *)
(* live Client, and shares its descriptor with nobody. *)
WorkersOwned ==
    \A fd \in DOMAIN srv.workers :
       LET w == srv.workers[fd]
       IN /\ fd \in ClientFds
          /\ w \notin ClientFds \cup {Listener}
          /\ \A other \in DOMAIN srv.workers \ {fd} : srv.workers[other] # w
          /\ srv.events[w] = <<Event("cgiEnd", srv.clients[fd])>>

(* A Client is watched by a timer or is one of those about to be called    *)
(* back, and the raw pointers held by either are those of live Clients. *)
ClientsTimed ==
    /\ DOMAIN srv.live = srv.armed \cup expired
    /\ srv.armed \cap expired = {}

(* While the server runs, its tables, the objects they point to, the       *)
(* workers and the timers agree.  Accepting, failing to accept half-way,   *)
(* closing from a handler, from a callback or from removeFd all have to    *)
(* keep this.                                                              *)
TablesAgree ==
    Running =>
       /\ DescriptorsAgree
       /\ ClientsLive
       /\ WorkersOwned
       /\ ClientsTimed

(* A connection that has an answer to send waits for EPOLLOUT, one that    *)
(* has none waits for EPOLLIN: none is left with a full buffer nobody      *)
(* drains, or deaf to its peer.                                            *)
AnswersWatched ==
    Running =>
       \A fd \in ClientFds :
          (IF srv.live[srv.clients[fd]].out THEN "OUT" ELSE "IN") \in srv.interest[fd]

(* modifySocket() throws for a descriptor that left epoll, and nothing     *)
(* between it and main() catches: no handler may modify one it closed.     *)
NothingEscapes == "escaped" \notin srv.faults

(* The completion event of a worker finds its own worker finished. *)
NothingPremature == "premature" \notin srv.faults

(* An event of the batch that was meant for a former owner of the          *)
(* descriptor does not close the connection that has the number now.       *)
StaleEventsHarmless ==
    [][\A e \in batch :
          (e.stale /\ e \notin batch' /\ e.fd \in ClientFds
                   /\ srv.peer[e.fd] \in {"idle", "data"})
             => e.fd \in DOMAIN srv'.clients]_vars

(* A connection whose peer has gone is closed, unless the server went down.*)
GoneIsClosed == \A fd \in Fds : Gone(fd) ~> (fd \notin ClientFds \/ ~Running)

-----------------------------------------------------------------------------
(* src/test/README.md, line 80: when a client disconnects while it is      *)
(* being served, or its idle connection times out, the server does not     *)
(* crash.  It is killed by SIGPIPE when it writes to such a connection ... *)
SurvivesDisconnection == "sigpipe" \notin srv.faults

(* ... and reads a deleted Client when the 408 of a timeout is the last    *)
(* thing sent on a connection that closes after its answer.                *)
NoUseAfterFree == "freed" \notin srv.faults
=============================================================================
