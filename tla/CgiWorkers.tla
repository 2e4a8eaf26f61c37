----------------------------- MODULE CgiWorkers -----------------------------
(***************************************************************************)
(* CGI requests from createWorker() to the answer (src/src/Cgi).  The      *)
(* handlers of module WorkerTables run one at a time in any order epoll    *)
(* and the loop may choose; the children and the clients act between them. *)
(*                                                                         *)
(* Faults names what may happen besides the ordinary course of a request:  *)
(*   "spawn"       a socketpair or fork fails                              *)
(*   "register"    an epoll_ctl or an allocation throws in createWorker()  *)
(*   "exec"        the child cannot execute the script                     *)
(*   "oversize"    the output passes 10 MiB or cannot be read              *)
(*   "timeout"     a worker is inactive for longer than timeoutSec         *)
(*   "unreadBody"  a script ends before it has read its input              *)
(*   "outputFirst" a script closes its output before it has read its input *)
(*   "pipelining"  a client sends more while its answer is outstanding     *)
(***************************************************************************)
EXTENDS WorkerTables

CONSTANTS Clients, Workers, MaxWorkers, Faults

AllFaults == {"spawn", "register", "exec", "oversize", "timeout", "unreadBody",
              "outputFirst", "pipelining"}
ASSUME CgiAssumption ==
    /\ IsFiniteSet(Workers)
    /\ MaxWorkers \in Nat
    /\ Faults \subseteq AllFaults

VARIABLES cgi,   \* the tables
          alive  \* the clients that are connected

vars == <<cgi, alive>>

Init ==
    /\ cgi = [heap |-> <<>>, list |-> {}, byClient |-> <<>>, byPid |-> {},
              proc |-> [w \in Workers |-> NoProcess],
              owed |-> [c \in Clients |-> 0],
              last |-> NoAnswer, faults |-> {}]
    /\ alive = Clients

Quiet == [cgi EXCEPT !.last = NoAnswer]
Up == "sigpipe" \notin cgi.faults
Exists(w) == w \in DOMAIN cgi.heap

(* A client sends a request for a script: the middlewares call             *)
(* createWorker().  More bytes on a connection whose request is complete   *)
(* run the middlewares on the same request again.                          *)
Request(c, w) ==
    /\ Up
    /\ c \in alive
    /\ cgi.owed[c] < (IF "pipelining" \in Faults THEN 2 ELSE 1)
    /\ w \notin DOMAIN cgi.heap \cup cgi.list
    /\ cgi.proc[w].st = "none"
    /\ \E body \in BOOLEAN, hdr \in {"none", "plain", "status"},
          how \in {"ok"} \cup ({"spawn", "register"} \cap Faults) :
          cgi' = CreateWorker([Quiet EXCEPT !.owed[c] = @ + 1], c, w, body, hdr, how, MaxWorkers)
    /\ UNCHANGED alive

(* closeConnection: the client left or its own timer expired. *)
CloseClient(c) ==
    /\ Up
    /\ c \in alive
    /\ alive' = alive \ {c}
    /\ \E collected \in BOOLEAN :
          cgi' = AbortClient([Quiet EXCEPT !.owed[c] = 0], c, collected)

(* Another client is accepted on the descriptor. *)
Accept(c) ==
    /\ Up
    /\ c \notin alive
    /\ alive' = alive \cup {c}
    /\ cgi' = Quiet

-----------------------------------------------------------------------------
(* The child process. *)
Exec(w) ==
    /\ Up
    /\ cgi.proc[w].st = "forked"
    /\ \/ cgi' = [Quiet EXCEPT !.proc[w].st = "running"]
       \/ /\ "exec" \in Faults
          /\ cgi' = [Quiet EXCEPT !.proc[w].st = "failed", !.proc[w].hdr = "none",
                                  !.proc[w].err = TRUE]
    /\ UNCHANGED alive

HasReadInput(w) == Exists(w) => ~cgi.heap[w].in

Output(w) ==
    /\ Up
    /\ cgi.proc[w].st = "running"
    /\ ~cgi.proc[w].data
    /\ ~cgi.proc[w].eof
    /\ cgi' = [Quiet EXCEPT !.proc[w].data = TRUE]
    /\ UNCHANGED alive

CloseOutput(w) ==
    /\ Up
    /\ cgi.proc[w].st = "running"
    /\ ~cgi.proc[w].eof
    /\ "outputFirst" \in Faults \/ HasReadInput(w)
    /\ cgi' = [Quiet EXCEPT !.proc[w].eof = TRUE]
    /\ UNCHANGED alive

Exit(w) ==
    /\ Up
    /\ cgi.proc[w].st = "running"
    /\ "unreadBody" \in Faults \/ HasReadInput(w)
    /\ \E code \in {"ok", "bad", "signal"} :
          cgi' = [Quiet EXCEPT !.proc[w].st = "zombie", !.proc[w].eof = TRUE,
                               !.proc[w].code = code]
    /\ UNCHANGED alive

-----------------------------------------------------------------------------
(* The handlers, each when its descriptor is open and ready. *)
ReadOutput(w) ==
    /\ Up
    /\ Exists(w)
    /\ cgi.heap[w].out
    /\ cgi.proc[w].data \/ cgi.proc[w].eof
    /\ \E fails \in {FALSE} \cup (IF "oversize" \in Faults THEN {cgi.proc[w].data} ELSE {}) :
          cgi' = HandleRead(Touch(Quiet, w), w, fails)
    /\ UNCHANGED alive

WriteBody(w) ==
    /\ Up
    /\ Exists(w)
    /\ cgi.heap[w].in
    /\ \E all \in BOOLEAN : cgi' = HandleWrite(Touch(Quiet, w), w, all)
    /\ UNCHANGED alive

ErrorExit(w) ==
    /\ Up
    /\ Exists(w)
    /\ cgi.heap[w].status
    /\ cgi.proc[w].st # "forked"
    /\ cgi' = HandleErrorExit(Touch(Quiet, w), w)
    /\ UNCHANGED alive

Complete(w) ==
    /\ Up
    /\ Exists(w)
    /\ cgi.heap[w].bytes
    /\ cgi.heap[w].done
    /\ cgi' = IF cgi.heap[w].client \in alive THEN CgiEnd(Touch(Quiet, w), w)
              ELSE Fault(Quiet, "freed")
    /\ UNCHANGED alive

CleanupFinishedWorkers ==
    /\ Up
    /\ \E w \in Workers : cgi.proc[w].st = "zombie"
    /\ cgi' = CleanupFinished(Quiet)
    /\ UNCHANGED alive

(* Time passes without activity of a worker. *)
Inactive(w) ==
    /\ Up
    /\ "timeout" \in Faults
    /\ Exists(w)
    /\ ~cgi.heap[w].idle
    /\ cgi' = [Quiet EXCEPT !.heap[w].idle = TRUE]
    /\ UNCHANGED alive

(* The loop over the inactive workers, one of them; it comes back to those *)
(* it leaves.                                                              *)
CleanupTimedOutWorkers(w) ==
    /\ Up
    /\ w \in cgi.list
    /\ Exists(w) => cgi.heap[w].idle
    /\ \E collected, cut \in BOOLEAN : cgi' = TimeOut(Quiet, w, collected, cut)
    /\ UNCHANGED alive

-----------------------------------------------------------------------------
Handlers(w) ==
    ReadOutput(w) \/ WriteBody(w) \/ ErrorExit(w) \/ Complete(w)

Next ==
    \/ \E c \in Clients : CloseClient(c) \/ Accept(c) \/ (\E w \in Workers : Request(c, w))
    \/ \E w \in Workers : Exec(w) \/ Output(w) \/ CloseOutput(w) \/ Exit(w)
    \/ \E w \in Workers : Handlers(w) \/ Inactive(w) \/ CleanupTimedOutWorkers(w)
    \/ CleanupFinishedWorkers

Spec == Init /\ [][Next]_vars

(* epoll and the loop serve every handler, and a script that has its input *)
(* ends.                                                                   *)
FairSpec ==
    /\ Spec
    /\ WF_vars(CleanupFinishedWorkers)
    /\ \A w \in Workers :
          /\ WF_vars(ReadOutput(w)) /\ WF_vars(ErrorExit(w)) /\ WF_vars(Complete(w))
          /\ WF_vars(WriteBody(w) /\ ~cgi'.heap[w].in)
          /\ WF_vars(Exec(w)) /\ WF_vars(Exit(w))

-----------------------------------------------------------------------------
TypeOK ==
    /\ DOMAIN cgi.heap \subseteq Workers
    /\ \A w \in DOMAIN cgi.heap :
          cgi.heap[w] \in
             [client : Clients,
              state : {"sending", "receiving", "complete", "error", "timeout"},
              in : BOOLEAN, out : BOOLEAN, status : BOOLEAN,
              outputComplete : BOOLEAN, exitStatusSet : BOOLEAN, parsed : BOOLEAN,
              notified : BOOLEAN, bytes : BOOLEAN, done : BOOLEAN, idle : BOOLEAN]
    /\ cgi.list \subseteq Workers
    /\ cgi.byClient \in [DOMAIN cgi.byClient -> Workers]
    /\ DOMAIN cgi.byClient \subseteq Clients
    /\ cgi.byPid \subseteq Workers
    /\ cgi.proc \in [Workers -> [st : {"none", "forked", "running", "failed", "zombie"},
                                 hdr : {"none", "plain", "status"},
                                 code : {"ok", "bad", "signal"},
                                 data : BOOLEAN, eof : BOOLEAN, err : BOOLEAN]]
    /\ cgi.owed \in [Clients -> 0..2]
    /\ cgi.faults \subseteq {"sigpipe", "freed"}
    /\ alive \subseteq Clients

(* The worker list and its two indexes hold the same workers: each worker  *)
(* is the one of a connected client, and a pid is to be collected only if  *)
(* it is that of a child of theirs which has not been collected yet.       *)
IndexesAgree ==
    Up =>
       /\ cgi.list = DOMAIN cgi.heap
       /\ DOMAIN cgi.byClient \subseteq alive
       /\ cgi.list = {cgi.byClient[c] : c \in DOMAIN cgi.byClient}
       /\ \A c \in DOMAIN cgi.byClient : cgi.heap[cgi.byClient[c]].client = c
       /\ \A w \in cgi.byPid : w \in cgi.list /\ cgi.proc[w].st # "none"

(* Every request that was handed to a script and has no answer yet has a   *)
(* worker that has not answered, and no worker is without such a request:  *)
(* each request is answered at most once and none is forgotten.            *)
RequestHasWorker ==
    Up =>
       \A c \in Clients :
          IF c \in DOMAIN cgi.byClient
          THEN cgi.owed[c] = 1 /\ ~cgi.heap[cgi.byClient[c]].notified
          ELSE cgi.owed[c] = 0

(* CgiManager.hpp, line 61: completion, error and timeout of a CGI are     *)
(* notified to its client.  Once the child has been collected and the      *)
(* output is complete nothing else is going to happen to the worker: a     *)
(* byte has to be in the completion pair.                                  *)
EndedIsNotified ==
    \A w \in DOMAIN cgi.heap :
       (/\ cgi.heap[w].outputComplete
        /\ cgi.proc[w].st = "none"
        /\ ~cgi.heap[w].notified) => cgi.heap[w].bytes

(* No child outlives its worker unkilled. *)
NoOrphans == \A w \in Workers : Alive(cgi.proc[w]) => w \in cgi.byPid

(* CgiManager.hpp, line 43: the response is built when the CGI is complete.*)
(* No answer is sent in its stead before.                                  *)
NoEmptyAnswer == cgi.last.kind # "empty"

(* What is answered depends on the script alone, not on the order in which *)
(* its exit, the end of its output and the last of its input are handled:  *)
(* its output if it has headers and it ended well or set a status, and an  *)
(* error otherwise.                                                        *)
Deserved(p) ==
    IF p.hdr = "status" \/ (p.hdr = "plain" /\ p.code = "ok") THEN "output" ELSE "error"
AnswerDependsOnScript ==
    LET w == cgi.last.worker
    IN w # "none" => cgi.last.kind = Deserved(cgi.proc[w])

(* A child that never ran or was killed is not written to (SIGPIPE would   *)
(* end the server), no completion byte goes to a pair that is closed, and  *)
(* no handler meets a worker or a Client that was deleted, however         *)
(* closing, killing, collecting and answering are interleaved.             *)
NoFault == cgi.faults = {}

(* A request handed to a script that ends is answered, or its client goes. *)
RequestAnswered == \A c \in Clients : cgi.owed[c] > 0 ~> cgi.owed[c] = 0
=============================================================================
