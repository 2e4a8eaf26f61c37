---------------------------- MODULE WorkerTables ----------------------------
(***************************************************************************)
(* CGI workers and their manager: src/src/Cgi/CgiManager.cpp and           *)
(* CgiWorker.cpp, with Server/Client/Events/CgiEndEvent.cpp.  A worker,    *)
(* its address and the pid of its child are one name.  A value s is        *)
(*   s.heap     : the CgiWorker objects that exist                         *)
(*   s.list     : CgiManager::_workers                                     *)
(*   s.byClient : _clientFdToWorker                                        *)
(*   s.byPid    : the workers in _pidToWorker                              *)
(*   s.proc     : the child processes and their standard output            *)
(*   s.owed     : requests of each client that have no answer yet (ghost)  *)
(*   s.last     : the answer the last step gave (ghost)                    *)
(*   s.faults   : what went wrong (ghost)                                  *)
(* _completedClients is pushed to and never read: it is left out.  What a  *)
(* script writes to its standard error is only logged.                     *)
(***************************************************************************)
EXTENDS Maps, Integers, FiniteSets

(* What a child will have written when its output ends (hdr: no headers,   *)
(* headers, headers with a Status), how it ended, its unread output and    *)
(* whether it wrote an errno because it could not execute the script.      *)
NoProcess == [st |-> "none", hdr |-> "none", code |-> "ok",
              data |-> FALSE, eof |-> FALSE, err |-> FALSE]
NoAnswer == [client |-> "none", worker |-> "none", kind |-> "none"]

(* Mutant: execute() leaves the state of a request without a body alone.   *)
NewWorkerInit(c, body) ==
    [client |-> c, state |-> IF body THEN "sending" ELSE "init",
     in |-> body, out |-> TRUE, status |-> TRUE,
     outputComplete |-> FALSE, exitStatusSet |-> FALSE, parsed |-> FALSE,
     notified |-> FALSE, bytes |-> FALSE, done |-> TRUE, idle |-> FALSE]

(* A fresh CgiWorker: body is whether the request has one for the child to *)
(* read; in, out and status are this side's ends of the socket pairs and   *)
(* bytes is what the completion pair holds, done whether its event exists. *)
NewWorker(c, body) ==
    [client |-> c, state |-> IF body THEN "sending" ELSE "receiving",
     in |-> body, out |-> TRUE, status |-> TRUE,
     outputComplete |-> FALSE, exitStatusSet |-> FALSE, parsed |-> FALSE,
     notified |-> FALSE, bytes |-> FALSE, done |-> TRUE, idle |-> FALSE]

Fault(s, f) == [s EXCEPT !.faults = @ \cup {f}]
Answer(s, c, w, kind) ==
    [s EXCEPT !.owed[c] = @ - 1, !.last = [client |-> c, worker |-> w, kind |-> kind]]

(* isFinished, hasStatusHeader. *)
IsFinished(k) == k.state = "timeout" \/ (k.outputComplete /\ k.exitStatusSet)
HasStatusHeader(s, w) == s.heap[w].parsed /\ s.proc[w].hdr = "status"
Alive(p) == p.st \in {"forked", "running", "failed"}

(* kill(pid, SIGKILL): the child's ends of all pairs are closed with it.   *)
Killed(s, w) ==
    IF Alive(s.proc[w])
    THEN [s EXCEPT !.proc[w].st = "zombie", !.proc[w].code = "signal", !.proc[w].eof = TRUE]
    ELSE s

(* One byte into the completion pair, whose other end may be closed. *)
Signal(s, w) ==
    IF s.heap[w].done THEN [s EXCEPT !.heap[w].bytes = TRUE] ELSE Fault(s, "sigpipe")

(* Mutant: the byte is written without waiting for both the end of the     *)
(* output and the exit status.                                             *)
SignalAlways(s, w) == Signal(s, w)

SignalIfFinished(s, w) == IF IsFinished(s.heap[w]) THEN Signal(s, w) ELSE s

(* Mutant: _removeWorker() leaves the worker in _workers. *)
RemoveWorkerKeepsListed(s, w) ==
    LET k == IF s.proc[w].st = "zombie" THEN [s EXCEPT !.proc[w].st = "none"]
             ELSE Killed(s, w)
    IN [k EXCEPT !.byClient = Erase(@, {s.heap[w].client}),
                 !.byPid = @ \ {w},
                 !.heap = Erase(@, {w})]

(* CgiManager::_removeWorker and ~CgiWorker, which collects a child that   *)
(* has ended and kills one that has not.                                   *)
RemoveWorker(s, w) ==
    LET k == IF s.proc[w].st = "zombie" THEN [s EXCEPT !.proc[w].st = "none"]
             ELSE Killed(s, w)
    IN [k EXCEPT !.list = @ \ {w},
                 !.byClient = Erase(@, {s.heap[w].client}),
                 !.byPid = @ \ {w},
                 !.heap = Erase(@, {w})]

(* CgiManager::abortClient; waitpid(WNOHANG) may come too soon after the   *)
(* kill to collect the child.                                              *)
AbortClient(s, c, collected) ==
    LET w == s.byClient[c]
        left == Alive(s.proc[w]) /\ ~collected
        r == RemoveWorker(Killed(s, w), w)
    IN IF c \notin DOMAIN s.byClient THEN s
       ELSE IF w \notin DOMAIN s.heap THEN Fault(s, "freed")
       ELSE [r EXCEPT !.proc[w].st = IF left THEN "zombie" ELSE @]

(* Mutant: the exit status is stored and nobody is told. *)
ReapSilently(s, w) == [s.heap[w] EXCEPT !.exitStatusSet = TRUE]

(* The worker of a child that was collected: setExitStatus(), setError()   *)
(* unless it has timed out or set a status, and a byte if that ends it.    *)
Reap(s, w) ==
    LET k == s.heap[w]
        failed == \/ s.proc[w].code = "signal"
                  \/ s.proc[w].code = "bad" /\ ~HasStatusHeader(s, w)
        told == [k EXCEPT !.exitStatusSet = TRUE,
                          !.state = IF @ # "timeout" /\ failed THEN "error" ELSE @]
    IN [told EXCEPT !.bytes = @ \/ (IsFinished(told) /\ told.done)]

(* CgiManager::cleanupFinishedWorkers: every child that has ended, and the *)
(* workers of those that are still to be collected.  What is done for one  *)
(* touches no other, so that their order has no effect.                    *)
CleanupFinished(s) ==
    LET ended == {w \in DOMAIN s.proc : s.proc[w].st = "zombie"}
        known == ended \cap s.byPid
        broken(w) == IsFinished(Reap(s, w)) /\ ~s.heap[w].done
    IN [s EXCEPT
          !.proc = [w \in DOMAIN @ |-> IF w \in ended THEN [@[w] EXCEPT !.st = "none"]
                                       ELSE @[w]],
          !.byPid = @ \ ended,
          !.heap = [w \in DOMAIN @ |-> IF w \in known THEN Reap(s, w) ELSE @[w]],
          !.faults = @ \cup {f \in {"freed"} : ~(known \subseteq DOMAIN s.heap)}
                       \cup {f \in {"sigpipe"} : \E w \in known \cap DOMAIN s.heap : broken(w)}]

(* Mutant: the worker is marked as timed out and its child goes on. *)
TimeOutSparesChild(s, w, collected, cut) ==
    IF w \notin DOMAIN s.heap THEN Fault(s, "freed")
    ELSE [s EXCEPT !.byPid = @ \ {w}, !.heap[w].state = "timeout"]

(* CgiManager::cleanupTimedOutWorkers for one worker; waitpid(WNOHANG) may *)
(* or may not find the child dead already, and the child may not have come *)
(* to its headers (cut).                                                   *)
TimeOut(s, w, collected, cut) ==
    IF w \notin DOMAIN s.heap THEN Fault(s, "freed")
    ELSE [Killed(s, w) EXCEPT !.byPid = @ \ {w},
                 !.heap[w].state = "timeout",
                 !.proc[w].st = IF collected THEN "none" ELSE @,
                 !.proc[w].hdr = IF cut /\ Alive(s.proc[w]) THEN "none" ELSE @]

-----------------------------------------------------------------------------
(* ACgiEvent::CgiHandle, before any of the handlers below. *)
Touch(s, w) == [s EXCEPT !.heap[w].idle = FALSE]

(* CgiWorker::handleRead.  The error paths end in cleanupFinishedWorkers.  *)
ReadFails(s, w) ==
    CleanupFinished([s EXCEPT !.heap[w].state = "error", !.heap[w].out = FALSE,
                              !.heap[w].outputComplete = TRUE])
(* Mutant: the end of the output does not notify. *)
ReadEndsSilently(s, w) ==
    [s EXCEPT !.heap[w].out = FALSE, !.heap[w].parsed = TRUE,
              !.heap[w].state = IF s.proc[w].hdr = "none" THEN "error" ELSE "complete",
              !.heap[w].outputComplete = TRUE]
ReadEnds(s, w) ==
    LET state == IF s.proc[w].hdr = "none" THEN "error"
                 ELSE IF s.heap[w].state \in {"error", "timeout"} THEN s.heap[w].state
                 ELSE "complete"
    IN SignalIfFinished(
          [s EXCEPT !.heap[w].out = FALSE, !.heap[w].parsed = TRUE,
                    !.heap[w].state = state, !.heap[w].outputComplete = TRUE], w)
HandleRead(s, w, fails) ==
    IF fails THEN ReadFails(s, w)
    ELSE IF s.proc[w].data
    THEN [s EXCEPT !.proc[w].data = FALSE]
    ELSE ReadEnds(s, w)

(* Mutant: handleWrite() does not look at the state of the worker. *)
HandleWriteAfterEnd(s, w, all) ==
    IF ~Alive(s.proc[w]) THEN Fault(s, "sigpipe")
    ELSE [s EXCEPT !.heap[w].in = ~all,
                   !.heap[w].state = IF all THEN "receiving" ELSE @]

(* CgiWorker::handleWrite; nobody reads the other end once the child is    *)
(* gone, and the write raises SIGPIPE.                                     *)
HandleWrite(s, w, all) ==
    CASE s.heap[w].state \in {"error", "timeout"} -> [s EXCEPT !.heap[w].in = FALSE]
      [] s.heap[w].state \notin {"error", "timeout"} /\ ~Alive(s.proc[w]) -> Fault(s, "sigpipe")
      [] OTHER ->
           [s EXCEPT !.heap[w].in = ~all,
                     !.heap[w].state = IF all THEN "receiving" ELSE @]

(* CgiWorker::handleErrorExit: the child could not execute the script.     *)
(* Without bytes (the child's end was closed by exec) nothing happens.     *)
HandleErrorExit(s, w) ==
    IF ~s.proc[w].err THEN s
    ELSE SignalIfFinished(
            [Killed(s, w) EXCEPT !.heap[w].state = "error", !.heap[w].status = FALSE,
                                 !.heap[w].outputComplete = TRUE,
                                 !.heap[w].exitStatusSet = TRUE], w)

(* CgiManager::isCgiComplete finds a finished worker of the client; what   *)
(* it answers.                                                             *)
CompleteFor(s, c) == c \in DOMAIN s.byClient /\ IsFinished(s.heap[s.byClient[c]])
(* Mutant: a worker in error answers 500 whatever its Status header says.  *)
AnswerKindIgnoresStatus(s, w) ==
    CASE s.heap[w].state = "complete" -> "output"
      [] s.heap[w].state = "timeout"  -> "timeout"
      [] OTHER -> "error"
AnswerKind(s, w) ==
    CASE s.heap[w].state = "complete" -> "output"
      [] s.heap[w].state = "timeout"  -> "timeout"
      [] OTHER -> IF HasStatusHeader(s, w) THEN "output" ELSE "error"

(* CgiEndEvent::process: empty the pair, then once per worker answer with  *)
(* what isCgiComplete() made, or with a default response if it made none.  *)
(* When it found another worker, the event of that one stays behind.       *)
CgiEnd(s, w) ==
    LET c == s.heap[w].client
        n == [s EXCEPT !.heap[w].bytes = FALSE, !.heap[w].notified = TRUE,
                       !.heap[w].done = FALSE]
        found == s.byClient[c]
    IN IF s.heap[w].notified THEN [s EXCEPT !.heap[w].bytes = FALSE]
       ELSE IF CompleteFor(n, c)
       THEN LET a == Answer(RemoveWorker(n, found), c, found, AnswerKind(n, found))
            IN IF found = w THEN a ELSE Fault(a, "freed")
       ELSE Answer(n, c, w, "empty")

-----------------------------------------------------------------------------
(* Mutant: at the limit createWorker() returns without a status, and the   *)
(* router takes the request for one whose worker will answer.              *)
CreateWorkerSilentLimit(s, c, w, body, hdr, how, max) ==
    IF Cardinality(s.list) >= max THEN s
    ELSE [s EXCEPT !.list = @ \cup {w},
                   !.heap = Put(@, w, NewWorker(c, body)),
                   !.byClient = Put(@, c, w), !.byPid = @ \cup {w},
                   !.proc[w] = [NoProcess EXCEPT !.st = "forked", !.hdr = hdr]]

(* CgiManager::createWorker from the check of the limit on: how is "ok" or *)
(* the step that fails.                                                    *)
CreateWorker(s, c, w, body, hdr, how, max) ==
    LET listed == [s EXCEPT !.list = @ \cup {w}]
        made == [listed EXCEPT
                    !.heap = Put(@, w, NewWorker(c, body)),
                    !.byClient = Put(@, c, w), !.byPid = @ \cup {w},
                    !.proc[w] = [NoProcess EXCEPT !.st = "forked", !.hdr = hdr]]
    IN CASE Cardinality(s.list) >= max -> Answer(s, c, "none", "busy")
         [] Cardinality(s.list) < max /\ how = "spawn" ->
              Answer([listed EXCEPT !.heap = Put(@, w, [NewWorker(c, FALSE) EXCEPT
                        !.state = "error", !.out = FALSE, !.status = FALSE,
                        !.outputComplete = TRUE, !.exitStatusSet = TRUE,
                        !.done = FALSE])],
                     c, "none", "error")
         [] Cardinality(s.list) < max /\ how = "register" ->
              Answer([Killed(made, w) EXCEPT !.heap = Erase(@, {w})], c, "none", "error")
         [] OTHER -> made
=============================================================================
