------------------------- MODULE CgiWorkers_proofs -------------------------
(***************************************************************************)
(* The tables of the CGI manager stay consistent, every request keeps one  *)
(* worker until it is answered, and is answered as its script deserves,    *)
(* whatever the order of the handlers.                                     *)
(***************************************************************************)
EXTENDS CgiWorkers, TLAPS

WorkerType ==
    [client : Clients,
     state : {"sending", "receiving", "complete", "error", "timeout"},
     in : BOOLEAN, out : BOOLEAN, status : BOOLEAN,
     outputComplete : BOOLEAN, exitStatusSet : BOOLEAN, parsed : BOOLEAN,
     notified : BOOLEAN, bytes : BOOLEAN, done : BOOLEAN, idle : BOOLEAN]
ProcessType ==
    [st : {"none", "forked", "running", "failed", "zombie"},
     hdr : {"none", "plain", "status"}, code : {"ok", "bad", "signal"},
     data : BOOLEAN, eof : BOOLEAN, err : BOOLEAN]

(* What holds of the tables whatever goes wrong. *)
Loose(s) ==
    /\ DOMAIN s = {"heap", "list", "byClient", "byPid", "proc", "owed", "last", "faults"}
    /\ DOMAIN s.heap \subseteq Workers
    /\ s.proc \in [Workers -> ProcessType]

Shape(s) ==
    /\ DOMAIN s = {"heap", "list", "byClient", "byPid", "proc", "owed", "last", "faults"}
    /\ DOMAIN s.heap \subseteq Workers
    /\ s.heap \in [DOMAIN s.heap -> WorkerType]
    /\ s.list \subseteq Workers
    /\ DOMAIN s.byClient \subseteq Clients
    /\ s.byClient \in [DOMAIN s.byClient -> Workers]
    /\ s.byPid \subseteq Workers
    /\ s.proc \in [Workers -> ProcessType]
    /\ s.owed \in [Clients -> Int]
    /\ DOMAIN s.last = {"client", "worker", "kind"}
    /\ s.faults \subseteq {"sigpipe", "freed"}

(* A worker k, its child p, and whether its pid is to be collected.  A     *)
(* byte is in the completion pair only if the worker will be found         *)
(* finished by the event that reads it; this is stable, although a worker  *)
(* that timed out is finished, for one that fails later is finished too.   *)
Sane(k, p, known) ==
    /\ ~k.notified /\ k.done
    /\ k.bytes => /\ k.outputComplete
                  /\ k.exitStatusSet \/ (k.state = "timeout" /\ ~k.out)
    /\ known => k.state # "timeout" /\ p.st # "none"
    /\ k.idle \/ k.state = "timeout" => "timeout" \in Faults
    /\ "unreadBody" \notin Faults =>
          (k.in /\ ~Alive(p) => k.state \in {"error", "timeout"})

(* The end of the output and the collection of the child both have their   *)
(* effect, and the second of them has notified the client.                 *)
Told(k, known) ==
    /\ ~known => k.exitStatusSet
    /\ k.outputComplete /\ k.exitStatusSet => k.bytes

(* The state of the worker is what its script deserves, as far as it is    *)
(* known, and no write of the body comes after the end of the output.      *)
Right(k, p) ==
    /\ k.in /\ Alive(p) => ~p.eof
    /\ k.outputComplete => /\ p.eof
                           /\ k.state \in {"complete", "error"}
                           /\ k.parsed \/ p.hdr = "none"
    /\ k.state = "complete" => k.outputComplete /\ p.hdr # "none"
    /\ k.exitStatusSet => k.state = "error" \/ p.hdr = "status" \/ p.code = "ok"
    /\ k.state = "error" => p.hdr = "none" \/ (k.exitStatusSet /\ p.code # "ok")
    /\ k.exitStatusSet => ~Alive(p)
    /\ ~Alive(p) => p.eof
    /\ p.st = "forked" => ~p.eof
    /\ p.st = "failed" \/ p.err => p.hdr = "none"

NoLoss == {"oversize", "timeout"} \cap Faults = {}
InputFirst == "outputFirst" \notin Faults

WorkerOK(s, w) ==
    LET k == s.heap[w]
        p == s.proc[w]
        known == w \in s.byPid
    IN /\ Sane(k, p, known)
       /\ NoLoss => Told(k, known)
       /\ NoLoss /\ InputFirst => Right(k, p)

(* The tables, with the clients that are connected. *)
Inv(s, on) ==
    /\ Shape(s)
    /\ s.list = DOMAIN s.heap
    /\ DOMAIN s.byClient \subseteq on
    /\ \A w \in s.list : \E c \in DOMAIN s.byClient : s.byClient[c] = w
    /\ \A c \in DOMAIN s.byClient :
          s.byClient[c] \in s.list /\ s.heap[s.byClient[c]].client = c
    /\ s.byPid \subseteq DOMAIN s.heap
    /\ \A w \in Workers : Alive(s.proc[w]) => w \in s.byPid
    /\ \A c \in Clients : s.owed[c] = IF c \in DOMAIN s.byClient THEN 1 ELSE 0
    /\ \A w \in DOMAIN s.heap : WorkerOK(s, w)
    /\ "freed" \notin s.faults
    /\ "sigpipe" \in s.faults => "unreadBody" \in Faults

Answered(s) ==
    LET w == s.last.worker
    IN /\ s.last.kind # "empty"
       /\ NoLoss /\ InputFirst /\ w # "none" => s.last.kind = Deserved(s.proc[w])

(* What the code guarantees when no step of createWorker() fails and no    *)
(* client sends more before it has its answer.                             *)
Ordinary == {"spawn", "register", "pipelining"} \cap Faults = {}

IInv == Inv(cgi, alive) /\ Answered(cgi) /\ alive \subseteq Clients

-----------------------------------------------------------------------------
(* Lemmas about the tables. *)

(* What becomes of the workers and their children keeps the invariant if   *)
(* it keeps what the invariant says of each of them.                       *)
LEMMA InvKept ==
    ASSUME NEW s, NEW t, NEW on, Inv(s, on),
           DOMAIN t = DOMAIN s, t.list = s.list, t.byClient = s.byClient, t.owed = s.owed,
           DOMAIN t.last = {"client", "worker", "kind"},
           t.faults \subseteq {"sigpipe", "freed"}, "freed" \notin t.faults,
           "sigpipe" \in t.faults => "unreadBody" \in Faults,
           t.byPid \subseteq s.byPid,
           t.heap \in [DOMAIN s.heap -> WorkerType],
           \A w \in DOMAIN s.heap : t.heap[w].client = s.heap[w].client,
           t.proc \in [Workers -> ProcessType],
           \A w \in Workers : Alive(t.proc[w]) => w \in t.byPid,
           \A w \in DOMAIN s.heap : WorkerOK(t, w)
    PROVE  Inv(t, on)
<1>1. DOMAIN t.heap = DOMAIN s.heap
  OBVIOUS
<1>2. Shape(t)
  BY <1>1 DEF Inv, Shape
<1>3. \A c \in DOMAIN t.byClient : t.heap[t.byClient[c]].client = c
  BY DEF Inv
<1> QED
  BY <1>1, <1>2, <1>3 DEF Inv

(* Only the worker w, now k, and its child, now p, change. *)
Step(s, t, w, k, p) ==
    /\ DOMAIN t = DOMAIN s
    /\ t.list = s.list /\ t.byClient = s.byClient /\ t.owed = s.owed
    /\ DOMAIN t.last = {"client", "worker", "kind"}
    /\ t.heap = [s.heap EXCEPT ![w] = k]
    /\ t.proc = [s.proc EXCEPT ![w] = p]

LEMMA InvStep ==
    ASSUME NEW s, NEW t, NEW on, NEW w \in Workers, NEW k, NEW p \in ProcessType,
           Inv(s, on), Step(s, t, w, k, p), t.faults = s.faults,
           t.byPid = s.byPid \/ t.byPid = s.byPid \ {w},
           Alive(p) => w \in t.byPid,
           w \in DOMAIN s.heap =>
              /\ k \in WorkerType
              /\ k.client = s.heap[w].client
              /\ Sane(k, p, w \in t.byPid)
              /\ NoLoss => Told(k, w \in t.byPid)
              /\ NoLoss /\ InputFirst => Right(k, p)
    PROVE  Inv(t, on)
<1>1. t.heap \in [DOMAIN s.heap -> WorkerType]
  <2>1. CASE w \in DOMAIN s.heap
    BY <2>1 DEF Step, Inv, Shape
  <2>2. CASE w \notin DOMAIN s.heap
    <3>1. s.heap \in [DOMAIN s.heap -> WorkerType]
      BY DEF Inv, Shape
    <3>2. t.heap = [s.heap EXCEPT ![w] = k]
      BY DEF Step
    <3> QED
      BY <2>2, <3>1, <3>2
  <2> QED
    BY <2>1, <2>2
<1>2. t.proc \in [Workers -> ProcessType]
  BY DEF Step, Inv, Shape
<1>3. \A x \in DOMAIN s.heap : t.heap[x].client = s.heap[x].client
  BY DEF Step
<1>4. \A x \in Workers : Alive(t.proc[x]) => x \in t.byPid
  BY DEF Step, Inv, Shape
<1>5. ASSUME NEW x \in DOMAIN s.heap
      PROVE  WorkerOK(t, x)
  <2>1. CASE x = w
    <3>1. t.heap[x] = k /\ t.proc[x] = p
      BY <2>1 DEF Step, Inv, Shape
    <3> QED
      BY <2>1, <3>1 DEF WorkerOK
  <2>2. CASE x # w
    <3>1. t.heap[x] = s.heap[x] /\ t.proc[x] = s.proc[x]
      BY <2>2 DEF Step, Inv, Shape
    <3>2. (x \in t.byPid) = (x \in s.byPid)
      BY <2>2
    <3>3. WorkerOK(s, x)
      BY DEF Inv
    <3> QED
      BY <3>1, <3>2, <3>3 DEF WorkerOK
  <2> QED
    BY <2>1, <2>2
<1>6. t.byPid \subseteq s.byPid
  OBVIOUS
<1>7. /\ t.faults \subseteq {"sigpipe", "freed"} /\ "freed" \notin t.faults
      /\ "sigpipe" \in t.faults => "unreadBody" \in Faults
  BY DEF Inv, Shape
<1> HIDE DEF Inv, Step, WorkerOK
<1> QED
  BY <1>1, <1>2, <1>3, <1>4, <1>5, <1>6, <1>7, InvKept DEF Step

(* Every worker is the one of its client. *)
LEMMA Owner ==
    ASSUME NEW s, NEW on, NEW w, Inv(s, on), w \in DOMAIN s.heap
    PROVE  /\ s.heap[w].client \in DOMAIN s.byClient
           /\ s.byClient[s.heap[w].client] = w
           /\ s.heap[w].client \in on
           /\ w \in Workers
           /\ s.heap[w] \in WorkerType
           /\ s.proc[w] \in ProcessType
<1>1. PICK c \in DOMAIN s.byClient : s.byClient[c] = w
  BY DEF Inv
<1>2. s.heap[w].client = c
  BY <1>1 DEF Inv
<1>3. w \in Workers /\ s.heap[w] \in WorkerType /\ s.proc[w] \in ProcessType
  BY DEF Inv, Shape
<1> QED
  BY <1>1, <1>2, <1>3 DEF Inv

(* The worker w goes with its entries in the indexes; its child becomes p. *)
Removed(s, t, w, p) ==
    /\ DOMAIN t = DOMAIN s
    /\ t.heap = Erase(s.heap, {w})
    /\ t.list = s.list \ {w}
    /\ t.byClient = Erase(s.byClient, {s.heap[w].client})
    /\ t.byPid = s.byPid \ {w}
    /\ t.proc = [s.proc EXCEPT ![w] = p]
    /\ t.faults = s.faults

LEMMA InvRemoved ==
    ASSUME NEW s, NEW t, NEW on, NEW w, NEW c, NEW p \in ProcessType,
           Inv(s, on), w \in DOMAIN s.heap, c = s.heap[w].client,
           Removed(s, t, w, p), ~Alive(p),
           t.owed = [s.owed EXCEPT ![c] = 0],
           DOMAIN t.last = {"client", "worker", "kind"}
    PROVE  Inv(t, on \ {c})
<1> USE DEF Removed
<1>1. /\ c \in DOMAIN s.byClient /\ s.byClient[c] = w /\ c \in Clients
      /\ w \in Workers
  BY Owner DEF Inv, Shape
<1>2. /\ DOMAIN t.heap = DOMAIN s.heap \ {w}
      /\ \A x \in DOMAIN t.heap : t.heap[x] = s.heap[x]
  BY DEF Erase, Restrict
<1>3. /\ DOMAIN t.byClient = DOMAIN s.byClient \ {c}
      /\ \A x \in DOMAIN t.byClient : t.byClient[x] = s.byClient[x]
  BY DEF Erase, Restrict
<1>4. Shape(t)
  <2>1. t.heap \in [DOMAIN t.heap -> WorkerType]
    BY <1>2 DEF Inv, Shape, Erase, Restrict
  <2>2. t.byClient \in [DOMAIN t.byClient -> Workers]
    BY <1>3 DEF Inv, Shape, Erase, Restrict
  <2>3. t.proc \in [Workers -> ProcessType]
    BY <1>1 DEF Inv, Shape
  <2>4. t.owed \in [Clients -> Int]
    BY <1>1 DEF Inv, Shape
  <2> QED
    BY <1>1, <1>2, <1>3, <2>1, <2>2, <2>3, <2>4 DEF Inv, Shape
<1>5. \A d \in DOMAIN t.byClient : s.byClient[d] # w
  BY <1>1, <1>3 DEF Inv
<1>6. \A x \in t.list : \E d \in DOMAIN t.byClient : t.byClient[d] = x
  <2> SUFFICES ASSUME NEW x \in t.list
               PROVE  \E d \in DOMAIN t.byClient : t.byClient[d] = x
    OBVIOUS
  <2>1. PICK d \in DOMAIN s.byClient : s.byClient[d] = x
    BY DEF Inv
  <2>2. d # c
    BY <1>1, <2>1
  <2> QED
    BY <1>3, <2>1, <2>2
<1>7. \A d \in DOMAIN t.byClient :
         t.byClient[d] \in t.list /\ t.heap[t.byClient[d]].client = d
  <2> SUFFICES ASSUME NEW d \in DOMAIN t.byClient
               PROVE  t.byClient[d] \in t.list /\ t.heap[t.byClient[d]].client = d
    OBVIOUS
  <2>1. /\ s.byClient[d] \in DOMAIN s.heap /\ s.byClient[d] \in s.list
        /\ s.heap[s.byClient[d]].client = d
    BY <1>3 DEF Inv
  <2> QED
    BY <1>2, <1>3, <1>5, <2>1
<1>8. \A x \in Workers : Alive(t.proc[x]) => x \in t.byPid
  BY <1>1 DEF Inv, Shape
<1>9. \A x \in DOMAIN t.heap : WorkerOK(t, x)
  <2> SUFFICES ASSUME NEW x \in DOMAIN t.heap
               PROVE  WorkerOK(t, x)
    OBVIOUS
  <2>0. x \in Workers
    BY <1>2 DEF Inv, Shape
  <2>1. t.heap[x] = s.heap[x] /\ t.proc[x] = s.proc[x]
    BY <1>2, <2>0
  <2>2. (x \in t.byPid) = (x \in s.byPid)
    BY <1>2
  <2>3. WorkerOK(s, x)
    BY <1>2 DEF Inv
  <2> QED
    BY <2>1, <2>2, <2>3 DEF WorkerOK
<1>10. \A d \in Clients : t.owed[d] = IF d \in DOMAIN t.byClient THEN 1 ELSE 0
  BY <1>1, <1>3 DEF Inv, Shape
<1> QED
  BY <1>2, <1>3, <1>4, <1>6, <1>7, <1>8, <1>9, <1>10 DEF Inv

(* The last answer is no part of the tables. *)
LEMMA InvOfLast ==
    ASSUME NEW s, NEW t, NEW on, NEW off, Inv(s, on), on \subseteq off,
           DOMAIN t = DOMAIN s, DOMAIN t.last = {"client", "worker", "kind"},
           \A f \in DOMAIN s \ {"last"} : t[f] = s[f]
    PROVE  Inv(t, off)
<1>1. /\ t.heap = s.heap /\ t.list = s.list /\ t.byClient = s.byClient
      /\ t.byPid = s.byPid /\ t.proc = s.proc /\ t.owed = s.owed /\ t.faults = s.faults
  BY DEF Inv, Shape
<1>2. Shape(t)
  BY <1>1 DEF Inv, Shape
<1>3. \A w \in DOMAIN t.heap : WorkerOK(t, w)
  BY <1>1 DEF Inv, WorkerOK
<1> QED
  BY <1>1, <1>2, <1>3 DEF Inv

-----------------------------------------------------------------------------
(* What the operations change.                                             *)

(* The child of a worker that is killed. *)
Dead(p) ==
    IF Alive(p) THEN [p EXCEPT !.st = "zombie", !.code = "signal", !.eof = TRUE] ELSE p

LEMMA DeadType ==
    ASSUME NEW p \in ProcessType
    PROVE  /\ Dead(p) \in ProcessType /\ ~Alive(Dead(p))
           /\ Dead(p).hdr = p.hdr /\ Dead(p).err = p.err
           /\ Dead(p).st = IF Alive(p) THEN "zombie" ELSE p.st
           /\ Dead(p).eof = (p.eof \/ Alive(p))
           /\ Dead(p).code = IF Alive(p) THEN "signal" ELSE p.code
  BY DEF Dead, Alive, ProcessType

LEMMA KilledIs ==
    ASSUME NEW s, NEW w \in Workers, Loose(s)
    PROVE  /\ DOMAIN Killed(s, w) = DOMAIN s
           /\ Killed(s, w).proc = [s.proc EXCEPT ![w] = Dead(s.proc[w])]
           /\ \A f \in DOMAIN s \ {"proc"} : Killed(s, w)[f] = s[f]
<1> DEFINE t == Killed(s, w)
           q == [s.proc EXCEPT ![w].st = "zombie", ![w].code = "signal", ![w].eof = TRUE]
<1>1. s.proc[w] \in ProcessType
  BY DEF Loose
<1>2. CASE Alive(s.proc[w])
  <2>1. t = [s EXCEPT !.proc = q]
    BY <1>2 DEF Killed, Loose
  <2>2. q = [s.proc EXCEPT ![w] = Dead(s.proc[w])]
    BY <1>1, <1>2 DEF Dead, Loose
  <2> QED
    BY <2>1, <2>2 DEF Loose
<1>3. CASE ~Alive(s.proc[w])
  <2>1. t = s
    BY <1>3 DEF Killed
  <2>2. s.proc = [s.proc EXCEPT ![w] = Dead(s.proc[w])]
    BY <1>3 DEF Dead, Loose
  <2> QED
    BY <2>1, <2>2
<1> QED
  BY <1>2, <1>3

(* The child of a worker that is deleted. *)
Buried(p) == IF p.st = "zombie" THEN [p EXCEPT !.st = "none"] ELSE Dead(p)

LEMMA BuriedType ==
    ASSUME NEW p \in ProcessType
    PROVE  /\ Buried(p) \in ProcessType /\ ~Alive(Buried(p))
           /\ ~Alive(p) => Buried(p).hdr = p.hdr /\ Buried(p).code = p.code
  BY DeadType DEF Buried, Dead, Alive, ProcessType

LEMMA RemoveWorkerIs ==
    ASSUME NEW s, NEW w, Loose(s), w \in DOMAIN s.heap
    PROVE  /\ Removed(s, RemoveWorker(s, w), w, Buried(s.proc[w]))
           /\ RemoveWorker(s, w).owed = s.owed /\ RemoveWorker(s, w).last = s.last
<1> DEFINE t == RemoveWorker(s, w)
           k == IF s.proc[w].st = "zombie" THEN [s EXCEPT !.proc[w].st = "none"]
                ELSE Killed(s, w)
<1>1. w \in Workers /\ s.proc[w] \in ProcessType
  BY DEF Loose
<1>2. /\ DOMAIN k = DOMAIN s
      /\ k.proc = [s.proc EXCEPT ![w] = Buried(s.proc[w])]
      /\ \A f \in DOMAIN s \ {"proc"} : k[f] = s[f]
  <2>1. CASE s.proc[w].st = "zombie"
    BY <1>1, <2>1 DEF Buried, Loose
  <2>2. CASE s.proc[w].st # "zombie"
    BY <1>1, <2>2, KilledIs DEF Buried
  <2> QED
    BY <2>1, <2>2
<1>3. t = [k EXCEPT !.list = @ \ {w}, !.byClient = Erase(@, {s.heap[w].client}),
                    !.byPid = @ \ {w}, !.heap = Erase(@, {w})]
  BY DEF RemoveWorker
<1> HIDE DEF t, k
<1> QED
  BY <1>2, <1>3 DEF t, Loose, Removed

LEMMA AbortClientIs ==
    ASSUME NEW s, NEW c, NEW w, NEW collected \in BOOLEAN,
           Loose(s), c \in DOMAIN s.byClient, w = s.byClient[c], w \in DOMAIN s.heap
    PROVE  LET t == AbortClient(s, c, collected)
           IN /\ \E p \in ProcessType : Removed(s, t, w, p) /\ ~Alive(p)
              /\ t.owed = s.owed /\ t.last = s.last
<1> DEFINE t == AbortClient(s, c, collected)
           d == Killed(s, w)
           r == RemoveWorker(d, w)
           q == Buried(Dead(s.proc[w]))
           p == [q EXCEPT !.st = IF Alive(s.proc[w]) /\ ~collected THEN "zombie" ELSE @]
<1>1. w \in Workers /\ s.proc[w] \in ProcessType
  BY DEF Loose
<1>2. /\ DOMAIN d = DOMAIN s /\ d.proc = [s.proc EXCEPT ![w] = Dead(s.proc[w])]
      /\ \A f \in DOMAIN s \ {"proc"} : d[f] = s[f]
  BY <1>1, KilledIs
<1>3. /\ d.heap = s.heap /\ d.list = s.list /\ d.byClient = s.byClient
      /\ d.byPid = s.byPid /\ d.owed = s.owed /\ d.last = s.last /\ d.faults = s.faults
  BY <1>2 DEF Loose
<1>4. Loose(d)
  BY <1>1, <1>2, <1>3, DeadType DEF Loose
<1>5. t = [r EXCEPT !.proc[w].st = IF Alive(s.proc[w]) /\ ~collected THEN "zombie" ELSE @]
  BY DEF AbortClient
<1>6. q \in ProcessType /\ p \in ProcessType /\ ~Alive(p)
  BY <1>1, DeadType, BuriedType DEF ProcessType, Alive
<1> HIDE DEF d, r
<1>7. Removed(d, r, w, Buried(d.proc[w])) /\ r.owed = d.owed /\ r.last = d.last
  BY <1>3, <1>4, RemoveWorkerIs DEF r
<1>8. r.proc = [s.proc EXCEPT ![w] = q]
  BY <1>1, <1>2, <1>7 DEF Loose, Removed
<1>9. [r.proc EXCEPT ![w].st = IF Alive(s.proc[w]) /\ ~collected THEN "zombie" ELSE @]
         = [s.proc EXCEPT ![w] = p]
  BY <1>1, <1>8 DEF Loose
<1> HIDE DEF t, q, p
<1>10. DOMAIN r = DOMAIN s
  BY <1>2, <1>7 DEF Removed
<1>11. /\ DOMAIN t = DOMAIN s /\ t.proc = [s.proc EXCEPT ![w] = p]
       /\ \A f \in DOMAIN s \ {"proc"} : t[f] = r[f]
  BY <1>5, <1>9, <1>10 DEF Loose
<1>12. Removed(s, t, w, p) /\ t.owed = s.owed /\ t.last = s.last
  BY <1>3, <1>7, <1>11 DEF Loose, Removed
<1> QED
  BY <1>6, <1>12 DEF t

(* The collection of a child, for its worker. *)
LEMMA ReapIs ==
    ASSUME NEW s, NEW w, s.heap[w] \in WorkerType, s.heap[w].state # "timeout"
    PROVE  LET k == s.heap[w]
               r == Reap(s, w)
               p == s.proc[w]
           IN /\ r \in WorkerType
              /\ \A f \in DOMAIN k \ {"exitStatusSet", "state", "bytes"} : r[f] = k[f]
              /\ DOMAIN r = DOMAIN k
              /\ r.exitStatusSet
              /\ r.state = IF \/ p.code = "signal"
                              \/ p.code = "bad" /\ ~(k.parsed /\ p.hdr = "status")
                           THEN "error" ELSE k.state
              /\ r.bytes = (k.bytes \/ (k.outputComplete /\ k.done))
              /\ IsFinished(r) = k.outputComplete
<1> DEFINE k == s.heap[w]
           r == Reap(s, w)
           p == s.proc[w]
           failed == \/ p.code = "signal"
                     \/ p.code = "bad" /\ ~(k.parsed /\ p.hdr = "status")
           told == [k EXCEPT !.exitStatusSet = TRUE,
                             !.state = IF @ # "timeout" /\ failed THEN "error" ELSE @]
<1>1. r = [told EXCEPT !.bytes = @ \/ (IsFinished(told) /\ told.done)]
  BY DEF Reap, HasStatusHeader
<1>2. /\ told \in WorkerType /\ told.exitStatusSet /\ told.outputComplete = k.outputComplete
      /\ told.state = IF failed THEN "error" ELSE k.state
      /\ told.done = k.done /\ told.bytes = k.bytes
      /\ DOMAIN told = DOMAIN k
      /\ \A f \in DOMAIN k \ {"exitStatusSet", "state"} : told[f] = k[f]
  BY DEF WorkerType
<1>3. DOMAIN k = {"client", "state", "in", "out", "status", "outputComplete",
                  "exitStatusSet", "parsed", "notified", "bytes", "done", "idle"}
  BY DEF WorkerType
<1> HIDE DEF told
<1>4. told.state # "timeout"
  BY <1>2
<1>5. IsFinished(told) = k.outputComplete
  BY <1>2, <1>4 DEF IsFinished, WorkerType
<1>6. /\ r \in WorkerType /\ DOMAIN r = DOMAIN k
      /\ \A f \in DOMAIN k \ {"bytes"} : r[f] = told[f]
      /\ r.bytes = (k.bytes \/ (k.outputComplete /\ k.done))
  <2>1. (told.bytes \/ (IsFinished(told) /\ told.done)) \in BOOLEAN
    BY <1>2, <1>5 DEF WorkerType
  <2> QED
    BY <1>1, <1>2, <1>3, <1>5, <2>1 DEF WorkerType
<1>7. IsFinished(r) = k.outputComplete
  BY <1>2, <1>3, <1>4, <1>6 DEF IsFinished, WorkerType
<1> HIDE DEF r
<1> QED
  BY <1>2, <1>3, <1>6, <1>7 DEF r

LEMMA CleanupFinishedKeeps ==
    ASSUME NEW s, NEW on, Inv(s, on)
    PROVE  Inv(CleanupFinished(s), on) /\ CleanupFinished(s).last = s.last
<1> DEFINE t == CleanupFinished(s)
           ended == {w \in DOMAIN s.proc : s.proc[w].st = "zombie"}
           known == ended \cap s.byPid
           broken(w) == IsFinished(Reap(s, w)) /\ ~s.heap[w].done
<1>1. /\ DOMAIN t = DOMAIN s /\ t.list = s.list /\ t.byClient = s.byClient
      /\ t.owed = s.owed /\ t.last = s.last /\ t.byPid = s.byPid \ ended
  BY DEF CleanupFinished, Inv, Shape
<1>2. t.heap = [w \in DOMAIN s.heap |-> IF w \in known THEN Reap(s, w) ELSE s.heap[w]]
  BY DEF CleanupFinished, Inv, Shape
<1>3. t.proc = [w \in DOMAIN s.proc |->
                   IF w \in ended THEN [s.proc[w] EXCEPT !.st = "none"] ELSE s.proc[w]]
  BY DEF CleanupFinished, Inv, Shape
<1>4. t.faults = s.faults
           \cup {f \in {"freed"} : ~(known \subseteq DOMAIN s.heap)}
           \cup {f \in {"sigpipe"} : \E w \in known \cap DOMAIN s.heap : broken(w)}
  BY DEF CleanupFinished, Inv, Shape
<1>5. /\ DOMAIN s.heap \subseteq Workers /\ s.heap \in [DOMAIN s.heap -> WorkerType]
      /\ s.proc \in [Workers -> ProcessType] /\ DOMAIN s.proc = Workers
      /\ s.byPid \subseteq DOMAIN s.heap /\ s.byPid \subseteq Workers
      /\ \A w \in Workers : Alive(s.proc[w]) => w \in s.byPid
      /\ \A w \in DOMAIN s.heap : WorkerOK(s, w)
      /\ DOMAIN s.last = {"client", "worker", "kind"}
  BY DEF Inv, Shape
<1>6. \A w \in known : /\ w \in DOMAIN s.heap /\ s.heap[w] \in WorkerType
                       /\ s.heap[w].state # "timeout" /\ s.heap[w].done
  BY <1>5 DEF WorkerOK, Sane
<1>7. t.faults = s.faults
  BY <1>4, <1>5, <1>6
<1>8. t.heap \in [DOMAIN s.heap -> WorkerType]
  BY <1>2, <1>5, <1>6, ReapIs
<1>9. \A w \in DOMAIN s.heap : t.heap[w].client = s.heap[w].client
  <2> SUFFICES ASSUME NEW w \in DOMAIN s.heap, w \in known
               PROVE  t.heap[w].client = s.heap[w].client
    BY <1>2
  <2>1. t.heap[w] = Reap(s, w)
    BY <1>2
  <2>2. "client" \in DOMAIN s.heap[w]
    BY <1>6 DEF WorkerType
  <2> QED
    BY <1>6, <2>1, <2>2, ReapIs
<1>10. ASSUME NEW w \in Workers
       PROVE  /\ t.proc[w] \in ProcessType
              /\ Alive(t.proc[w]) = Alive(s.proc[w])
              /\ Alive(t.proc[w]) => w \notin ended
              /\ w \in ended => t.proc[w].st = "none"
              /\ w \notin ended => t.proc[w] = s.proc[w]
              /\ t.proc[w].hdr = s.proc[w].hdr /\ t.proc[w].code = s.proc[w].code
              /\ t.proc[w].eof = s.proc[w].eof /\ t.proc[w].err = s.proc[w].err
  <2>1. s.proc[w] \in ProcessType
    BY <1>5
  <2>2. CASE w \in ended
    <3>1. t.proc[w] = [s.proc[w] EXCEPT !.st = "none"]
      BY <1>3, <1>5, <2>2
    <3> QED
      BY <2>1, <2>2, <3>1 DEF ProcessType, Alive
  <2>3. CASE w \notin ended
    <3>1. t.proc[w] = s.proc[w]
      BY <1>3, <1>5, <2>3
    <3> QED
      BY <1>5, <2>1, <2>3, <3>1 DEF Alive
  <2> QED
    BY <2>2, <2>3
<1>11. t.proc \in [Workers -> ProcessType]
  BY <1>3, <1>5, <1>10
<1>12. \A w \in Workers : Alive(t.proc[w]) => w \in t.byPid
  BY <1>1, <1>5, <1>10
<1>13. ASSUME NEW w \in DOMAIN s.heap
       PROVE  WorkerOK(t, w)
  <2> DEFINE k == s.heap[w]
             r == t.heap[w]
             p == s.proc[w]
             q == t.proc[w]
  <2>1. /\ k \in WorkerType /\ p \in ProcessType /\ w \in Workers
        /\ Sane(k, p, w \in s.byPid)
        /\ NoLoss => Told(k, w \in s.byPid)
        /\ NoLoss /\ InputFirst => Right(k, p)
    BY <1>5 DEF WorkerOK
  <2>2. CASE w \in known
    <3>1. r = Reap(s, w) /\ w \notin t.byPid
      BY <1>1, <1>2, <2>2
    <3>2. k.state # "timeout" /\ ~Alive(p) /\ q.st = "none"
      BY <1>6, <1>10, <2>1, <2>2 DEF Alive
    <3>3. /\ r \in WorkerType /\ r.exitStatusSet
          /\ r.state = IF \/ p.code = "signal"
                          \/ p.code = "bad" /\ ~(k.parsed /\ p.hdr = "status")
                       THEN "error" ELSE k.state
          /\ r.bytes = (k.bytes \/ (k.outputComplete /\ k.done))
          /\ r.in = k.in /\ r.out = k.out /\ r.outputComplete = k.outputComplete
          /\ r.parsed = k.parsed /\ r.notified = k.notified /\ r.done = k.done
          /\ r.idle = k.idle
      <4>1. {"in", "out", "outputComplete", "parsed", "notified", "done", "idle"}
               \subseteq DOMAIN k \ {"exitStatusSet", "state", "bytes"}
        BY <2>1 DEF WorkerType
      <4> HIDE DEF k, r, p
      <4> QED
        BY <2>1, <3>1, <3>2, <4>1, ReapIs DEF k, p
    <3>4. /\ q \in ProcessType /\ ~Alive(q) /\ q.hdr = p.hdr /\ q.code = p.code
          /\ q.eof = p.eof /\ q.err = p.err
      BY <1>10, <2>1, <3>2
    <3> HIDE DEF k, r, p, q
    <3>5. Sane(r, q, FALSE)
      BY <2>1, <3>2, <3>3, <3>4 DEF Sane, WorkerType
    <3>6. NoLoss => Told(r, FALSE)
      BY <2>1, <3>3 DEF Told, Sane, WorkerType
    <3>7. NoLoss /\ InputFirst => Right(r, q)
      <4> SUFFICES ASSUME Right(k, p)
                   PROVE  Right(r, q)
        BY <2>1
      <4> QED
        BY <2>1, <3>2, <3>3, <3>4 DEF Right, WorkerType, ProcessType
    <3>8. (w \in t.byPid) = FALSE
      BY <3>1
    <3> HIDE DEF t
    <3> QED
      BY <3>5, <3>6, <3>7, <3>8 DEF WorkerOK, r, q
  <2>3. CASE w \notin known
    <3>1. r = k
      BY <1>2, <2>3
    <3>2. (w \in t.byPid) = (w \in s.byPid)
      BY <1>1, <2>3
    <3>3. /\ Alive(q) = Alive(p) /\ q.hdr = p.hdr /\ q.code = p.code
          /\ q.eof = p.eof /\ q.err = p.err
          /\ w \in s.byPid => q = p
          /\ q.st = "none" \/ q = p
      BY <1>10, <2>1, <2>3
    <3> HIDE DEF k, r, p, q
    <3>4. Sane(k, q, w \in s.byPid)
      BY <2>1, <3>3 DEF Sane
    <3>5. NoLoss /\ InputFirst => Right(k, q)
      BY <2>1, <3>3 DEF Right
    <3> QED
      BY <2>1, <3>1, <3>2, <3>4, <3>5 DEF WorkerOK, r, q
  <2> QED
    BY <2>2, <2>3
<1>14. t.byPid \subseteq s.byPid
  BY <1>1
<1>15. /\ t.faults \subseteq {"sigpipe", "freed"} /\ "freed" \notin t.faults
       /\ "sigpipe" \in t.faults => "unreadBody" \in Faults
  BY <1>7 DEF Inv, Shape
<1> HIDE DEF t
<1>16. Inv(t, on)
  BY <1>1, <1>5, <1>8, <1>9, <1>11, <1>12, <1>13, <1>14, <1>15, InvKept
<1> QED
  BY <1>1, <1>16 DEF t

-----------------------------------------------------------------------------
(* The handlers of one worker.                                             *)

LEMMA OfWorker ==
    ASSUME NEW s, NEW on, NEW w \in DOMAIN s.heap, Inv(s, on)
    PROVE  /\ w \in Workers
           /\ s.heap[w] \in WorkerType /\ s.proc[w] \in ProcessType
           /\ Sane(s.heap[w], s.proc[w], w \in s.byPid)
           /\ NoLoss => Told(s.heap[w], w \in s.byPid)
           /\ NoLoss /\ InputFirst => Right(s.heap[w], s.proc[w])
           /\ Alive(s.proc[w]) => w \in s.byPid
  BY DEF Inv, Shape, WorkerOK

LEMMA Fields ==
    ASSUME NEW s, NEW on, Inv(s, on)
    PROVE  /\ DOMAIN s = {"heap", "list", "byClient", "byPid", "proc", "owed", "last",
                          "faults"}
           /\ DOMAIN s.last = {"client", "worker", "kind"}
           /\ s.heap \in [DOMAIN s.heap -> WorkerType]
           /\ s.proc \in [Workers -> ProcessType]
           /\ DOMAIN s.heap \subseteq Workers
           /\ Loose(s)
  BY DEF Inv, Shape, Loose

(* A step of the worker w alone, or of its child alone. *)
LEMMA InvOfWorker ==
    ASSUME NEW s, NEW t, NEW on, NEW w \in DOMAIN s.heap, NEW k \in WorkerType, Inv(s, on),
           DOMAIN t = DOMAIN s, t.heap = [s.heap EXCEPT ![w] = k],
           \A f \in DOMAIN s \ {"heap"} : t[f] = s[f],
           k.client = s.heap[w].client,
           Sane(k, s.proc[w], w \in s.byPid),
           NoLoss => Told(k, w \in s.byPid),
           NoLoss /\ InputFirst => Right(k, s.proc[w])
    PROVE  Inv(t, on) /\ t.last = s.last
<1>1. /\ t.list = s.list /\ t.byClient = s.byClient /\ t.owed = s.owed /\ t.last = s.last
      /\ t.byPid = s.byPid /\ t.proc = s.proc /\ t.faults = s.faults
  BY Fields
<1>2. s.proc = [s.proc EXCEPT ![w] = s.proc[w]]
  BY Fields
<1>3. Step(s, t, w, k, s.proc[w])
  BY <1>1, <1>2, Fields DEF Step
<1> QED
  BY <1>1, <1>3, OfWorker, InvStep

LEMMA InvOfChild ==
    ASSUME NEW s, NEW t, NEW on, NEW w \in Workers, NEW p \in ProcessType, Inv(s, on),
           DOMAIN t = DOMAIN s, t.proc = [s.proc EXCEPT ![w] = p],
           \A f \in DOMAIN s \ {"proc"} : t[f] = s[f],
           Alive(p) => Alive(s.proc[w]),
           w \in DOMAIN s.heap =>
              /\ Sane(s.heap[w], p, w \in s.byPid)
              /\ NoLoss /\ InputFirst => Right(s.heap[w], p)
    PROVE  Inv(t, on) /\ t.last = s.last
<1>1. /\ t.list = s.list /\ t.byClient = s.byClient /\ t.owed = s.owed /\ t.last = s.last
      /\ t.byPid = s.byPid /\ t.heap = s.heap /\ t.faults = s.faults
  BY Fields
<1>2. s.heap = [s.heap EXCEPT ![w] = s.heap[w]]
  BY Fields
<1>3. Step(s, t, w, s.heap[w], p)
  BY <1>1, <1>2, Fields DEF Step
<1>4. Alive(p) => w \in t.byPid
  BY <1>1 DEF Inv
<1> QED
  BY <1>1, <1>3, <1>4, OfWorker, InvStep

LEMMA TouchKeeps ==
    ASSUME NEW s, NEW on, NEW w \in DOMAIN s.heap, Inv(s, on)
    PROVE  LET t == Touch(s, w)
           IN /\ Inv(t, on) /\ t.last = s.last /\ t.proc = s.proc
              /\ DOMAIN t.heap = DOMAIN s.heap
              /\ \A f \in {"client", "in", "out", "bytes"} : t.heap[w][f] = s.heap[w][f]
<1> DEFINE t == Touch(s, w)
           k == [s.heap[w] EXCEPT !.idle = FALSE]
<1>1. /\ DOMAIN t = DOMAIN s /\ t.heap = [s.heap EXCEPT ![w] = k]
      /\ \A f \in DOMAIN s \ {"heap"} : t[f] = s[f]
  BY Fields DEF Touch
<1>2. k \in WorkerType /\ k.client = s.heap[w].client
  <2>1. s.heap[w] \in WorkerType
    BY OfWorker
  <2> QED
    BY <2>1 DEF WorkerType
<1>3. Sane(k, s.proc[w], w \in s.byPid)
  BY OfWorker DEF Sane, WorkerType
<1>4. NoLoss => Told(k, w \in s.byPid)
  BY OfWorker DEF Told, WorkerType
<1>5. NoLoss /\ InputFirst => Right(k, s.proc[w])
  BY OfWorker DEF Right, WorkerType
<1>6. \A f \in {"client", "in", "out", "bytes"} : t.heap[w][f] = s.heap[w][f]
  BY <1>1, OfWorker DEF WorkerType
<1> HIDE DEF t, k
<1>7. Inv(t, on) /\ t.last = s.last
  BY <1>1, <1>2, <1>3, <1>4, <1>5, InvOfWorker
<1>8. t.proc = s.proc /\ DOMAIN t.heap = DOMAIN s.heap
  BY <1>1, Fields
<1> QED
  BY <1>6, <1>7, <1>8 DEF t

(* The byte for a worker that may be finished. *)
LEMMA SignalIfFinishedIs ==
    ASSUME NEW s, NEW w \in DOMAIN s.heap, "heap" \in DOMAIN s,
           s.heap \in [DOMAIN s.heap -> WorkerType], s.heap[w].done
    PROVE  LET t == SignalIfFinished(s, w)
           IN /\ DOMAIN t = DOMAIN s
              /\ t.heap = [s.heap EXCEPT
                 ![w] = [s.heap[w] EXCEPT !.bytes = @ \/ IsFinished(s.heap[w])]]
              /\ \A f \in DOMAIN s \ {"heap"} : t[f] = s[f]
<1> DEFINE t == SignalIfFinished(s, w)
           k == s.heap[w]
           q == [k EXCEPT !.bytes = @ \/ IsFinished(k)]
<1>1. k \in WorkerType
  OBVIOUS
<1>2. CASE IsFinished(k)
  <2>1. q = [k EXCEPT !.bytes = TRUE]
    BY <1>1, <1>2 DEF WorkerType
  <2>2. t = [s EXCEPT !.heap[w].bytes = TRUE]
    BY <1>2 DEF SignalIfFinished, Signal
  <2>3. t.heap = [s.heap EXCEPT ![w] = [k EXCEPT !.bytes = TRUE]]
    BY <2>2
  <2>4. t.heap = [s.heap EXCEPT ![w] = q]
    BY <2>1, <2>3
  <2>5. DOMAIN t = DOMAIN s /\ \A f \in DOMAIN s \ {"heap"} : t[f] = s[f]
    BY <2>2
  <2> QED
    BY <2>4, <2>5
<1>3. CASE ~IsFinished(k)
  <2>1. q = k
    BY <1>1, <1>3 DEF WorkerType
  <2>2. t = s
    BY <1>3 DEF SignalIfFinished
  <2>3. [s.heap EXCEPT ![w] = q] = s.heap
    BY <2>1
  <2> QED
    BY <2>2, <2>3
<1> QED
  BY <1>2, <1>3

(* handleRead at the end of the output. *)
LEMMA ReadEndsKeeps ==
    ASSUME NEW s, NEW on, NEW w \in DOMAIN s.heap, Inv(s, on),
           s.heap[w].out, s.proc[w].eof
    PROVE  Inv(ReadEnds(s, w), on) /\ ReadEnds(s, w).last = s.last
<1> DEFINE k == s.heap[w]
           p == s.proc[w]
           state == IF p.hdr = "none" THEN "error"
                    ELSE IF k.state \in {"error", "timeout"} THEN k.state ELSE "complete"
           e == [k EXCEPT !.out = FALSE, !.parsed = TRUE, !.state = state,
                          !.outputComplete = TRUE]
           r == [s EXCEPT !.heap[w].out = FALSE, !.heap[w].parsed = TRUE,
                          !.heap[w].state = state, !.heap[w].outputComplete = TRUE]
           q == [e EXCEPT !.bytes = @ \/ IsFinished(e)]
           t == ReadEnds(s, w)
<1>1. k \in WorkerType /\ p \in ProcessType /\ w \in Workers
  BY OfWorker
<1>2. /\ Sane(k, p, w \in s.byPid)
      /\ NoLoss => Told(k, w \in s.byPid)
      /\ NoLoss /\ InputFirst => Right(k, p)
  BY OfWorker
<1>3. state \in {"complete", "error", "timeout"}
  OBVIOUS
<1>4. /\ e \in WorkerType /\ ~e.out /\ e.parsed /\ e.state = state /\ e.outputComplete
      /\ e.client = k.client /\ e.in = k.in /\ e.exitStatusSet = k.exitStatusSet
      /\ e.notified = k.notified /\ e.bytes = k.bytes /\ e.done = k.done /\ e.idle = k.idle
  <2> HIDE DEF state
  <2> QED
    BY <1>1, <1>3 DEF WorkerType
<1>5. r.heap = [s.heap EXCEPT ![w] = e] /\ DOMAIN r = DOMAIN s
      /\ \A f \in DOMAIN s \ {"heap"} : r[f] = s[f]
  <2> HIDE DEF state
  <2> QED
    BY Fields, <1>1
<1>6. t = SignalIfFinished(r, w)
  BY DEF ReadEnds
<1> HIDE DEF r, e, t
<1>7. r.heap \in [DOMAIN r.heap -> WorkerType] /\ r.heap[w] = e /\ DOMAIN r.heap = DOMAIN s.heap
  BY <1>4, <1>5, Fields
<1>8. e.done
  BY <1>2, <1>4 DEF Sane
<1>9. /\ DOMAIN t = DOMAIN r /\ t.heap = [r.heap EXCEPT ![w] = q]
      /\ \A f \in DOMAIN r \ {"heap"} : t[f] = r[f]
  BY <1>5, <1>6, <1>7, <1>8, SignalIfFinishedIs, Fields
<1>10. /\ DOMAIN t = DOMAIN s /\ t.heap = [s.heap EXCEPT ![w] = q]
       /\ \A f \in DOMAIN s \ {"heap"} : t[f] = s[f]
  <2> HIDE DEF q
  <2> QED
    BY <1>5, <1>9, Fields
<1>11. IsFinished(e) \in BOOLEAN /\ IsFinished(e) = (state = "timeout" \/ k.exitStatusSet)
  BY <1>1, <1>4 DEF IsFinished, WorkerType
<1>12. /\ q \in WorkerType /\ ~q.out /\ q.parsed /\ q.state = state /\ q.outputComplete
       /\ q.client = k.client /\ q.in = k.in /\ q.exitStatusSet = k.exitStatusSet
       /\ q.notified = k.notified /\ q.done = k.done /\ q.idle = k.idle
       /\ q.bytes = (k.bytes \/ state = "timeout" \/ k.exitStatusSet)
  BY <1>1, <1>4, <1>11 DEF WorkerType
<1> HIDE DEF q
<1>13. Sane(q, p, w \in s.byPid)
  BY <1>1, <1>2, <1>12 DEF Sane, WorkerType
<1>14. NoLoss => Told(q, w \in s.byPid)
  BY <1>1, <1>2, <1>12 DEF Told, WorkerType
<1>15. NoLoss /\ InputFirst => Right(q, p)
  <2>1. NoLoss => k.state # "timeout"
    BY <1>2 DEF Sane, NoLoss
  <2> QED
    BY <1>1, <1>2, <1>12, <2>1 DEF Right, WorkerType
<1>16. Inv(t, on) /\ t.last = s.last
  BY <1>10, <1>12, <1>13, <1>14, <1>15, InvOfWorker
<1> QED
  BY <1>16 DEF t

(* handleRead on an output that is too long or cannot be read. *)
LEMMA ReadFailsKeeps ==
    ASSUME NEW s, NEW on, NEW w \in DOMAIN s.heap, Inv(s, on), s.heap[w].out,
           "oversize" \in Faults
    PROVE  Inv(ReadFails(s, w), on) /\ ReadFails(s, w).last = s.last
<1> DEFINE k == s.heap[w]
           p == s.proc[w]
           q == [k EXCEPT !.state = "error", !.out = FALSE, !.outputComplete = TRUE]
           r == [s EXCEPT !.heap[w].state = "error", !.heap[w].out = FALSE,
                          !.heap[w].outputComplete = TRUE]
<1>1. /\ k \in WorkerType /\ p \in ProcessType
      /\ Sane(k, p, w \in s.byPid)
  BY OfWorker
<1>2. /\ q \in WorkerType /\ ~q.out /\ q.state = "error" /\ q.outputComplete
      /\ q.client = k.client /\ q.in = k.in /\ q.exitStatusSet = k.exitStatusSet
      /\ q.notified = k.notified /\ q.done = k.done /\ q.idle = k.idle
      /\ q.bytes = k.bytes
  BY <1>1 DEF WorkerType
<1>3. r.heap = [s.heap EXCEPT ![w] = q] /\ DOMAIN r = DOMAIN s
      /\ \A f \in DOMAIN s \ {"heap"} : r[f] = s[f]
  BY Fields, <1>1
<1>4. ReadFails(s, w) = CleanupFinished(r)
  BY DEF ReadFails
<1> HIDE DEF q, r
<1>5. Sane(q, p, w \in s.byPid)
  BY <1>1, <1>2 DEF Sane, WorkerType
<1>6. ~NoLoss
  BY DEF NoLoss
<1>7. Inv(r, on) /\ r.last = s.last
  BY <1>2, <1>3, <1>5, <1>6, InvOfWorker
<1> QED
  BY <1>4, <1>7, CleanupFinishedKeeps

LEMMA HandleReadKeeps ==
    ASSUME NEW s, NEW on, NEW w \in DOMAIN s.heap, Inv(s, on), s.heap[w].out,
           s.proc[w].data \/ s.proc[w].eof,
           NEW fails \in BOOLEAN, fails => "oversize" \in Faults
    PROVE  Inv(HandleRead(s, w, fails), on) /\ HandleRead(s, w, fails).last = s.last
<1> DEFINE p == s.proc[w]
           q == [p EXCEPT !.data = FALSE]
           t == [s EXCEPT !.proc[w].data = FALSE]
<1>1. CASE fails
  BY <1>1, ReadFailsKeeps DEF HandleRead
<1>2. CASE ~fails /\ ~p.data
  BY <1>2, ReadEndsKeeps DEF HandleRead
<1>3. CASE ~fails /\ p.data
  <2>1. HandleRead(s, w, fails) = t
    BY <1>3 DEF HandleRead
  <2>2. p \in ProcessType /\ w \in Workers /\ s.heap[w] \in WorkerType
    BY OfWorker
  <2>3. /\ DOMAIN t = DOMAIN s /\ t.proc = [s.proc EXCEPT ![w] = q]
        /\ \A f \in DOMAIN s \ {"proc"} : t[f] = s[f]
    BY Fields, <2>2
  <2>4. /\ q \in ProcessType /\ q.st = p.st /\ q.hdr = p.hdr /\ q.code = p.code
        /\ q.eof = p.eof /\ q.err = p.err
    BY <2>2 DEF ProcessType
  <2> HIDE DEF q, t
  <2>5. Alive(q) = Alive(p)
    BY <2>4 DEF Alive
  <2>6. Sane(s.heap[w], q, w \in s.byPid)
    BY <2>4, <2>5, OfWorker DEF Sane
  <2>7. NoLoss /\ InputFirst => Right(s.heap[w], q)
    BY <2>4, <2>5, OfWorker DEF Right
  <2>8. Inv(t, on) /\ t.last = s.last
    BY <2>2, <2>3, <2>4, <2>5, <2>6, <2>7, InvOfChild
  <2> QED
    BY <2>1, <2>8
<1> QED
  BY <1>1, <1>2, <1>3

(* handleWrite; the write that raises SIGPIPE is the one of a script that  *)
(* has not read its input.                                                 *)
LEMMA HandleWriteKeeps ==
    ASSUME NEW s, NEW on, NEW w \in DOMAIN s.heap, Inv(s, on), s.heap[w].in,
           NEW all \in BOOLEAN
    PROVE  Inv(HandleWrite(s, w, all), on) /\ HandleWrite(s, w, all).last = s.last
<1> DEFINE k == s.heap[w]
           p == s.proc[w]
           t == HandleWrite(s, w, all)
<1>1. /\ k \in WorkerType /\ p \in ProcessType /\ w \in Workers
      /\ Sane(k, p, w \in s.byPid)
      /\ NoLoss => Told(k, w \in s.byPid)
      /\ NoLoss /\ InputFirst => Right(k, p)
  BY OfWorker
<1>2. CASE k.state \in {"error", "timeout"}
  <2> DEFINE q == [k EXCEPT !.in = FALSE]
  <2>1. t = [s EXCEPT !.heap[w].in = FALSE]
    BY <1>2 DEF HandleWrite
  <2>2. /\ DOMAIN t = DOMAIN s /\ t.heap = [s.heap EXCEPT ![w] = q]
        /\ \A f \in DOMAIN s \ {"heap"} : t[f] = s[f]
    BY <2>1, <1>1, Fields
  <2>3. q \in WorkerType /\ ~q.in /\ \A f \in DOMAIN k \ {"in"} : q[f] = k[f]
    BY <1>1 DEF WorkerType
  <2>4. /\ q.client = k.client /\ q.state = k.state /\ q.out = k.out
        /\ q.outputComplete = k.outputComplete /\ q.exitStatusSet = k.exitStatusSet
        /\ q.parsed = k.parsed /\ q.notified = k.notified /\ q.bytes = k.bytes
        /\ q.done = k.done /\ q.idle = k.idle
    BY <1>1 DEF WorkerType
  <2> HIDE DEF q, t
  <2>5. Sane(q, p, w \in s.byPid)
    BY <1>1, <2>3, <2>4 DEF Sane
  <2>6. NoLoss => Told(q, w \in s.byPid)
    BY <1>1, <2>3, <2>4 DEF Told
  <2>7. NoLoss /\ InputFirst => Right(q, p)
    BY <1>1, <2>3, <2>4 DEF Right
  <2>8. Inv(t, on) /\ t.last = s.last
    BY <2>2, <2>3, <2>4, <2>5, <2>6, <2>7, InvOfWorker
  <2> QED
    BY <2>8 DEF t
<1>3. CASE k.state \notin {"error", "timeout"} /\ ~Alive(p)
  <2>1. t = Fault(s, "sigpipe")
    BY <1>3 DEF HandleWrite
  <2>2. "unreadBody" \in Faults
    BY <1>1, <1>3 DEF Sane
  <2>3. /\ DOMAIN t = DOMAIN s /\ t.faults = s.faults \cup {"sigpipe"}
        /\ \A f \in DOMAIN s \ {"faults"} : t[f] = s[f]
    BY <2>1, Fields DEF Fault
  <2> HIDE DEF t
  <2>4. /\ t.list = s.list /\ t.byClient = s.byClient /\ t.owed = s.owed
        /\ t.last = s.last /\ t.byPid = s.byPid /\ t.heap = s.heap /\ t.proc = s.proc
    BY <2>3, Fields
  <2>5. /\ t.faults \subseteq {"sigpipe", "freed"} /\ "freed" \notin t.faults
        /\ DOMAIN t.last = {"client", "worker", "kind"}
        /\ t.byPid \subseteq s.byPid
        /\ t.heap \in [DOMAIN s.heap -> WorkerType]
        /\ t.proc \in [Workers -> ProcessType]
        /\ \A x \in Workers : Alive(t.proc[x]) => x \in t.byPid
    BY <2>3, <2>4 DEF Inv, Shape
  <2>6. \A x \in DOMAIN s.heap : WorkerOK(t, x)
    BY <2>4 DEF Inv, WorkerOK
  <2>7. Inv(t, on)
    BY <2>2, <2>3, <2>4, <2>5, <2>6, InvKept
  <2> QED
    BY <2>4, <2>7 DEF t
<1>4. CASE k.state \notin {"error", "timeout"} /\ Alive(p)
  <2> DEFINE q == [k EXCEPT !.in = ~all, !.state = IF all THEN "receiving" ELSE @]
  <2>1. t = [s EXCEPT !.heap[w].in = ~all,
                      !.heap[w].state = IF all THEN "receiving" ELSE @]
    BY <1>4 DEF HandleWrite
  <2>2. /\ DOMAIN t = DOMAIN s /\ t.heap = [s.heap EXCEPT ![w] = q]
        /\ \A f \in DOMAIN s \ {"heap"} : t[f] = s[f]
    <3>1. CASE all
      <4>1. t = [s EXCEPT !.heap[w].in = FALSE, !.heap[w].state = "receiving"]
        BY <2>1, <3>1
      <4>2. q = [k EXCEPT !.in = FALSE, !.state = "receiving"]
        BY <3>1
      <4> HIDE DEF t, q
      <4> QED
        BY <1>1, <4>1, <4>2, Fields
    <3>2. CASE ~all
      <4>1. t = [s EXCEPT !.heap[w].in = TRUE, !.heap[w].state = @]
        BY <2>1, <3>2
      <4>2. q = [k EXCEPT !.in = TRUE, !.state = @]
        BY <3>2
      <4> DEFINE h == [s.heap EXCEPT ![w].in = TRUE, ![w].state = @]
      <4>0. t = [s EXCEPT !.heap = h]
        BY <4>1
      <4>3. /\ DOMAIN t = DOMAIN s
            /\ t.heap = h
            /\ \A f \in DOMAIN s \ {"heap"} : t[f] = s[f]
        <5> HIDE DEF t, h
        <5> QED
          BY <4>0, Fields
      <4>4. [s.heap EXCEPT ![w].in = TRUE, ![w].state = @]
               = [s.heap EXCEPT ![w] = [k EXCEPT !.in = TRUE, !.state = @]]
        OBVIOUS
      <4> QED
        BY <4>2, <4>3, <4>4
    <3> QED
      BY <3>1, <3>2
  <2>3. q \in WorkerType /\ q.in = ~all /\ q.state = IF all THEN "receiving" ELSE k.state
    BY <1>1 DEF WorkerType
  <2>4. /\ q.client = k.client /\ q.out = k.out
        /\ q.outputComplete = k.outputComplete /\ q.exitStatusSet = k.exitStatusSet
        /\ q.parsed = k.parsed /\ q.notified = k.notified /\ q.bytes = k.bytes
        /\ q.done = k.done /\ q.idle = k.idle
    BY <1>1 DEF WorkerType
  <2> HIDE DEF q, t
  <2>5. Sane(q, p, w \in s.byPid)
    BY <1>1, <1>4, <2>3, <2>4 DEF Sane
  <2>6. NoLoss => Told(q, w \in s.byPid)
    BY <1>1, <2>3, <2>4 DEF Told
  <2>7. NoLoss /\ InputFirst => Right(q, p)
    BY <1>1, <1>4, <2>3, <2>4 DEF Right
  <2>8. Inv(t, on) /\ t.last = s.last
    BY <2>2, <2>3, <2>4, <2>5, <2>6, <2>7, InvOfWorker
  <2> QED
    BY <2>8 DEF t
<1> QED
  BY <1>2, <1>3, <1>4

(* handleErrorExit.                                                        *)
LEMMA HandleErrorExitKeeps ==
    ASSUME NEW s, NEW on, NEW w \in DOMAIN s.heap, Inv(s, on)
    PROVE  Inv(HandleErrorExit(s, w), on) /\ HandleErrorExit(s, w).last = s.last
<1> DEFINE k == s.heap[w]
           p == s.proc[w]
           d == Killed(s, w)
           e == [k EXCEPT !.state = "error", !.status = FALSE, !.outputComplete = TRUE,
                          !.exitStatusSet = TRUE]
           r == [d EXCEPT !.heap[w].state = "error", !.heap[w].status = FALSE,
                          !.heap[w].outputComplete = TRUE, !.heap[w].exitStatusSet = TRUE]
           q == [e EXCEPT !.bytes = @ \/ IsFinished(e)]
           t == HandleErrorExit(s, w)
<1>1. /\ k \in WorkerType /\ p \in ProcessType /\ w \in Workers
      /\ Sane(k, p, w \in s.byPid)
      /\ NoLoss => Told(k, w \in s.byPid)
      /\ NoLoss /\ InputFirst => Right(k, p)
  BY OfWorker
<1>2. CASE ~p.err
  BY <1>2 DEF HandleErrorExit
<1>3. CASE p.err
  <2>1. t = SignalIfFinished(r, w)
    BY <1>3 DEF HandleErrorExit
  <2>2. /\ DOMAIN d = DOMAIN s /\ d.proc = [s.proc EXCEPT ![w] = Dead(p)]
        /\ \A f \in DOMAIN s \ {"proc"} : d[f] = s[f]
    BY <1>1, KilledIs, Fields
  <2>3. /\ e \in WorkerType /\ e.state = "error" /\ e.outputComplete /\ e.exitStatusSet
        /\ e.client = k.client /\ e.in = k.in /\ e.out = k.out /\ e.parsed = k.parsed
        /\ e.notified = k.notified /\ e.bytes = k.bytes /\ e.done = k.done
        /\ e.idle = k.idle
    BY <1>1 DEF WorkerType
  <2> HIDE DEF d, t
  <2>4. d.heap = s.heap /\ DOMAIN d = DOMAIN s
    BY <2>2, Fields
  <2>5. /\ r.heap = [s.heap EXCEPT ![w] = e] /\ DOMAIN r = DOMAIN s
        /\ \A f \in DOMAIN s \ {"heap"} : r[f] = d[f]
    BY <2>4, <1>1, Fields
  <2> HIDE DEF e, r
  <2>6. /\ r.heap \in [DOMAIN r.heap -> WorkerType] /\ r.heap[w] = e
        /\ DOMAIN r.heap = DOMAIN s.heap /\ "heap" \in DOMAIN r
    BY <2>3, <2>5, Fields
  <2>7. e.done
    BY <1>1, <2>3 DEF Sane
  <2>8. /\ DOMAIN t = DOMAIN r /\ t.heap = [r.heap EXCEPT ![w] = q]
        /\ \A f \in DOMAIN r \ {"heap"} : t[f] = r[f]
    BY <2>1, <2>6, <2>7, SignalIfFinishedIs
  <2>9. IsFinished(e)
    BY <2>3 DEF IsFinished
  <2>10. /\ q \in WorkerType /\ q.state = "error" /\ q.outputComplete /\ q.exitStatusSet
         /\ q.client = k.client /\ q.in = k.in /\ q.out = k.out /\ q.parsed = k.parsed
         /\ q.notified = k.notified /\ q.bytes /\ q.done = k.done /\ q.idle = k.idle
    BY <2>3, <2>9 DEF WorkerType
  <2> HIDE DEF q
  <2>11. /\ DOMAIN t = DOMAIN s /\ t.heap = [s.heap EXCEPT ![w] = q]
         /\ \A f \in DOMAIN s \ {"heap", "proc"} : t[f] = s[f]
         /\ t.proc = [s.proc EXCEPT ![w] = Dead(p)]
    BY <2>2, <2>5, <2>8, Fields
  <2>12. /\ t.list = s.list /\ t.byClient = s.byClient /\ t.owed = s.owed
         /\ t.last = s.last /\ t.byPid = s.byPid /\ t.faults = s.faults
    BY <2>11, Fields
  <2>13. Step(s, t, w, q, Dead(p))
    BY <2>11, <2>12, Fields DEF Step
  <2>14. /\ Dead(p) \in ProcessType /\ ~Alive(Dead(p))
         /\ Dead(p).hdr = p.hdr /\ Dead(p).err = p.err
         /\ Dead(p).st = IF Alive(p) THEN "zombie" ELSE p.st
         /\ Dead(p).eof = (p.eof \/ Alive(p))
         /\ Dead(p).code = IF Alive(p) THEN "signal" ELSE p.code
    BY <1>1, DeadType
  <2>15. Sane(q, Dead(p), w \in s.byPid)
    BY <1>1, <2>10, <2>14 DEF Sane
  <2>16. NoLoss => Told(q, w \in s.byPid)
    BY <2>10 DEF Told
  <2>17. NoLoss /\ InputFirst => Right(q, Dead(p))
    <3>1. Dead(p).st \notin {"forked", "failed"}
      BY <2>14 DEF Alive
    <3> QED
      BY <1>1, <1>3, <2>10, <2>14, <3>1 DEF Right
  <2>18. Inv(t, on)
    BY <1>1, <2>10, <2>12, <2>13, <2>14, <2>15, <2>16, <2>17, InvStep
  <2> QED
    BY <2>12, <2>18 DEF t
<1> QED
  BY <1>2, <1>3

(* cleanupTimedOutWorkers for one worker.                                  *)
LEMMA TimeOutKeeps ==
    ASSUME NEW s, NEW on, NEW w \in DOMAIN s.heap, Inv(s, on), "timeout" \in Faults,
           NEW collected, NEW cut, NEW t, t = TimeOut(s, w, collected, cut)
    PROVE  Inv(t, on) /\ t.last = s.last
<1> DEFINE k == s.heap[w]
           p == s.proc[w]
           d == Killed(s, w)
           q == [k EXCEPT !.state = "timeout"]
           x == Dead(p)
           st == IF collected THEN "none" ELSE x.st
           hdr == IF cut /\ Alive(p) THEN "none" ELSE x.hdr
           y == [x EXCEPT !.st = st, !.hdr = hdr]
<1>1. /\ k \in WorkerType /\ p \in ProcessType /\ w \in Workers
      /\ Sane(k, p, w \in s.byPid)
  BY OfWorker
<1>2. /\ DOMAIN d = DOMAIN s /\ d.proc = [s.proc EXCEPT ![w] = x]
      /\ \A f \in DOMAIN s \ {"proc"} : d[f] = s[f]
  BY <1>1, KilledIs, Fields
<1>3. t = [d EXCEPT !.byPid = @ \ {w}, !.heap[w].state = "timeout",
                    !.proc[w].st = IF collected THEN "none" ELSE @,
                    !.proc[w].hdr = IF cut /\ Alive(p) THEN "none" ELSE @]
  BY DEF TimeOut
<1> HIDE DEF d
<1>4. /\ DOMAIN t = DOMAIN s /\ t.byPid = d.byPid \ {w}
      /\ t.heap = [d.heap EXCEPT ![w].state = "timeout"]
      /\ t.proc = [d.proc EXCEPT ![w].st = IF collected THEN "none" ELSE @,
                                 ![w].hdr = IF cut /\ Alive(p) THEN "none" ELSE @]
      /\ t.list = d.list /\ t.byClient = d.byClient /\ t.owed = d.owed
      /\ t.last = d.last /\ t.faults = d.faults
  BY <1>2, <1>3, Fields
<1>5. /\ d.heap = s.heap /\ d.byPid = s.byPid /\ d.list = s.list
      /\ d.byClient = s.byClient /\ d.owed = s.owed /\ d.last = s.last
      /\ d.faults = s.faults
  BY <1>2, Fields
<1>6. /\ x \in ProcessType /\ ~Alive(x) /\ x.hdr = p.hdr /\ x.err = p.err
  BY <1>1, DeadType
<1>7. t.heap = [s.heap EXCEPT ![w] = q]
  BY <1>4, <1>5
<1>8. t.proc = [s.proc EXCEPT ![w] = y]
  <2>1. d.proc[w] = x
    BY <1>1, <1>2, Fields
  <2>2. t.proc = [d.proc EXCEPT ![w] = [d.proc[w] EXCEPT
                       !.st = IF collected THEN "none" ELSE @,
                       !.hdr = IF cut /\ Alive(p) THEN "none" ELSE @]]
    BY <1>4
  <2>3. y = [d.proc[w] EXCEPT !.st = IF collected THEN "none" ELSE @,
                              !.hdr = IF cut /\ Alive(p) THEN "none" ELSE @]
    <3> HIDE DEF x
    <3> QED
      BY <1>6, <2>1 DEF ProcessType
  <2>4. t.proc = [d.proc EXCEPT ![w] = y]
    <3> HIDE DEF y
    <3> QED
      BY <2>2, <2>3
  <2> HIDE DEF x, y
  <2> QED
    BY <1>2, <2>4, Fields
<1>9. y \in ProcessType /\ ~Alive(y)
  <2> HIDE DEF x
  <2> QED
    BY <1>6 DEF ProcessType, Alive
<1>10. /\ q \in WorkerType /\ q.state = "timeout" /\ q.client = k.client
       /\ q.in = k.in /\ q.out = k.out /\ q.outputComplete = k.outputComplete
       /\ q.exitStatusSet = k.exitStatusSet /\ q.notified = k.notified
       /\ q.bytes = k.bytes /\ q.done = k.done /\ q.idle = k.idle
  BY <1>1 DEF WorkerType
<1> HIDE DEF q, y
<1>11. Step(s, t, w, q, y)
  BY <1>4, <1>5, <1>7, <1>8, Fields DEF Step
<1>12. (w \in t.byPid) = FALSE /\ t.byPid = s.byPid \ {w}
  BY <1>4, <1>5
<1>13. Sane(q, y, FALSE)
  BY <1>1, <1>10 DEF Sane
<1>14. Sane(q, y, w \in t.byPid)
  BY <1>12, <1>13
<1>15. ~NoLoss
  BY DEF NoLoss
<1>16. t.last = s.last /\ t.faults = s.faults
  BY <1>4, <1>5
<1>17. Inv(t, on)
  BY <1>1, <1>9, <1>10, <1>11, <1>12, <1>14, <1>15, <1>16, InvStep
<1> QED
  BY <1>16, <1>17

(* CgiEndEvent::process finds its own worker finished and answers for it.  *)
LEMMA CgiEndKeeps ==
    ASSUME NEW s, NEW on, NEW w \in DOMAIN s.heap, Inv(s, on), s.heap[w].bytes
    PROVE  /\ Inv(CgiEnd(s, w), on)
           /\ Answered(CgiEnd(s, w))
<1> DEFINE k == s.heap[w]
           p == s.proc[w]
           c == k.client
           e == [k EXCEPT !.bytes = FALSE, !.notified = TRUE, !.done = FALSE]
           n == [s EXCEPT !.heap[w].bytes = FALSE, !.heap[w].notified = TRUE,
                          !.heap[w].done = FALSE]
           r == RemoveWorker(n, w)
           t == CgiEnd(s, w)
           kind == AnswerKind(n, w)
<1>1. /\ k \in WorkerType /\ p \in ProcessType /\ w \in Workers
      /\ Sane(k, p, w \in s.byPid)
      /\ NoLoss /\ InputFirst => Right(k, p)
  BY OfWorker
<1>2. c \in Clients /\ c \in DOMAIN s.byClient /\ s.byClient[c] = w /\ s.owed[c] = 1
  BY Owner DEF Inv, Shape
<1>3. /\ e \in WorkerType /\ e.client = c /\ e.state = k.state /\ e.parsed = k.parsed
      /\ e.outputComplete = k.outputComplete /\ e.exitStatusSet = k.exitStatusSet
  BY <1>1 DEF WorkerType
<1>4. /\ DOMAIN n = DOMAIN s /\ n.heap = [s.heap EXCEPT ![w] = e]
      /\ \A f \in DOMAIN s \ {"heap"} : n[f] = s[f]
  BY <1>1, Fields
<1>5. /\ n.list = s.list /\ n.byClient = s.byClient /\ n.byPid = s.byPid
      /\ n.proc = s.proc /\ n.owed = s.owed /\ n.faults = s.faults
      /\ n.heap[w] = e /\ DOMAIN n.heap = DOMAIN s.heap
  <2> HIDE DEF n, e
  <2> QED
    BY <1>4, Fields
<1>6. k.outputComplete /\ (k.state = "timeout" \/ k.exitStatusSet) /\ ~k.notified
  BY <1>1 DEF Sane
<1>7. CompleteFor(n, c)
  <2> HIDE DEF n, e
  <2>1. c \in DOMAIN n.byClient /\ n.heap[n.byClient[c]] = e
    BY <1>2, <1>5
  <2>2. IsFinished(e)
    BY <1>3, <1>6 DEF IsFinished
  <2> QED
    BY <2>1, <2>2 DEF CompleteFor
<1>8. t = Answer(r, c, w, kind)
  <2>1. ~s.heap[w].notified /\ s.byClient[c] = w
    BY <1>2, <1>6
  <2> HIDE DEF n
  <2> QED
    BY <1>7, <2>1 DEF CgiEnd, n
<1> HIDE DEF n, r, t, kind, e
<1>9. Loose(n)
  BY <1>4, <1>5, Fields DEF Loose
<1>10. Removed(n, r, w, Buried(p)) /\ r.owed = s.owed
  <2>1. w \in DOMAIN n.heap /\ n.proc[w] = p
    BY <1>5
  <2> HIDE DEF p
  <2> QED
    BY <1>5, <1>9, <2>1, RemoveWorkerIs DEF r
<1>11. Erase(n.heap, {w}) = Erase(s.heap, {w})
  BY <1>4, <1>5 DEF Erase, Restrict
<1>12. Removed(s, r, w, Buried(p))
  <2>1. n.heap[w].client = s.heap[w].client
    BY <1>3, <1>5
  <2> QED
    BY <1>4, <1>5, <1>10, <1>11, <2>1 DEF Removed
<1>13. /\ DOMAIN t = DOMAIN r /\ t.owed = [r.owed EXCEPT ![c] = @ - 1]
       /\ t.last = [client |-> c, worker |-> w, kind |-> kind]
       /\ \A f \in DOMAIN r \ {"owed", "last"} : t[f] = r[f]
  <2>1. DOMAIN r = DOMAIN s
    BY <1>12 DEF Removed
  <2> HIDE DEF c
  <2> QED
    BY <1>8, <2>1, Fields DEF Answer
<1>14. Removed(s, t, w, Buried(p))
  <2>1. DOMAIN r = DOMAIN s
    BY <1>12 DEF Removed
  <2>2. /\ t.heap = r.heap /\ t.list = r.list /\ t.byClient = r.byClient
        /\ t.byPid = r.byPid /\ t.proc = r.proc /\ t.faults = r.faults
        /\ DOMAIN t = DOMAIN r
    BY <1>13, <2>1, Fields
  <2> QED
    BY <1>12, <2>2 DEF Removed
<1>15. t.owed = [s.owed EXCEPT ![c] = 0]
  <2>1. t.owed = [s.owed EXCEPT ![c] = s.owed[c] - 1]
    BY <1>10, <1>13
  <2>2. s.owed[c] - 1 = 0
    BY <1>2
  <2> QED
    BY <2>1, <2>2
<1>16. Buried(p) \in ProcessType /\ ~Alive(Buried(p))
  BY <1>1, BuriedType
<1>17. Inv(t, on \ {c})
  <2>1. DOMAIN t.last = {"client", "worker", "kind"}
    BY <1>13
  <2> QED
    BY <1>14, <1>15, <1>16, <2>1, InvRemoved
<1>18. Inv(t, on)
  <2>1. DOMAIN t.last = {"client", "worker", "kind"}
    BY <1>13
  <2> QED
    BY <1>17, <2>1, InvOfLast
<1>19. Answered(t)
  <2>1. t.last.worker = w /\ t.last.kind = kind
    BY <1>13
  <2>2. kind = IF k.state = "complete" THEN "output"
               ELSE IF k.state = "timeout" THEN "timeout"
               ELSE IF k.parsed /\ p.hdr = "status" THEN "output" ELSE "error"
    BY <1>3, <1>5 DEF kind, AnswerKind, HasStatusHeader
  <2>3. kind # "empty"
    BY <2>2
  <2>4. ASSUME NoLoss, InputFirst
        PROVE  kind = Deserved(t.proc[w])
    <3>1. t.proc[w] = Buried(p)
      BY <1>1, <1>14, Fields DEF Removed
    <3>2. Right(k, p)
      BY <1>1, <2>4
    <3>3. k.state \in {"complete", "error"} /\ k.exitStatusSet /\ ~Alive(p)
      BY <1>6, <3>2 DEF Right
    <3>4. Buried(p).hdr = p.hdr /\ Buried(p).code = p.code
      BY <1>1, <3>3, BuriedType
    <3>5. kind = Deserved(p)
      BY <1>1, <1>6, <2>2, <3>2, <3>3 DEF Right, Deserved, ProcessType
    <3> QED
      BY <3>1, <3>4, <3>5 DEF Deserved
  <2> QED
    BY <2>1, <2>3, <2>4 DEF Answered
<1> QED
  BY <1>18, <1>19 DEF t

(* A new worker, with its entries in the indexes. *)
LEMMA InvAdded ==
    ASSUME NEW s, NEW t, NEW on, NEW c \in Clients, NEW w \in Workers,
           NEW k \in WorkerType, NEW p \in ProcessType,
           Inv(s, on), c \in on, c \notin DOMAIN s.byClient,
           w \notin DOMAIN s.heap, k.client = c,
           DOMAIN t = DOMAIN s, t.faults = s.faults, t.last = s.last,
           t.heap = Put(s.heap, w, k), t.list = s.list \cup {w},
           t.byClient = Put(s.byClient, c, w), t.byPid = s.byPid \cup {w},
           t.proc = [s.proc EXCEPT ![w] = p],
           t.owed = [s.owed EXCEPT ![c] = 1],
           Sane(k, p, TRUE), Told(k, TRUE), Right(k, p)
    PROVE  Inv(t, on)
<1>1. /\ DOMAIN t.heap = DOMAIN s.heap \cup {w} /\ t.heap[w] = k
      /\ \A x \in DOMAIN s.heap : t.heap[x] = s.heap[x]
  BY DEF Put
<1>2. /\ DOMAIN t.byClient = DOMAIN s.byClient \cup {c} /\ t.byClient[c] = w
      /\ \A d \in DOMAIN s.byClient : t.byClient[d] = s.byClient[d]
  BY DEF Put
<1>3. Shape(t)
  <2>1. t.heap \in [DOMAIN t.heap -> WorkerType]
    BY <1>1 DEF Inv, Shape, Put
  <2>2. t.byClient \in [DOMAIN t.byClient -> Workers]
    BY <1>2 DEF Inv, Shape, Put
  <2>3. t.proc \in [Workers -> ProcessType]
    BY DEF Inv, Shape
  <2>4. t.owed \in [Clients -> Int]
    BY DEF Inv, Shape
  <2> QED
    BY <1>1, <1>2, <2>1, <2>2, <2>3, <2>4 DEF Inv, Shape
<1>4. \A x \in t.list : \E d \in DOMAIN t.byClient : t.byClient[d] = x
  <2> SUFFICES ASSUME NEW x \in s.list
               PROVE  \E d \in DOMAIN t.byClient : t.byClient[d] = x
    BY <1>2
  <2>1. PICK d \in DOMAIN s.byClient : s.byClient[d] = x
    BY DEF Inv
  <2> QED
    BY <1>2, <2>1
<1>5. \A d \in DOMAIN t.byClient :
         t.byClient[d] \in t.list /\ t.heap[t.byClient[d]].client = d
  <2> SUFFICES ASSUME NEW d \in DOMAIN s.byClient
               PROVE  t.byClient[d] \in t.list /\ t.heap[t.byClient[d]].client = d
    BY <1>1, <1>2
  <2>1. /\ s.byClient[d] \in s.list /\ s.byClient[d] \in DOMAIN s.heap
        /\ s.heap[s.byClient[d]].client = d
    BY DEF Inv
  <2> QED
    BY <1>1, <1>2, <2>1
<1>6. \A x \in Workers : Alive(t.proc[x]) => x \in t.byPid
  BY DEF Inv, Shape
<1>7. \A d \in Clients : t.owed[d] = IF d \in DOMAIN t.byClient THEN 1 ELSE 0
  BY <1>2 DEF Inv, Shape
<1>8. ASSUME NEW x \in DOMAIN t.heap
      PROVE  WorkerOK(t, x)
  <2>1. CASE x = w
    <3>1. t.proc[x] = p /\ t.heap[x] = k
      BY <1>1, <2>1 DEF Inv, Shape
    <3>2. (x \in t.byPid) = TRUE
      BY <2>1
    <3> QED
      BY <3>1, <3>2 DEF WorkerOK
  <2>2. CASE x # w
    <3>1. t.proc[x] = s.proc[x] /\ t.heap[x] = s.heap[x] /\ x \in DOMAIN s.heap
      BY <1>1, <2>2 DEF Inv, Shape
    <3>2. (x \in t.byPid) = (x \in s.byPid)
      BY <2>2
    <3>3. WorkerOK(s, x)
      BY <3>1 DEF Inv
    <3> QED
      BY <3>1, <3>2, <3>3 DEF WorkerOK
  <2> QED
    BY <2>1, <2>2
<1>9. t.list = DOMAIN t.heap /\ DOMAIN t.byClient \subseteq on /\ t.byPid \subseteq DOMAIN t.heap
  BY <1>1, <1>2 DEF Inv
<1> QED
  BY <1>3, <1>4, <1>5, <1>6, <1>7, <1>8, <1>9 DEF Inv

(* createWorker() when no step of it fails.                                *)
LEMMA CreateWorkerKeeps ==
    ASSUME NEW s, NEW on, NEW c \in on, NEW w \in Workers, NEW body \in BOOLEAN,
           NEW hdr \in {"none", "plain", "status"}, NEW max \in Nat,
           on \subseteq Clients, Inv(s, on), s.owed[c] = 0, s.last = NoAnswer,
           w \notin DOMAIN s.heap \cup s.list
    PROVE  LET t == CreateWorker([s EXCEPT !.owed[c] = @ + 1], c, w, body, hdr, "ok", max)
           IN Inv(t, on) /\ Answered(t)
<1> DEFINE z == [s EXCEPT !.owed[c] = @ + 1]
           k == NewWorker(c, body)
           p == [NoProcess EXCEPT !.st = "forked", !.hdr = hdr]
           made == [[z EXCEPT !.list = @ \cup {w}]
                       EXCEPT !.heap = Put(@, w, k),
                              !.byClient = Put(@, c, w), !.byPid = @ \cup {w},
                              !.proc[w] = p]
           t == CreateWorker(z, c, w, body, hdr, "ok", max)
<1>1. c \in Clients /\ c \notin DOMAIN s.byClient /\ s.owed \in [Clients -> Int]
  BY DEF Inv, Shape
<1>2. /\ DOMAIN z = DOMAIN s /\ z.owed = [s.owed EXCEPT ![c] = 1]
      /\ \A f \in DOMAIN s \ {"owed"} : z[f] = s[f]
  BY <1>1, Fields
<1>3. t = Answer(z, c, "none", "busy") \/ t = made
  BY DEF CreateWorker
<1> HIDE DEF z, t
<1>4. CASE t = Answer(z, c, "none", "busy")
  <2>1. /\ DOMAIN t = DOMAIN s /\ t.owed = [z.owed EXCEPT ![c] = @ - 1]
        /\ t.last = [client |-> c, worker |-> "none", kind |-> "busy"]
        /\ \A f \in DOMAIN s \ {"owed", "last"} : t[f] = z[f]
    <3>1. t = [z EXCEPT !.owed[c] = @ - 1,
                        !.last = [client |-> c, worker |-> "none", kind |-> "busy"]]
      BY <1>4 DEF Answer
    <3>2. DOMAIN z = DOMAIN s /\ {"owed", "last"} \subseteq DOMAIN z
      BY <1>2, Fields
    <3> QED
      BY <3>1, <3>2
  <2>2. t.owed = s.owed
    BY <1>1, <1>2, <2>1
  <2>3. \A f \in DOMAIN s \ {"last"} : t[f] = s[f]
    BY <1>2, <2>1, <2>2
  <2>4. Inv(t, on)
    BY <2>1, <2>3, InvOfLast
  <2>5. Answered(t)
    BY <2>1 DEF Answered
  <2> QED
    BY <2>4, <2>5 DEF t, z
<1>5. CASE t = made
  <2>1. k \in WorkerType /\ k.client = c /\ k.state \in {"sending", "receiving"}
        /\ ~k.notified /\ k.done /\ ~k.bytes /\ ~k.idle /\ ~k.outputComplete
        /\ ~k.exitStatusSet /\ ~k.parsed
    BY <1>1 DEF NewWorker, WorkerType
  <2>2. p \in ProcessType /\ p.st = "forked" /\ ~p.eof /\ ~p.err
    BY DEF NoProcess, ProcessType
  <2> HIDE DEF k, p
  <2>3. Sane(k, p, TRUE) /\ Told(k, TRUE) /\ Right(k, p)
    BY <2>1, <2>2 DEF Sane, Told, Right, Alive
  <2>4. /\ DOMAIN t = DOMAIN z /\ t.list = z.list \cup {w} /\ t.heap = Put(z.heap, w, k)
        /\ t.byClient = Put(z.byClient, c, w) /\ t.byPid = z.byPid \cup {w}
        /\ t.proc = [z.proc EXCEPT ![w] = p]
        /\ t.owed = z.owed /\ t.last = z.last /\ t.faults = z.faults
    BY <1>2, <1>5, Fields
  <2>5. /\ z.list = s.list /\ z.heap = s.heap /\ z.byClient = s.byClient
        /\ z.byPid = s.byPid /\ z.proc = s.proc /\ z.last = s.last /\ z.faults = s.faults
    BY <1>2, Fields
  <2>6. Inv(t, on)
    <3>1. /\ DOMAIN t = DOMAIN s /\ t.list = s.list \cup {w} /\ t.heap = Put(s.heap, w, k)
          /\ t.byClient = Put(s.byClient, c, w) /\ t.byPid = s.byPid \cup {w}
          /\ t.proc = [s.proc EXCEPT ![w] = p]
          /\ t.owed = [s.owed EXCEPT ![c] = 1] /\ t.last = s.last /\ t.faults = s.faults
      BY <1>2, <2>4, <2>5
    <3>2. w \notin DOMAIN s.heap
      OBVIOUS
    <3> QED
      BY <1>1, <2>1, <2>2, <2>3, <3>1, <3>2, InvAdded
  <2>7. Answered(t)
    BY <2>4, <2>5 DEF Answered, NoAnswer
  <2> QED
    BY <2>6, <2>7 DEF t, z
<1> QED
  BY <1>3, <1>4, <1>5

-----------------------------------------------------------------------------
(* The actions.                                                            *)

LEMMA QuietKeeps ==
    ASSUME IInv
    PROVE  /\ Inv(Quiet, alive) /\ Quiet.last = NoAnswer /\ alive \subseteq Clients
           /\ Quiet.heap = cgi.heap /\ Quiet.list = cgi.list /\ Quiet.proc = cgi.proc
           /\ Quiet.byClient = cgi.byClient /\ Quiet.byPid = cgi.byPid
           /\ Quiet.owed = cgi.owed /\ Quiet.faults = cgi.faults
<1> DEFINE t == Quiet
<1>1. Inv(cgi, alive) /\ alive \subseteq Clients
  BY DEF IInv
<1>2. /\ DOMAIN t = DOMAIN cgi /\ t.last = NoAnswer
      /\ \A f \in DOMAIN cgi \ {"last"} : t[f] = cgi[f]
  BY <1>1, Fields DEF Quiet
<1> HIDE DEF t
<1>3. Inv(t, alive)
  <2>1. DOMAIN t.last = {"client", "worker", "kind"}
    BY <1>2 DEF NoAnswer
  <2> QED
    BY <1>1, <1>2, <2>1, InvOfLast
<1>4. /\ t.heap = cgi.heap /\ t.list = cgi.list /\ t.proc = cgi.proc
      /\ t.byClient = cgi.byClient /\ t.byPid = cgi.byPid
      /\ t.owed = cgi.owed /\ t.faults = cgi.faults
  BY <1>1, <1>2, Fields
<1> QED
  BY <1>1, <1>2, <1>3, <1>4 DEF t

LEMMA SilentAnswered ==
    ASSUME NEW t, t.last = NoAnswer
    PROVE  Answered(t)
  BY DEF Answered, NoAnswer

LEMMA RequestKeeps ==
    ASSUME IInv, Ordinary, NEW c \in Clients, NEW w \in Workers, Request(c, w)
    PROVE  Inv(cgi', alive') /\ Answered(cgi')
<1> DEFINE s == Quiet
<1>1. PICK body \in BOOLEAN, hdr \in {"none", "plain", "status"},
           how \in {"ok"} \cup ({"spawn", "register"} \cap Faults) :
         cgi' = CreateWorker([s EXCEPT !.owed[c] = @ + 1], c, w, body, hdr, how, MaxWorkers)
  BY DEF Request
<1>2. how = "ok"
  BY DEF Ordinary
<1>3. /\ Inv(s, alive) /\ s.last = NoAnswer /\ alive \subseteq Clients
      /\ s.heap = cgi.heap /\ s.list = cgi.list /\ s.owed = cgi.owed
  BY QuietKeeps
<1> HIDE DEF s
<1>4. s.owed[c] = 0
  <2>1. cgi.owed[c] < 1
    BY DEF Request, Ordinary
  <2>2. s.owed[c] \in {0, 1}
    BY <1>3 DEF Inv
  <2> QED
    BY <1>3, <2>1, <2>2
<1>5. c \in alive /\ alive' = alive /\ w \notin DOMAIN s.heap \cup s.list
  BY <1>3 DEF Request
<1>6. MaxWorkers \in Nat
  BY CgiAssumption
<1>7. cgi' = CreateWorker([s EXCEPT !.owed[c] = @ + 1], c, w, body, hdr, "ok", MaxWorkers)
  BY <1>1, <1>2
<1>8. Inv(cgi', alive) /\ Answered(cgi')
  BY <1>3, <1>4, <1>5, <1>6, <1>7, CreateWorkerKeeps
<1> QED
  BY <1>5, <1>8

LEMMA CloseClientKeeps ==
    ASSUME IInv, NEW c \in Clients, CloseClient(c)
    PROVE  Inv(cgi', alive') /\ Answered(cgi')
<1> DEFINE s == Quiet
           z == [s EXCEPT !.owed[c] = 0]
<1>1. PICK collected \in BOOLEAN : cgi' = AbortClient(z, c, collected)
  BY DEF CloseClient
<1>2. alive' = alive \ {c}
  BY DEF CloseClient
<1>3. Inv(s, alive) /\ s.last = NoAnswer
  BY QuietKeeps
<1> HIDE DEF s
<1>4. /\ DOMAIN z = DOMAIN s /\ z.owed = [s.owed EXCEPT ![c] = 0]
      /\ \A f \in DOMAIN s \ {"owed"} : z[f] = s[f]
  BY <1>3, Fields
<1> HIDE DEF z
<1>5. /\ z.list = s.list /\ z.heap = s.heap /\ z.byClient = s.byClient
      /\ z.byPid = s.byPid /\ z.proc = s.proc /\ z.last = s.last /\ z.faults = s.faults
  BY <1>3, <1>4, Fields
<1>6. CASE c \notin DOMAIN s.byClient
  <2>1. cgi' = z
    BY <1>1, <1>5, <1>6 DEF AbortClient
  <2>2. z.owed = s.owed
    BY <1>3, <1>4, <1>6 DEF Inv, Shape
  <2>3. Inv(s, alive \ {c})
    BY <1>3, <1>6 DEF Inv
  <2>4. Inv(z, alive \ {c})
    <3>1. \A f \in DOMAIN s \ {"last"} : z[f] = s[f]
      BY <1>4, <2>2
    <3>2. DOMAIN z.last = {"client", "worker", "kind"}
      BY <1>3, <1>5 DEF NoAnswer
    <3> QED
      BY <1>4, <2>3, <3>1, <3>2, InvOfLast
  <2> QED
    BY <1>2, <1>3, <1>5, <2>1, <2>4, SilentAnswered
<1>7. CASE c \in DOMAIN s.byClient
  <2> DEFINE w == s.byClient[c]
             t == AbortClient(z, c, collected)
  <2>1. w \in DOMAIN s.heap /\ s.heap[w].client = c
    BY <1>3, <1>7 DEF Inv
  <2>2. Loose(z)
    BY <1>3, <1>4, <1>5, Fields DEF Loose
  <2> HIDE DEF t
  <2>3. PICK p \in ProcessType : Removed(z, t, w, p) /\ ~Alive(p)
    <3>1. /\ \E p \in ProcessType : Removed(z, t, w, p) /\ ~Alive(p)
          /\ t.owed = z.owed /\ t.last = z.last
      <4>1. c \in DOMAIN z.byClient /\ w = z.byClient[c] /\ w \in DOMAIN z.heap
        BY <1>5, <1>7, <2>1
      <4> HIDE DEF w
      <4> QED
        BY <2>2, <4>1, AbortClientIs DEF t
    <3> QED
      BY <3>1
  <2>4. t.owed = z.owed /\ t.last = z.last
    <3>1. c \in DOMAIN z.byClient /\ w = z.byClient[c] /\ w \in DOMAIN z.heap
      BY <1>5, <1>7, <2>1
    <3> HIDE DEF w
    <3> QED
      BY <2>2, <3>1, AbortClientIs DEF t
  <2>5. Removed(s, t, w, p)
    BY <1>4, <1>5, <2>3 DEF Removed
  <2> HIDE DEF w
  <2>6. Inv(t, alive \ {c})
    <3>1. t.owed = [s.owed EXCEPT ![c] = 0]
      BY <1>4, <2>4
    <3>2. DOMAIN t.last = {"client", "worker", "kind"}
      BY <1>3, <1>5, <2>4 DEF NoAnswer
    <3> QED
      BY <1>3, <2>1, <2>3, <2>5, <3>1, <3>2, InvRemoved
  <2>7. Answered(t)
    BY <1>3, <1>5, <2>4, SilentAnswered
  <2> QED
    BY <1>1, <1>2, <2>6, <2>7 DEF t
<1> QED
  BY <1>6, <1>7

LEMMA AcceptKeeps ==
    ASSUME IInv, NEW c \in Clients, Accept(c)
    PROVE  Inv(cgi', alive') /\ Answered(cgi')
<1>1. cgi' = Quiet /\ alive' = alive \cup {c}
  BY DEF Accept
<1>2. Inv(Quiet, alive) /\ Quiet.last = NoAnswer
  BY QuietKeeps
<1>3. Inv(Quiet, alive \cup {c})
  BY <1>2 DEF Inv
<1> QED
  BY <1>1, <1>2, <1>3, SilentAnswered

(* A child changes as p and no worker sees it. *)
LEMMA ChildKeeps ==
    ASSUME IInv, NEW w \in Workers, NEW p \in ProcessType, UNCHANGED alive,
           cgi' = [Quiet EXCEPT !.proc[w] = p],
           Alive(p) => Alive(cgi.proc[w]),
           w \in DOMAIN cgi.heap =>
              /\ Sane(cgi.heap[w], p, w \in cgi.byPid)
              /\ NoLoss /\ InputFirst => Right(cgi.heap[w], p)
    PROVE  Inv(cgi', alive') /\ Answered(cgi')
<1> DEFINE s == Quiet
           t == [s EXCEPT !.proc[w] = p]
<1>1. /\ Inv(s, alive) /\ s.last = NoAnswer
      /\ s.heap = cgi.heap /\ s.proc = cgi.proc /\ s.byPid = cgi.byPid
  BY QuietKeeps
<1> HIDE DEF s
<1>2. /\ DOMAIN t = DOMAIN s /\ t.proc = [s.proc EXCEPT ![w] = p]
      /\ \A f \in DOMAIN s \ {"proc"} : t[f] = s[f]
  BY <1>1, Fields
<1> HIDE DEF t
<1>3. Inv(t, alive) /\ t.last = s.last
  BY <1>1, <1>2, InvOfChild
<1> QED
  BY <1>1, <1>3, SilentAnswered DEF s, t

LEMMA OfChild ==
    ASSUME IInv, NEW w \in Workers
    PROVE  /\ cgi.proc[w] \in ProcessType
           /\ w \in DOMAIN cgi.heap =>
                 /\ cgi.heap[w] \in WorkerType
                 /\ Sane(cgi.heap[w], cgi.proc[w], w \in cgi.byPid)
                 /\ NoLoss /\ InputFirst => Right(cgi.heap[w], cgi.proc[w])
  BY OfWorker DEF IInv, Inv, Shape

LEMMA ExecKeeps ==
    ASSUME IInv, NEW w \in Workers, Exec(w)
    PROVE  Inv(cgi', alive') /\ Answered(cgi')
<1> DEFINE p == cgi.proc[w]
           q == [p EXCEPT !.st = "running"]
           x == [p EXCEPT !.st = "failed", !.hdr = "none", !.err = TRUE]
<1>1. p \in ProcessType /\ p.st = "forked" /\ UNCHANGED alive /\ Quiet.proc = cgi.proc
  BY OfChild, QuietKeeps DEF Exec
<1>2. Alive(p)
  BY <1>1 DEF Alive
<1>3. CASE cgi' = [Quiet EXCEPT !.proc[w].st = "running"]
  <2>1. cgi' = [Quiet EXCEPT !.proc[w] = q]
    BY <1>1, <1>3
  <2>2. /\ q \in ProcessType /\ q.st = "running" /\ q.hdr = p.hdr /\ q.code = p.code
        /\ q.eof = p.eof /\ q.err = p.err
    BY <1>1 DEF ProcessType
  <2> HIDE DEF q
  <2>3. Alive(q)
    BY <2>2 DEF Alive
  <2>4. w \in DOMAIN cgi.heap => Sane(cgi.heap[w], q, w \in cgi.byPid)
    BY <1>2, <2>2, <2>3, OfChild DEF Sane
  <2>5. w \in DOMAIN cgi.heap =>
           (NoLoss /\ InputFirst => Right(cgi.heap[w], q))
    BY <1>1, <1>2, <2>2, <2>3, OfChild DEF Right
  <2> QED
    BY <1>1, <1>2, <2>1, <2>2, <2>4, <2>5, ChildKeeps
<1>4. CASE cgi' = [Quiet EXCEPT !.proc[w].st = "failed", !.proc[w].hdr = "none",
                                !.proc[w].err = TRUE]
  <2>1. cgi' = [Quiet EXCEPT !.proc[w] = x]
    BY <1>1, <1>4
  <2>2. /\ x \in ProcessType /\ x.st = "failed" /\ x.hdr = "none" /\ x.code = p.code
        /\ x.eof = p.eof /\ x.err
    BY <1>1 DEF ProcessType
  <2> HIDE DEF x
  <2>3. Alive(x)
    BY <2>2 DEF Alive
  <2>4. w \in DOMAIN cgi.heap => Sane(cgi.heap[w], x, w \in cgi.byPid)
    BY <1>2, <2>2, <2>3, OfChild DEF Sane
  <2>5. w \in DOMAIN cgi.heap =>
           (NoLoss /\ InputFirst => Right(cgi.heap[w], x))
    BY <1>1, <1>2, <2>2, <2>3, OfChild DEF Right
  <2> QED
    BY <1>1, <1>2, <2>1, <2>2, <2>4, <2>5, ChildKeeps
<1> QED
  BY <1>3, <1>4 DEF Exec

LEMMA OutputKeeps ==
    ASSUME IInv, NEW w \in Workers, Output(w)
    PROVE  Inv(cgi', alive') /\ Answered(cgi')
<1> DEFINE p == cgi.proc[w]
           q == [p EXCEPT !.data = TRUE]
<1>1. p \in ProcessType /\ UNCHANGED alive /\ Quiet.proc = cgi.proc
  BY OfChild, QuietKeeps DEF Output
<1>2. cgi' = [Quiet EXCEPT !.proc[w] = q]
  BY <1>1 DEF Output
<1>3. /\ q \in ProcessType /\ q.st = p.st /\ q.hdr = p.hdr /\ q.code = p.code
      /\ q.eof = p.eof /\ q.err = p.err
  BY <1>1 DEF ProcessType
<1> HIDE DEF q
<1>4. Alive(q) = Alive(p)
  BY <1>3 DEF Alive
<1>5. w \in DOMAIN cgi.heap => Sane(cgi.heap[w], q, w \in cgi.byPid)
  BY <1>3, <1>4, OfChild DEF Sane
<1>6. w \in DOMAIN cgi.heap => (NoLoss /\ InputFirst => Right(cgi.heap[w], q))
  BY <1>3, <1>4, OfChild DEF Right
<1> QED
  BY <1>1, <1>2, <1>3, <1>4, <1>5, <1>6, ChildKeeps

LEMMA CloseOutputKeeps ==
    ASSUME IInv, NEW w \in Workers, CloseOutput(w)
    PROVE  Inv(cgi', alive') /\ Answered(cgi')
<1> DEFINE p == cgi.proc[w]
           q == [p EXCEPT !.eof = TRUE]
<1>1. /\ p \in ProcessType /\ UNCHANGED alive /\ Quiet.proc = cgi.proc
      /\ p.st = "running"
      /\ InputFirst => (w \in DOMAIN cgi.heap => ~cgi.heap[w].in)
  BY OfChild, QuietKeeps DEF CloseOutput, HasReadInput, Exists, InputFirst
<1>2. cgi' = [Quiet EXCEPT !.proc[w] = q]
  BY <1>1 DEF CloseOutput
<1>3. /\ q \in ProcessType /\ q.st = p.st /\ q.hdr = p.hdr /\ q.code = p.code
      /\ q.eof /\ q.err = p.err
  BY <1>1 DEF ProcessType
<1> HIDE DEF q
<1>4. Alive(q) /\ Alive(p)
  BY <1>1, <1>3 DEF Alive
<1>5. w \in DOMAIN cgi.heap => Sane(cgi.heap[w], q, w \in cgi.byPid)
  BY <1>3, <1>4, OfChild DEF Sane
<1>6. w \in DOMAIN cgi.heap => (NoLoss /\ InputFirst => Right(cgi.heap[w], q))
  BY <1>1, <1>3, <1>4, OfChild DEF Right
<1> QED
  BY <1>1, <1>2, <1>3, <1>4, <1>5, <1>6, ChildKeeps

LEMMA ExitKeeps ==
    ASSUME IInv, NEW w \in Workers, Exit(w)
    PROVE  Inv(cgi', alive') /\ Answered(cgi')
<1>1. PICK code \in {"ok", "bad", "signal"} :
         cgi' = [Quiet EXCEPT !.proc[w].st = "zombie", !.proc[w].eof = TRUE,
                              !.proc[w].code = code]
  BY DEF Exit
<1> DEFINE p == cgi.proc[w]
           q == [p EXCEPT !.st = "zombie", !.eof = TRUE, !.code = code]
<1>2. /\ p \in ProcessType /\ UNCHANGED alive /\ Quiet.proc = cgi.proc
      /\ p.st = "running"
      /\ "unreadBody" \notin Faults => (w \in DOMAIN cgi.heap => ~cgi.heap[w].in)
  BY OfChild, QuietKeeps DEF Exit, HasReadInput, Exists
<1>3. cgi' = [Quiet EXCEPT !.proc[w] = q]
  BY <1>1, <1>2
<1>4. /\ q \in ProcessType /\ q.st = "zombie" /\ q.hdr = p.hdr /\ q.eof /\ q.err = p.err
  BY <1>2 DEF ProcessType
<1> HIDE DEF q
<1>5. Alive(p) /\ ~Alive(q)
  BY <1>2, <1>4 DEF Alive
<1>6. w \in DOMAIN cgi.heap => Sane(cgi.heap[w], q, w \in cgi.byPid)
  BY <1>2, <1>4, <1>5, OfChild DEF Sane
<1>7. w \in DOMAIN cgi.heap => (NoLoss /\ InputFirst => Right(cgi.heap[w], q))
  BY <1>2, <1>4, <1>5, OfChild DEF Right
<1> QED
  BY <1>2, <1>3, <1>4, <1>5, <1>6, <1>7, ChildKeeps

LEMMA ReadOutputKeeps ==
    ASSUME IInv, NEW w \in Workers, ReadOutput(w)
    PROVE  Inv(cgi', alive') /\ Answered(cgi')
<1> DEFINE s == Quiet
           t == Touch(s, w)
<1>1. PICK fails \in {FALSE} \cup (IF "oversize" \in Faults THEN {cgi.proc[w].data} ELSE {}) :
         cgi' = HandleRead(t, w, fails)
  BY DEF ReadOutput
<1>2. /\ w \in DOMAIN cgi.heap /\ cgi.heap[w].out /\ alive' = alive
      /\ cgi.proc[w].data \/ cgi.proc[w].eof
  BY DEF ReadOutput, Exists
<1>3. fails \in BOOLEAN /\ (fails => "oversize" \in Faults)
  BY OfChild DEF ProcessType
<1>4. Inv(s, alive) /\ s.last = NoAnswer /\ s.heap = cgi.heap /\ s.proc = cgi.proc
  BY QuietKeeps
<1> HIDE DEF s
<1>5. /\ Inv(t, alive) /\ t.last = s.last /\ t.proc = s.proc
      /\ DOMAIN t.heap = DOMAIN s.heap /\ t.heap[w].out = s.heap[w].out
  BY <1>2, <1>4, TouchKeeps
<1> HIDE DEF t
<1>6. /\ Inv(HandleRead(t, w, fails), alive) /\ HandleRead(t, w, fails).last = t.last
  BY <1>2, <1>3, <1>4, <1>5, HandleReadKeeps
<1> QED
  BY <1>1, <1>2, <1>4, <1>5, <1>6, SilentAnswered

LEMMA WriteBodyKeeps ==
    ASSUME IInv, NEW w \in Workers, WriteBody(w)
    PROVE  Inv(cgi', alive') /\ Answered(cgi')
<1> DEFINE s == Quiet
           t == Touch(s, w)
<1>1. PICK all \in BOOLEAN : cgi' = HandleWrite(t, w, all)
  BY DEF WriteBody
<1>2. w \in DOMAIN cgi.heap /\ cgi.heap[w].in /\ alive' = alive
  BY DEF WriteBody, Exists
<1>3. Inv(s, alive) /\ s.last = NoAnswer /\ s.heap = cgi.heap
  BY QuietKeeps
<1> HIDE DEF s
<1>4. /\ Inv(t, alive) /\ t.last = s.last
      /\ DOMAIN t.heap = DOMAIN s.heap /\ t.heap[w].in = s.heap[w].in
  BY <1>2, <1>3, TouchKeeps
<1> HIDE DEF t
<1>5. Inv(HandleWrite(t, w, all), alive) /\ HandleWrite(t, w, all).last = t.last
  BY <1>2, <1>3, <1>4, HandleWriteKeeps
<1> QED
  BY <1>1, <1>2, <1>3, <1>4, <1>5, SilentAnswered

LEMMA ErrorExitKeeps ==
    ASSUME IInv, NEW w \in Workers, ErrorExit(w)
    PROVE  Inv(cgi', alive') /\ Answered(cgi')
<1> DEFINE s == Quiet
           t == Touch(s, w)
<1>1. w \in DOMAIN cgi.heap /\ alive' = alive /\ cgi' = HandleErrorExit(t, w)
  BY DEF ErrorExit, Exists
<1>2. Inv(s, alive) /\ s.last = NoAnswer /\ s.heap = cgi.heap
  BY QuietKeeps
<1> HIDE DEF s
<1>3. Inv(t, alive) /\ t.last = s.last /\ DOMAIN t.heap = DOMAIN s.heap
  BY <1>1, <1>2, TouchKeeps
<1> HIDE DEF t
<1>4. Inv(HandleErrorExit(t, w), alive) /\ HandleErrorExit(t, w).last = t.last
  BY <1>1, <1>2, <1>3, HandleErrorExitKeeps
<1> QED
  BY <1>1, <1>2, <1>3, <1>4, SilentAnswered

LEMMA CompleteKeeps ==
    ASSUME IInv, NEW w \in Workers, Complete(w)
    PROVE  Inv(cgi', alive') /\ Answered(cgi')
<1> DEFINE s == Quiet
           t == Touch(s, w)
<1>1. w \in DOMAIN cgi.heap /\ cgi.heap[w].bytes /\ alive' = alive
  BY DEF Complete, Exists
<1>2. cgi.heap[w].client \in alive
  BY <1>1, Owner DEF IInv
<1>3. cgi' = CgiEnd(t, w)
  BY <1>2 DEF Complete
<1>4. Inv(s, alive) /\ s.heap = cgi.heap
  BY QuietKeeps
<1> HIDE DEF s
<1>5. Inv(t, alive) /\ DOMAIN t.heap = DOMAIN s.heap /\ t.heap[w].bytes = s.heap[w].bytes
  BY <1>1, <1>4, TouchKeeps
<1> HIDE DEF t
<1> QED
  BY <1>1, <1>3, <1>4, <1>5, CgiEndKeeps

LEMMA CleanupFinishedWorkersKeeps ==
    ASSUME IInv, CleanupFinishedWorkers
    PROVE  Inv(cgi', alive') /\ Answered(cgi')
  BY QuietKeeps, CleanupFinishedKeeps, SilentAnswered DEF CleanupFinishedWorkers

LEMMA InactiveKeeps ==
    ASSUME IInv, NEW w \in Workers, Inactive(w)
    PROVE  Inv(cgi', alive') /\ Answered(cgi')
<1> DEFINE s == Quiet
           k == s.heap[w]
           q == [k EXCEPT !.idle = TRUE]
           t == [s EXCEPT !.heap[w].idle = TRUE]
<1>1. w \in DOMAIN cgi.heap /\ alive' = alive /\ "timeout" \in Faults /\ cgi' = t
  BY DEF Inactive, Exists
<1>2. Inv(s, alive) /\ s.last = NoAnswer /\ s.heap = cgi.heap
  BY QuietKeeps
<1> HIDE DEF s
<1>3. k \in WorkerType /\ Sane(k, s.proc[w], w \in s.byPid)
  BY <1>1, <1>2, OfWorker
<1>4. /\ DOMAIN t = DOMAIN s /\ t.heap = [s.heap EXCEPT ![w] = q]
      /\ \A f \in DOMAIN s \ {"heap"} : t[f] = s[f]
  BY <1>2, <1>3, Fields
<1>5. /\ q \in WorkerType /\ q.client = k.client /\ q.in = k.in /\ q.out = k.out
      /\ q.state = k.state /\ q.outputComplete = k.outputComplete
      /\ q.exitStatusSet = k.exitStatusSet /\ q.notified = k.notified
      /\ q.bytes = k.bytes /\ q.done = k.done
  BY <1>3 DEF WorkerType
<1> HIDE DEF q, t
<1>6. Sane(q, s.proc[w], w \in s.byPid)
  BY <1>1, <1>3, <1>5 DEF Sane
<1>7. ~NoLoss
  BY <1>1 DEF NoLoss
<1>8. Inv(t, alive) /\ t.last = s.last
  BY <1>1, <1>2, <1>4, <1>5, <1>6, <1>7, InvOfWorker
<1> QED
  BY <1>1, <1>2, <1>8, SilentAnswered

LEMMA CleanupTimedOutWorkersKeeps ==
    ASSUME IInv, NEW w \in Workers, CleanupTimedOutWorkers(w)
    PROVE  Inv(cgi', alive') /\ Answered(cgi')
<1>1. PICK collected, cut : cgi' = TimeOut(Quiet, w, collected, cut)
  BY DEF CleanupTimedOutWorkers
<1>2. w \in DOMAIN cgi.heap /\ alive' = alive
  BY DEF CleanupTimedOutWorkers, IInv, Inv
<1>3. "timeout" \in Faults
  <2>1. cgi.heap[w].idle
    BY <1>2 DEF CleanupTimedOutWorkers, Exists
  <2> QED
    BY <1>2, <2>1, OfChild DEF Sane
<1> QED
  <2>1. Inv(Quiet, alive) /\ Quiet.last = NoAnswer /\ w \in DOMAIN Quiet.heap
    BY <1>2, QuietKeeps
  <2>2. Inv(cgi', alive) /\ cgi'.last = Quiet.last
    <3> DEFINE s == Quiet
               t == cgi'
    <3>1. Inv(s, alive) /\ w \in DOMAIN s.heap /\ t = TimeOut(s, w, collected, cut)
      BY <1>1, <2>1
    <3> HIDE DEF s, t
    <3>2. Inv(t, alive) /\ t.last = s.last
      BY <1>3, <3>1, TimeOutKeeps
    <3> QED
      BY <3>2 DEF s, t
  <2> QED
    BY <1>2, <2>1, <2>2, SilentAnswered

-----------------------------------------------------------------------------
(* The tables stay consistent, with the clients that are connected.        *)
LEMMA InitInv == Init => IInv
<1> SUFFICES ASSUME Init
             PROVE  IInv
  OBVIOUS
<1>1. /\ DOMAIN cgi = {"heap", "list", "byClient", "byPid", "proc", "owed", "last", "faults"}
      /\ cgi.heap = <<>> /\ cgi.list = {} /\ cgi.byClient = <<>> /\ cgi.byPid = {}
      /\ cgi.proc = [w \in Workers |-> NoProcess] /\ cgi.owed = [c \in Clients |-> 0]
      /\ cgi.last = NoAnswer /\ cgi.faults = {} /\ alive = Clients
  BY DEF Init
<1>2. DOMAIN cgi.heap = {} /\ DOMAIN cgi.byClient = {}
  BY <1>1
<1>3. NoProcess \in ProcessType /\ ~Alive(NoProcess)
  BY DEF NoProcess, ProcessType, Alive
<1>4. Shape(cgi)
  <2>1. cgi.heap \in [DOMAIN cgi.heap -> WorkerType]
    BY <1>1, <1>2
  <2>2. cgi.byClient \in [DOMAIN cgi.byClient -> Workers]
    BY <1>1, <1>2
  <2>3. cgi.proc \in [Workers -> ProcessType] /\ cgi.owed \in [Clients -> Int]
    BY <1>1, <1>3
  <2>4. DOMAIN cgi.last = {"client", "worker", "kind"}
    BY <1>1 DEF NoAnswer
  <2> QED
    BY <1>1, <1>2, <2>1, <2>2, <2>3, <2>4 DEF Shape
<1>5. \A w \in Workers : ~Alive(cgi.proc[w])
  BY <1>1, <1>3
<1>6. Inv(cgi, alive)
  BY <1>1, <1>2, <1>4, <1>5 DEF Inv
<1> QED
  BY <1>1, <1>6, SilentAnswered DEF IInv

LEMMA NextInv ==
    ASSUME Ordinary, IInv, [Next]_vars
    PROVE  IInv'
<1> SUFFICES Inv(cgi', alive') /\ Answered(cgi') /\ alive' \subseteq Clients
  BY DEF IInv
<1>1. alive' \subseteq Clients
  BY DEF IInv, Next, vars, CloseClient, Accept, Request, Exec, Output, CloseOutput, Exit,
         Handlers, ReadOutput, WriteBody, ErrorExit, Complete, Inactive,
         CleanupTimedOutWorkers, CleanupFinishedWorkers
<1>2. CASE UNCHANGED vars
  BY <1>2 DEF IInv, vars
<1>3. ASSUME NEW c \in Clients, CloseClient(c)
      PROVE  Inv(cgi', alive') /\ Answered(cgi')
  BY <1>3, CloseClientKeeps
<1>4. ASSUME NEW c \in Clients, Accept(c)
      PROVE  Inv(cgi', alive') /\ Answered(cgi')
  BY <1>4, AcceptKeeps
<1>5. ASSUME NEW c \in Clients, NEW w \in Workers, Request(c, w)
      PROVE  Inv(cgi', alive') /\ Answered(cgi')
  BY <1>5, RequestKeeps
<1>6. ASSUME NEW w \in Workers, Exec(w) \/ Output(w) \/ CloseOutput(w) \/ Exit(w)
      PROVE  Inv(cgi', alive') /\ Answered(cgi')
  BY <1>6, ExecKeeps, OutputKeeps, CloseOutputKeeps, ExitKeeps
<1>7. ASSUME NEW w \in Workers, Handlers(w)
      PROVE  Inv(cgi', alive') /\ Answered(cgi')
  BY <1>7, ReadOutputKeeps, WriteBodyKeeps, ErrorExitKeeps, CompleteKeeps DEF Handlers
<1>8. ASSUME NEW w \in Workers, Inactive(w) \/ CleanupTimedOutWorkers(w)
      PROVE  Inv(cgi', alive') /\ Answered(cgi')
  BY <1>8, InactiveKeeps, CleanupTimedOutWorkersKeeps
<1> QED
  BY <1>1, <1>2, <1>3, <1>4, <1>5, <1>6, <1>7, <1>8, CleanupFinishedWorkersKeeps DEF Next

THEOREM TablesInvariant ==
    ASSUME Ordinary
    PROVE  Spec => []IInv
  BY InitInv, NextInv, PTL DEF Spec

(* The tables hold what their types allow, and no client is owed more than *)
(* one answer.                                                             *)
THEOREM TypeCorrect ==
    ASSUME Ordinary
    PROVE  Spec => []TypeOK
<1>1. ASSUME IInv PROVE TypeOK
  <2>1. Shape(cgi) /\ alive \subseteq Clients
    BY <1>1 DEF IInv, Inv
  <2>2. \A c \in Clients : cgi.owed[c] \in 0..2
    BY <1>1 DEF IInv, Inv
  <2>3. cgi.owed \in [Clients -> 0..2]
    BY <2>1, <2>2 DEF Shape
  <2> QED
    BY <2>1, <2>3 DEF TypeOK, Shape, WorkerType, ProcessType
<1> QED
  BY <1>1, TablesInvariant, PTL

(* CgiManager's list of workers and its two indexes hold the same workers, *)
(* whatever the order of the handlers, the children and the clients.       *)
THEOREM IndexesStayInStep ==
    ASSUME Ordinary
    PROVE  Spec => []IndexesAgree
<1>1. ASSUME IInv PROVE IndexesAgree
  <2>1. Inv(cgi, alive)
    BY <1>1 DEF IInv
  <2>2. cgi.list = {cgi.byClient[c] : c \in DOMAIN cgi.byClient}
    BY <2>1 DEF Inv
  <2>3. \A w \in cgi.byPid : w \in cgi.list /\ cgi.proc[w].st # "none"
    BY <2>1 DEF Inv, WorkerOK, Sane
  <2> QED
    BY <2>1, <2>2, <2>3 DEF IndexesAgree, Inv
<1> QED
  BY <1>1, TablesInvariant, PTL

(* Every request that a script has is answered at most once, and none is   *)
(* left without a worker that will answer it.                              *)
THEOREM RequestsKeepTheirWorker ==
    ASSUME Ordinary
    PROVE  Spec => []RequestHasWorker
<1>1. ASSUME IInv PROVE RequestHasWorker
  <2>1. Inv(cgi, alive)
    BY <1>1 DEF IInv
  <2> SUFFICES ASSUME NEW c \in Clients
               PROVE  IF c \in DOMAIN cgi.byClient
                      THEN cgi.owed[c] = 1 /\ ~cgi.heap[cgi.byClient[c]].notified
                      ELSE cgi.owed[c] = 0
    BY DEF RequestHasWorker
  <2>2. CASE c \in DOMAIN cgi.byClient
    <3>1. cgi.byClient[c] \in DOMAIN cgi.heap
      BY <2>1, <2>2 DEF Inv
    <3>2. Sane(cgi.heap[cgi.byClient[c]], cgi.proc[cgi.byClient[c]],
               cgi.byClient[c] \in cgi.byPid)
      BY <2>1, <3>1 DEF Inv, WorkerOK
    <3> QED
      BY <2>1, <2>2, <3>2 DEF Inv, Sane
  <2>3. CASE c \notin DOMAIN cgi.byClient
    BY <2>1, <2>3 DEF Inv
  <2> QED
    BY <2>2, <2>3
<1> QED
  BY <1>1, TablesInvariant, PTL

(* The event of the completion pair always finds its worker finished: the  *)
(* empty response is never sent in the place of the answer.                *)
THEOREM NoAnswerIsEmpty ==
    ASSUME Ordinary
    PROVE  Spec => []NoEmptyAnswer
<1>1. ASSUME IInv PROVE NoEmptyAnswer
  BY <1>1 DEF IInv, Answered, NoEmptyAnswer
<1> QED
  BY <1>1, TablesInvariant, PTL

(* With scripts that read their input no SIGPIPE is raised, and no handler *)
(* meets a worker or a client that was deleted.                            *)
THEOREM NothingFaults ==
    ASSUME Ordinary, "unreadBody" \notin Faults
    PROVE  Spec => []NoFault
<1>1. ASSUME IInv PROVE NoFault
  BY <1>1 DEF IInv, Inv, Shape, NoFault
<1> QED
  BY <1>1, TablesInvariant, PTL

(* Unless its output was cut or its time was up, a worker whose output has *)
(* ended and whose child was collected has a byte waiting for its client.  *)
THEOREM EndIsTold ==
    ASSUME Ordinary, NoLoss
    PROVE  Spec => []EndedIsNotified
<1>1. ASSUME IInv PROVE EndedIsNotified
  <2> SUFFICES ASSUME NEW w \in DOMAIN cgi.heap,
                      cgi.heap[w].outputComplete, cgi.proc[w].st = "none"
               PROVE  cgi.heap[w].bytes
    BY DEF EndedIsNotified
  <2>1. /\ Sane(cgi.heap[w], cgi.proc[w], w \in cgi.byPid)
        /\ Told(cgi.heap[w], w \in cgi.byPid)
    BY <1>1 DEF IInv, Inv, WorkerOK
  <2> QED
    BY <2>1 DEF Sane, Told
<1> QED
  BY <1>1, TablesInvariant, PTL

(* With scripts that read their input before they close their output, the  *)
(* answer is decided by the script and not by the order of the events.     *)
THEOREM AnswerIsDeserved ==
    ASSUME Ordinary, NoLoss, InputFirst
    PROVE  Spec => []AnswerDependsOnScript
<1>1. ASSUME IInv PROVE AnswerDependsOnScript
  BY <1>1 DEF IInv, Answered, AnswerDependsOnScript
<1> QED
  BY <1>1, TablesInvariant, PTL

-----------------------------------------------------------------------------
(* No child outlives its worker unkilled, whatever fails.                  *)
Guarded(s) == Loose(s) /\ \A w \in Workers : Alive(s.proc[w]) => w \in s.byPid

(* The workers of s may go or change, their children stay.                 *)
LEMMA GuardedHeap ==
    ASSUME NEW s, NEW t, Guarded(s), DOMAIN t = DOMAIN s,
           DOMAIN t.heap \subseteq Workers, t.byPid = s.byPid, t.proc = s.proc
    PROVE  Guarded(t)
  BY DEF Guarded, Loose

LEMMA GuardedChild ==
    ASSUME NEW s, NEW t, NEW w, NEW p \in ProcessType, Guarded(s),
           DOMAIN t = DOMAIN s, DOMAIN t.heap \subseteq Workers,
           t.proc = [s.proc EXCEPT ![w] = p],
           Alive(p) => w \in t.byPid,
           s.byPid \ {w} \subseteq t.byPid
    PROVE  Guarded(t)
<1>1. t.proc \in [Workers -> ProcessType]
  BY DEF Guarded, Loose
<1>2. \A x \in Workers : Alive(t.proc[x]) => x \in t.byPid
  <2> SUFFICES ASSUME NEW x \in Workers, Alive(t.proc[x])
               PROVE  x \in t.byPid
    OBVIOUS
  <2>1. CASE x = w
    BY <2>1 DEF Guarded, Loose
  <2>2. CASE x # w
    BY <2>2 DEF Guarded, Loose
  <2> QED
    BY <2>1, <2>2
<1> QED
  BY <1>1, <1>2 DEF Guarded, Loose

LEMMA GuardedGhost ==
    ASSUME NEW s, Guarded(s), NEW c, NEW w, NEW kind, NEW f, NEW owed
    PROVE  /\ Guarded(Answer(s, c, w, kind)) /\ Guarded(Fault(s, f))
           /\ Guarded([s EXCEPT !.owed[c] = owed])
<1>1. DOMAIN s = {"heap", "list", "byClient", "byPid", "proc", "owed", "last", "faults"}
      /\ DOMAIN s.heap \subseteq Workers
  BY DEF Guarded, Loose
<1> DEFINE a == Answer(s, c, w, kind)
           b == Fault(s, f)
           d == [s EXCEPT !.owed[c] = owed]
<1>2. DOMAIN a = DOMAIN s /\ a.heap = s.heap /\ a.byPid = s.byPid /\ a.proc = s.proc
  BY <1>1 DEF Answer
<1>3. DOMAIN b = DOMAIN s /\ b.heap = s.heap /\ b.byPid = s.byPid /\ b.proc = s.proc
  BY <1>1 DEF Fault
<1>4. DOMAIN d = DOMAIN s /\ d.heap = s.heap /\ d.byPid = s.byPid /\ d.proc = s.proc
  BY <1>1
<1> HIDE DEF a, b, d
<1>5. Guarded(a) /\ Guarded(b) /\ Guarded(d)
  BY <1>1, <1>2, <1>3, <1>4, GuardedHeap
<1> QED
  BY <1>5 DEF a, b, d

LEMMA GuardedKilled ==
    ASSUME NEW s, NEW w \in Workers, Guarded(s)
    PROVE  /\ Guarded(Killed(s, w))
           /\ ~Alive(Killed(s, w).proc[w]) /\ Killed(s, w).proc[w] \in ProcessType
           /\ Killed(s, w).heap = s.heap /\ Killed(s, w).byPid = s.byPid
           /\ DOMAIN Killed(s, w) = DOMAIN s
           /\ Killed(s, w).proc = [s.proc EXCEPT ![w] = Dead(s.proc[w])]
<1> DEFINE t == Killed(s, w)
           p == Dead(s.proc[w])
<1>1. s.proc[w] \in ProcessType /\ Loose(s) /\ DOMAIN s.heap \subseteq Workers
  BY DEF Guarded, Loose
<1>2. p \in ProcessType /\ ~Alive(p)
  BY <1>1, DeadType
<1>3. /\ DOMAIN t = DOMAIN s /\ t.proc = [s.proc EXCEPT ![w] = p]
      /\ \A f \in DOMAIN s \ {"proc"} : t[f] = s[f]
  BY <1>1, KilledIs
<1> HIDE DEF t, p
<1>4. t.heap = s.heap /\ t.byPid = s.byPid /\ t.proc[w] = p
  BY <1>1, <1>3 DEF Loose
<1>5. Guarded(t)
  BY <1>1, <1>2, <1>3, <1>4, GuardedChild
<1> QED
  BY <1>2, <1>3, <1>4, <1>5 DEF t, p

(* Also when the worker has been deleted already.                          *)
LEMMA GuardedRemove ==
    ASSUME NEW s, NEW w, Guarded(s)
    PROVE  Guarded(RemoveWorker(s, w))
<1> DEFINE t == RemoveWorker(s, w)
           k == IF s.proc[w].st = "zombie" THEN [s EXCEPT !.proc[w].st = "none"]
                ELSE Killed(s, w)
<1>1. /\ DOMAIN s = {"heap", "list", "byClient", "byPid", "proc", "owed", "last", "faults"}
      /\ DOMAIN s.heap \subseteq Workers /\ s.proc \in [Workers -> ProcessType] /\ Loose(s)
  BY DEF Guarded, Loose
<1>2. t = [k EXCEPT !.list = @ \ {w}, !.byClient = Erase(@, {s.heap[w].client}),
                    !.byPid = @ \ {w}, !.heap = Erase(@, {w})]
  BY DEF RemoveWorker
<1>3. CASE w \in Workers
  <2> DEFINE p == Buried(s.proc[w])
  <2>1. s.proc[w] \in ProcessType
    BY <1>1, <1>3
  <2>2. /\ DOMAIN k = DOMAIN s
        /\ k.proc = [s.proc EXCEPT ![w] = p]
        /\ \A f \in DOMAIN s \ {"proc"} : k[f] = s[f]
    <3>1. CASE s.proc[w].st = "zombie"
      BY <1>1, <2>1, <3>1 DEF Buried
    <3>2. CASE s.proc[w].st # "zombie"
      BY <1>1, <1>3, <2>1, <3>2, KilledIs DEF Buried
    <3> QED
      BY <3>1, <3>2
  <2>3. p \in ProcessType /\ ~Alive(p)
    BY <2>1, BuriedType
  <2> HIDE DEF t, k, p
  <2>4. /\ DOMAIN t = DOMAIN s /\ t.proc = [s.proc EXCEPT ![w] = p]
        /\ t.byPid = s.byPid \ {w} /\ DOMAIN t.heap \subseteq Workers
    BY <1>1, <1>2, <2>2 DEF Erase, Restrict
  <2>5. Guarded(t)
    BY <2>3, <2>4, GuardedChild
  <2> QED
    BY <2>5 DEF t
<1>4. CASE w \notin Workers
  <2>1. /\ DOMAIN k = DOMAIN s /\ k.proc = s.proc
        /\ \A f \in DOMAIN s \ {"proc"} : k[f] = s[f]
    <3>1. CASE s.proc[w].st = "zombie"
      BY <1>1, <1>4, <3>1
    <3>2. CASE s.proc[w].st # "zombie"
      BY <1>1, <1>4, <3>2 DEF Killed
    <3> QED
      BY <3>1, <3>2
  <2> HIDE DEF t, k
  <2>2. /\ DOMAIN t = DOMAIN s /\ t.proc = s.proc
        /\ t.byPid = s.byPid \ {w} /\ DOMAIN t.heap \subseteq Workers
    BY <1>1, <1>2, <2>1 DEF Erase, Restrict
  <2>3. Guarded(t)
    BY <1>1, <1>4, <2>2 DEF Guarded, Loose
  <2> QED
    BY <2>3 DEF t
<1> QED
  BY <1>3, <1>4

LEMMA GuardedAbort ==
    ASSUME NEW s, NEW c, NEW collected \in BOOLEAN, Guarded(s)
    PROVE  Guarded(AbortClient(s, c, collected))
<1> DEFINE w == s.byClient[c]
           t == AbortClient(s, c, collected)
<1>1. CASE c \notin DOMAIN s.byClient
  BY <1>1 DEF AbortClient
<1>2. CASE c \in DOMAIN s.byClient /\ w \notin DOMAIN s.heap
  BY <1>2, GuardedGhost DEF AbortClient
<1>3. CASE c \in DOMAIN s.byClient /\ w \in DOMAIN s.heap
  <2>1. Loose(s)
    BY DEF Guarded
  <2> HIDE DEF t, w
  <2>2. PICK p \in ProcessType : Removed(s, t, w, p) /\ ~Alive(p)
    <3>1. w = s.byClient[c]
      BY DEF w
    <3> QED
      BY <1>3, <2>1, <3>1, AbortClientIs DEF t
  <2>3. DOMAIN t.heap \subseteq Workers
    BY <2>1, <2>2 DEF Removed, Erase, Restrict, Loose
  <2>4. Guarded(t)
    BY <2>2, <2>3, GuardedChild DEF Removed
  <2> QED
    BY <2>4 DEF t
<1> QED
  BY <1>1, <1>2, <1>3

LEMMA GuardedCleanupFinished ==
    ASSUME NEW s, Guarded(s)
    PROVE  Guarded(CleanupFinished(s))
<1> DEFINE t == CleanupFinished(s)
           ended == {w \in DOMAIN s.proc : s.proc[w].st = "zombie"}
<1>1. /\ DOMAIN s = {"heap", "list", "byClient", "byPid", "proc", "owed", "last", "faults"}
      /\ DOMAIN s.heap \subseteq Workers /\ s.proc \in [Workers -> ProcessType]
  BY DEF Guarded, Loose
<1>2. /\ DOMAIN t = DOMAIN s /\ DOMAIN t.heap = DOMAIN s.heap /\ t.byPid = s.byPid \ ended
      /\ t.proc = [w \in DOMAIN s.proc |->
                      IF w \in ended THEN [s.proc[w] EXCEPT !.st = "none"] ELSE s.proc[w]]
  BY <1>1 DEF CleanupFinished
<1>3. ASSUME NEW w \in Workers
      PROVE  /\ t.proc[w] \in ProcessType
             /\ Alive(t.proc[w]) => w \notin ended /\ t.proc[w] = s.proc[w]
  <2>1. s.proc[w] \in ProcessType
    BY <1>1
  <2>2. CASE w \in ended
    BY <1>1, <1>2, <2>1, <2>2 DEF ProcessType, Alive
  <2>3. CASE w \notin ended
    BY <1>1, <1>2, <2>1, <2>3
  <2> QED
    BY <2>2, <2>3
<1>4. t.proc \in [Workers -> ProcessType]
  BY <1>1, <1>2, <1>3
<1> HIDE DEF t
<1>5. Guarded(t)
  BY <1>1, <1>2, <1>3, <1>4 DEF Guarded, Loose
<1> QED
  BY <1>5 DEF t

(* The changes that leave every child and the table of pids alone.         *)
Same(s, t) ==
    /\ DOMAIN t = DOMAIN s /\ DOMAIN t.heap \subseteq DOMAIN s.heap
    /\ t.byPid = s.byPid /\ t.proc = s.proc

LEMMA GuardedSame ==
    ASSUME NEW s, NEW t, Guarded(s), Same(s, t)
    PROVE  Guarded(t)
  BY GuardedHeap DEF Guarded, Loose, Same

LEMMA GuardedSignal ==
    ASSUME NEW s, NEW w, Guarded(s)
    PROVE  Guarded(SignalIfFinished(s, w))
<1> DEFINE t == [s EXCEPT !.heap[w].bytes = TRUE]
<1>1. Same(s, t)
  BY DEF Guarded, Loose, Same
<1>2. Guarded(t)
  BY <1>1, GuardedSame
<1> QED
  BY <1>2, GuardedGhost DEF SignalIfFinished, Signal

LEMMA GuardedTouch ==
    ASSUME NEW s, NEW w, Guarded(s)
    PROVE  /\ Guarded(Touch(s, w)) /\ Touch(s, w).proc = s.proc
           /\ DOMAIN Touch(s, w).heap = DOMAIN s.heap
<1> DEFINE t == Touch(s, w)
<1>1. Same(s, t) /\ t.proc = s.proc /\ DOMAIN t.heap = DOMAIN s.heap
  BY DEF Guarded, Loose, Same, Touch
<1> HIDE DEF t
<1>2. Guarded(t)
  BY <1>1, GuardedSame
<1> QED
  BY <1>1, <1>2 DEF t

LEMMA GuardedRead ==
    ASSUME NEW s, NEW w \in Workers, Guarded(s), NEW fails \in BOOLEAN
    PROVE  Guarded(HandleRead(s, w, fails))
<1>1. CASE fails
  <2> DEFINE r == [s EXCEPT !.heap[w].state = "error", !.heap[w].out = FALSE,
                            !.heap[w].outputComplete = TRUE]
  <2>1. Same(s, r)
    BY DEF Guarded, Loose, Same
  <2>2. HandleRead(s, w, fails) = CleanupFinished(r)
    BY <1>1 DEF HandleRead, ReadFails
  <2> HIDE DEF r
  <2> QED
    BY <2>1, <2>2, GuardedSame, GuardedCleanupFinished
<1>2. CASE ~fails /\ s.proc[w].data
  <2> DEFINE t == [s EXCEPT !.proc[w].data = FALSE]
             p == [s.proc[w] EXCEPT !.data = FALSE]
  <2>1. HandleRead(s, w, fails) = t
    BY <1>2 DEF HandleRead
  <2>2. s.proc[w] \in ProcessType
    BY DEF Guarded, Loose
  <2>3. p \in ProcessType /\ (Alive(p) => w \in s.byPid)
    BY <2>2 DEF Guarded, ProcessType, Alive
  <2>4. /\ DOMAIN t = DOMAIN s /\ DOMAIN t.heap \subseteq Workers /\ t.byPid = s.byPid
        /\ t.proc = [s.proc EXCEPT ![w] = p]
    BY DEF Guarded, Loose
  <2> HIDE DEF t, p
  <2> QED
    BY <2>1, <2>3, <2>4, GuardedChild
<1>3. CASE ~fails /\ ~s.proc[w].data
  <2> DEFINE state == IF s.proc[w].hdr = "none" THEN "error"
                      ELSE IF s.heap[w].state \in {"error", "timeout"} THEN s.heap[w].state
                      ELSE "complete"
             r == [s EXCEPT !.heap[w].out = FALSE, !.heap[w].parsed = TRUE,
                            !.heap[w].state = state, !.heap[w].outputComplete = TRUE]
  <2>1. HandleRead(s, w, fails) = SignalIfFinished(r, w)
    BY <1>3 DEF HandleRead, ReadEnds
  <2> HIDE DEF state
  <2>2. Same(s, r)
    BY DEF Guarded, Loose, Same
  <2> HIDE DEF r
  <2> QED
    BY <2>1, <2>2, GuardedSame, GuardedSignal
<1> QED
  BY <1>1, <1>2, <1>3

LEMMA GuardedWrite ==
    ASSUME NEW s, NEW w \in Workers, Guarded(s), NEW all \in BOOLEAN
    PROVE  Guarded(HandleWrite(s, w, all))
<1> DEFINE x == [s EXCEPT !.heap[w].in = FALSE]
           y == [s EXCEPT !.heap[w].in = ~all,
                          !.heap[w].state = IF all THEN "receiving" ELSE @]
<1>1. HandleWrite(s, w, all) \in {x, y, Fault(s, "sigpipe")}
  BY DEF HandleWrite
<1>2. Same(s, x) /\ Same(s, y)
  BY DEF Guarded, Loose, Same
<1> HIDE DEF x, y
<1> QED
  BY <1>1, <1>2, GuardedSame, GuardedGhost

LEMMA GuardedErrorExit ==
    ASSUME NEW s, NEW w \in Workers, Guarded(s)
    PROVE  Guarded(HandleErrorExit(s, w))
<1> DEFINE d == Killed(s, w)
           r == [d EXCEPT !.heap[w].state = "error", !.heap[w].status = FALSE,
                          !.heap[w].outputComplete = TRUE, !.heap[w].exitStatusSet = TRUE]
<1>1. HandleErrorExit(s, w) = s \/ HandleErrorExit(s, w) = SignalIfFinished(r, w)
  BY DEF HandleErrorExit
<1>2. Guarded(d)
  BY GuardedKilled
<1> HIDE DEF d
<1>3. Same(d, r)
  BY <1>2 DEF Guarded, Loose, Same
<1> HIDE DEF r
<1> QED
  BY <1>1, <1>2, <1>3, GuardedSame, GuardedSignal

LEMMA GuardedCgiEnd ==
    ASSUME NEW s, NEW w \in Workers, Guarded(s)
    PROVE  Guarded(CgiEnd(s, w))
<1> DEFINE c == s.heap[w].client
           x == [s EXCEPT !.heap[w].bytes = FALSE]
           n == [s EXCEPT !.heap[w].bytes = FALSE, !.heap[w].notified = TRUE,
                          !.heap[w].done = FALSE]
           found == s.byClient[c]
           a == Answer(RemoveWorker(n, found), c, found, AnswerKind(n, found))
<1>1. \/ CgiEnd(s, w) = x
      \/ CgiEnd(s, w) = a
      \/ CgiEnd(s, w) = Fault(a, "freed")
      \/ CgiEnd(s, w) = Answer(n, c, w, "empty")
  BY DEF CgiEnd
<1>2. Same(s, x) /\ Same(s, n)
  BY DEF Guarded, Loose, Same
<1> HIDE DEF x, n, found, c
<1>3. Guarded(x) /\ Guarded(n)
  BY <1>2, GuardedSame
<1>4. Guarded(a)
  BY <1>3, GuardedRemove, GuardedGhost
<1>5. Guarded(Answer(n, c, w, "empty"))
  BY <1>3, GuardedGhost
<1> HIDE DEF a
<1>6. Guarded(Fault(a, "freed"))
  BY <1>4, GuardedGhost
<1> QED
  BY <1>1, <1>3, <1>4, <1>5, <1>6

LEMMA GuardedTimeOut ==
    ASSUME NEW s, NEW w \in Workers, Guarded(s),
           NEW collected, NEW cut, NEW n, n = TimeOut(s, w, collected, cut)
    PROVE  Guarded(n)
<1> DEFINE d == Killed(s, w)
           x == d.proc[w]
           p == [x EXCEPT !.st = IF collected THEN "none" ELSE @,
                          !.hdr = IF cut /\ Alive(s.proc[w]) THEN "none" ELSE @]
           t == [d EXCEPT !.byPid = @ \ {w}, !.heap[w].state = "timeout",
                          !.proc[w].st = IF collected THEN "none" ELSE @,
                          !.proc[w].hdr = IF cut /\ Alive(s.proc[w]) THEN "none" ELSE @]
<1>1. n = Fault(s, "freed") \/ n = t
  BY DEF TimeOut
<1>2. Guarded(d) /\ x \in ProcessType /\ ~Alive(x)
  BY GuardedKilled
<1> HIDE DEF d
<1>3. /\ DOMAIN t = DOMAIN d /\ DOMAIN t.heap \subseteq Workers /\ t.byPid = d.byPid \ {w}
  BY <1>2 DEF Guarded, Loose
<1>4. t.proc = [d.proc EXCEPT ![w] = p]
  <2>1. t.proc = [d.proc EXCEPT ![w].st = IF collected THEN "none" ELSE @,
                                ![w].hdr = IF cut /\ Alive(s.proc[w]) THEN "none" ELSE @]
    BY <1>2 DEF Guarded, Loose
  <2>2. [d.proc EXCEPT ![w].st = IF collected THEN "none" ELSE @,
                       ![w].hdr = IF cut /\ Alive(s.proc[w]) THEN "none" ELSE @]
           = [d.proc EXCEPT ![w] = p]
    OBVIOUS
  <2> QED
    BY <2>1, <2>2
<1>5. p \in ProcessType /\ ~Alive(p)
  <2> HIDE DEF x
  <2> QED
    BY <1>2 DEF ProcessType, Alive
<1> HIDE DEF t, p, x
<1>6. Guarded(t)
  BY <1>2, <1>3, <1>4, <1>5, GuardedChild
<1> QED
  BY <1>1, <1>6, GuardedGhost

LEMMA GuardedCreate ==
    ASSUME NEW s, NEW c, NEW w \in Workers, NEW body, NEW hdr \in {"none", "plain", "status"},
           NEW how, NEW max, Guarded(s),
           NEW t, t = CreateWorker(s, c, w, body, hdr, how, max)
    PROVE  Guarded(t)
<1> DEFINE k == NewWorker(c, body)
           p == [NoProcess EXCEPT !.st = "forked", !.hdr = hdr]
           broken == [NewWorker(c, FALSE) EXCEPT
                        !.state = "error", !.out = FALSE, !.status = FALSE,
                        !.outputComplete = TRUE, !.exitStatusSet = TRUE, !.done = FALSE]
           listed == [s EXCEPT !.list = @ \cup {w}]
           spawned == [listed EXCEPT !.heap = Put(@, w, broken)]
           made == [listed EXCEPT !.heap = Put(@, w, k),
                                  !.byClient = Put(@, c, w), !.byPid = @ \cup {w},
                                  !.proc[w] = p]
           dropped == [Killed(made, w) EXCEPT !.heap = Erase(@, {w})]
<1>1. t \in {Answer(s, c, "none", "busy"), Answer(spawned, c, "none", "error"),
             Answer(dropped, c, "none", "error"), made}
  BY DEF CreateWorker
<1>2. /\ DOMAIN s = {"heap", "list", "byClient", "byPid", "proc", "owed", "last", "faults"}
      /\ DOMAIN s.heap \subseteq Workers
  BY DEF Guarded, Loose
<1>3. p \in ProcessType
  BY DEF NoProcess, ProcessType
<1> HIDE DEF k, p, broken
<1>4. /\ DOMAIN spawned = DOMAIN s /\ spawned.byPid = s.byPid /\ spawned.proc = s.proc
      /\ DOMAIN spawned.heap \subseteq Workers
  BY <1>2 DEF Put
<1>5. /\ DOMAIN made = DOMAIN s /\ made.byPid = s.byPid \cup {w}
      /\ made.proc = [s.proc EXCEPT ![w] = p] /\ DOMAIN made.heap \subseteq Workers
  BY <1>2 DEF Put
<1> HIDE DEF spawned, made
<1>6. Guarded(spawned)
  BY <1>4, GuardedHeap
<1>7. Guarded(made)
  BY <1>3, <1>5, GuardedChild
<1>8. Guarded(dropped)
  <2> DEFINE d == Killed(made, w)
  <2>1. Guarded(d) /\ DOMAIN d = DOMAIN made
    BY <1>7, GuardedKilled
  <2> HIDE DEF d
  <2>2. Same(d, dropped)
    BY <1>2, <1>5, <2>1 DEF Same, Erase, Restrict, d
  <2> HIDE DEF dropped
  <2> QED
    BY <2>1, <2>2, GuardedSame
<1> HIDE DEF dropped
<1>9. /\ Guarded(Answer(s, c, "none", "busy"))
      /\ Guarded(Answer(spawned, c, "none", "error"))
      /\ Guarded(Answer(dropped, c, "none", "error"))
  BY <1>6, <1>8, GuardedGhost
<1> QED
  BY <1>1, <1>7, <1>9

LEMMA GuardedQuiet ==
    ASSUME Guarded(cgi)
    PROVE  /\ Guarded(Quiet) /\ Quiet.proc = cgi.proc /\ Quiet.byPid = cgi.byPid
           /\ Quiet.heap = cgi.heap
<1> DEFINE t == Quiet
<1>1. /\ DOMAIN t = DOMAIN cgi /\ t.heap = cgi.heap /\ t.byPid = cgi.byPid
      /\ t.proc = cgi.proc /\ DOMAIN cgi.heap \subseteq Workers
  BY DEF Quiet, Guarded, Loose
<1> HIDE DEF t
<1>2. Guarded(t)
  BY <1>1, GuardedHeap
<1> QED
  BY <1>1, <1>2 DEF t

(* A step of the child w: it ends, or it was alive before. *)
LEMMA GuardedOfChild ==
    ASSUME Guarded(cgi), NEW w \in Workers, NEW p \in ProcessType,
           Alive(p) => Alive(cgi.proc[w]), cgi' = [Quiet EXCEPT !.proc[w] = p]
    PROVE  Guarded(cgi')
<1> DEFINE s == Quiet
           t == cgi'
<1>1. Guarded(s) /\ s.proc = cgi.proc /\ t = [s EXCEPT !.proc[w] = p]
  BY GuardedQuiet
<1>2. Alive(p) => Alive(s.proc[w])
  BY <1>1
<1> HIDE DEF s, t
<1>3. /\ DOMAIN t = DOMAIN s /\ DOMAIN t.heap \subseteq Workers /\ t.byPid = s.byPid
      /\ t.proc = [s.proc EXCEPT ![w] = p]
  BY <1>1 DEF Guarded, Loose
<1>4. Alive(p) => w \in t.byPid
  BY <1>1, <1>2, <1>3 DEF Guarded
<1>5. Guarded(t)
  BY <1>1, <1>3, <1>4, GuardedChild
<1> QED
  BY <1>5 DEF t

LEMMA GuardedLife ==
    ASSUME Guarded(cgi), NEW w \in Workers, Exec(w) \/ Output(w) \/ CloseOutput(w) \/ Exit(w)
    PROVE  Guarded(cgi')
<1> DEFINE p == cgi.proc[w]
<1>1. p \in ProcessType /\ Quiet.proc = cgi.proc
  BY GuardedQuiet DEF Guarded, Loose
<1>2. CASE Exec(w)
  <2> DEFINE q == [p EXCEPT !.st = "running"]
             x == [p EXCEPT !.st = "failed", !.hdr = "none", !.err = TRUE]
  <2>1. \/ cgi' = [Quiet EXCEPT !.proc[w].st = "running"]
        \/ cgi' = [Quiet EXCEPT !.proc[w].st = "failed", !.proc[w].hdr = "none",
                                !.proc[w].err = TRUE]
    BY <1>2 DEF Exec
  <2>2. cgi' = [Quiet EXCEPT !.proc[w] = q] \/ cgi' = [Quiet EXCEPT !.proc[w] = x]
    <3>1. CASE cgi' = [Quiet EXCEPT !.proc[w].st = "running"]
      BY <1>1, <3>1
    <3>2. CASE cgi' = [Quiet EXCEPT !.proc[w].st = "failed", !.proc[w].hdr = "none",
                                    !.proc[w].err = TRUE]
      BY <1>1, <3>2
    <3> QED
      BY <2>1, <3>1, <3>2
  <2>3. q \in ProcessType /\ x \in ProcessType
    BY <1>1 DEF ProcessType
  <2>4. Alive(p)
    BY <1>2 DEF Exec, Alive
  <2> HIDE DEF q, x
  <2> QED
    BY <2>2, <2>3, <2>4, GuardedOfChild
<1>3. CASE Output(w)
  <2> DEFINE q == [p EXCEPT !.data = TRUE]
  <2>1. cgi' = [Quiet EXCEPT !.proc[w] = q] /\ Alive(p)
    BY <1>1, <1>3 DEF Output, Alive
  <2>2. q \in ProcessType
    BY <1>1 DEF ProcessType
  <2> HIDE DEF q
  <2> QED
    BY <2>1, <2>2, GuardedOfChild
<1>4. CASE CloseOutput(w)
  <2> DEFINE q == [p EXCEPT !.eof = TRUE]
  <2>1. cgi' = [Quiet EXCEPT !.proc[w] = q] /\ Alive(p)
    BY <1>1, <1>4 DEF CloseOutput, Alive
  <2>2. q \in ProcessType
    BY <1>1 DEF ProcessType
  <2> HIDE DEF q
  <2> QED
    BY <2>1, <2>2, GuardedOfChild
<1>5. CASE Exit(w)
  <2>1. PICK code \in {"ok", "bad", "signal"} :
           cgi' = [Quiet EXCEPT !.proc[w].st = "zombie", !.proc[w].eof = TRUE,
                                !.proc[w].code = code]
    BY <1>5 DEF Exit
  <2> DEFINE q == [p EXCEPT !.st = "zombie", !.eof = TRUE, !.code = code]
  <2>2. cgi' = [Quiet EXCEPT !.proc[w] = q]
    BY <1>1, <2>1
  <2>3. q \in ProcessType /\ ~Alive(q)
    BY <1>1 DEF ProcessType, Alive
  <2> HIDE DEF q
  <2> QED
    BY <2>2, <2>3, GuardedOfChild
<1> QED
  BY <1>2, <1>3, <1>4, <1>5

LEMMA GuardedHandlers ==
    ASSUME Guarded(cgi), NEW w \in Workers,
           Handlers(w) \/ Inactive(w) \/ CleanupTimedOutWorkers(w)
    PROVE  Guarded(cgi')
<1> DEFINE s == Quiet
           t == Touch(s, w)
           n == cgi'
<1>1. Guarded(s) /\ s.proc = cgi.proc /\ s.heap = cgi.heap
  BY GuardedQuiet
<1>2. CASE ReadOutput(w)
  <2>1. PICK fails \in {FALSE} \cup (IF "oversize" \in Faults THEN {cgi.proc[w].data} ELSE {}) :
           n = HandleRead(t, w, fails)
    BY <1>2 DEF ReadOutput
  <2>2. fails \in BOOLEAN
    BY DEF Guarded, Loose, ProcessType
  <2> HIDE DEF s, n
  <2>3. Guarded(t)
    BY <1>1, GuardedTouch
  <2> HIDE DEF t
  <2>4. Guarded(n)
    BY <2>1, <2>2, <2>3, GuardedRead
  <2> QED
    BY <2>4 DEF n
<1>3. CASE WriteBody(w)
  <2>1. PICK all \in BOOLEAN : n = HandleWrite(t, w, all)
    BY <1>3 DEF WriteBody
  <2> HIDE DEF s, n
  <2>2. Guarded(t)
    BY <1>1, GuardedTouch
  <2> HIDE DEF t
  <2>3. Guarded(n)
    BY <2>1, <2>2, GuardedWrite
  <2> QED
    BY <2>3 DEF n
<1>4. CASE ErrorExit(w)
  <2>1. n = HandleErrorExit(t, w)
    BY <1>4 DEF ErrorExit
  <2> HIDE DEF s, n
  <2>2. Guarded(t)
    BY <1>1, GuardedTouch
  <2> HIDE DEF t
  <2>3. Guarded(n)
    BY <2>1, <2>2, GuardedErrorExit
  <2> QED
    BY <2>3 DEF n
<1>5. CASE Complete(w)
  <2>1. n = CgiEnd(t, w) \/ n = Fault(s, "freed")
    BY <1>5 DEF Complete
  <2> HIDE DEF s, n
  <2>2. Guarded(t) /\ Guarded(Fault(s, "freed"))
    BY <1>1, GuardedTouch, GuardedGhost
  <2> HIDE DEF t
  <2>3. Guarded(n)
    BY <2>1, <2>2, GuardedCgiEnd
  <2> QED
    BY <2>3 DEF n
<1>6. CASE Inactive(w)
  <2>1. n = [s EXCEPT !.heap[w].idle = TRUE]
    BY <1>6 DEF Inactive
  <2> HIDE DEF s, n
  <2>2. Same(s, n)
    BY <1>1, <2>1 DEF Guarded, Loose, Same
  <2>3. Guarded(n)
    BY <1>1, <2>2, GuardedSame
  <2> QED
    BY <2>3 DEF n
<1>7. CASE CleanupTimedOutWorkers(w)
  <2>1. PICK collected, cut : n = TimeOut(s, w, collected, cut)
    BY <1>7 DEF CleanupTimedOutWorkers
  <2> HIDE DEF s, n
  <2>2. Guarded(n)
    BY <1>1, <2>1, GuardedTimeOut
  <2> QED
    BY <2>2 DEF n
<1> QED
  BY <1>2, <1>3, <1>4, <1>5, <1>6, <1>7 DEF Handlers

LEMMA GuardedClients ==
    ASSUME Guarded(cgi), NEW c \in Clients,
           CloseClient(c) \/ Accept(c) \/ (\E w \in Workers : Request(c, w))
    PROVE  Guarded(cgi')
<1> DEFINE s == Quiet
           n == cgi'
<1>1. Guarded(s)
  BY GuardedQuiet
<1>2. CASE CloseClient(c)
  <2>1. PICK collected \in BOOLEAN : n = AbortClient([s EXCEPT !.owed[c] = 0], c, collected)
    BY <1>2 DEF CloseClient
  <2> HIDE DEF s, n
  <2> DEFINE z == [s EXCEPT !.owed[c] = 0]
  <2>2. Guarded(z)
    BY <1>1, GuardedGhost
  <2> HIDE DEF z
  <2>3. n = AbortClient(z, c, collected)
    BY <2>1 DEF z
  <2>4. Guarded(n)
    BY <2>2, <2>3, GuardedAbort
  <2> QED
    BY <2>4 DEF n
<1>3. CASE Accept(c)
  BY <1>1, <1>3 DEF Accept
<1>4. ASSUME NEW w \in Workers, Request(c, w)
      PROVE  Guarded(cgi')
  <2>1. PICK body \in BOOLEAN, hdr \in {"none", "plain", "status"},
             how \in {"ok"} \cup ({"spawn", "register"} \cap Faults) :
           n = CreateWorker([s EXCEPT !.owed[c] = @ + 1], c, w, body, hdr, how, MaxWorkers)
    BY <1>4 DEF Request
  <2> HIDE DEF s, n
  <2> DEFINE z == [s EXCEPT !.owed[c] = @ + 1]
  <2>2. Guarded(z)
    BY <1>1, GuardedGhost
  <2>3. n = CreateWorker(z, c, w, body, hdr, how, MaxWorkers)
    BY <2>1
  <2> HIDE DEF z
  <2>4. Guarded(n)
    BY <2>2, <2>3, GuardedCreate
  <2> QED
    BY <2>4 DEF n
<1> QED
  BY <1>2, <1>3, <1>4

(* ~CgiWorker, abortClient and cleanupTimedOutWorkers kill or collect the  *)
(* child of every pid that they forget: this needs no assumption.          *)
THEOREM NoOrphanEver == Spec => []NoOrphans
<1>1. Init => Guarded(cgi)
  <2> SUFFICES ASSUME Init
               PROVE  Guarded(cgi)
    OBVIOUS
  <2>1. NoProcess \in ProcessType /\ ~Alive(NoProcess)
    BY DEF NoProcess, ProcessType, Alive
  <2> QED
    BY <2>1 DEF Init, Guarded, Loose
<1>2. Guarded(cgi) /\ [Next]_vars => Guarded(cgi)'
  <2> SUFFICES ASSUME Guarded(cgi), [Next]_vars
               PROVE  Guarded(cgi')
    OBVIOUS
  <2>1. CASE UNCHANGED vars
    BY <2>1 DEF vars
  <2>2. CASE CleanupFinishedWorkers
    BY <2>2, GuardedQuiet, GuardedCleanupFinished DEF CleanupFinishedWorkers
  <2> QED
    BY <2>1, <2>2, GuardedClients, GuardedLife, GuardedHandlers DEF Next
<1>3. Guarded(cgi) => NoOrphans
  BY DEF Guarded, NoOrphans
<1> QED
  BY <1>1, <1>2, <1>3, PTL DEF Spec
=============================================================================
