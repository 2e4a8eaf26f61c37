--------------------------- MODULE Requests_proofs ---------------------------
(***************************************************************************)
(* One request after the other on a keep-alive connection, whatever the    *)
(* requests, the segments they come in and what the handlers come to.      *)
(***************************************************************************)
EXTENDS Requests, TLAPS, FiniteSetTheorems, WellFoundedInduction

(* What the theorems assume of the client: it waits for an answer before   *)
(* it sends the next request, asks for a version of HTTP the server has    *)
(* (a 505 keeps the connection and loses its place in the bytes),          *)
(* announces the bodies it sends, and sends none in chunks that is over    *)
(* the limit and has data that reads as the end of a body (the code may    *)
(* execute such a request, see TooLongIsRefused).                          *)
NoFalseEnd(k) ==
    k.framing = "chunked" /\ k.size > MaxBody[Select(k.host)] => k.reads # "end"
Plain ==
    /\ Ahead = 1
    /\ \A k \in Kinds :
          /\ k.line # "version"
          /\ k.framing = "none" => k.size = 0
          /\ NoFalseEnd(k)

-----------------------------------------------------------------------------
(* The bytes of a request, by their position in it. *)
Total(k) == 2 + (IF k.framing = "chunked" THEN 2 * k.size + 1 ELSE k.size)
PartAt(k, p) ==
    IF p = 1 THEN "line" ELSE IF p = 2 THEN "head"
    ELSE IF k.framing # "chunked" THEN "data"
    ELSE IF p > 2 + 2 * k.size THEN "last"
    ELSE IF p % 2 = 1 THEN "size" ELSE "data"
UnitAt(r, k, p) == [req |-> r, part |-> PartAt(k, p)]

(* The units of seq are those of request r from position p on. *)
Carries(seq, r, k, p) == \A i \in 1..Len(seq) : seq[i] = UnitAt(r, k, p + i)

(* How much of its request, and of the body, the connection has taken. *)
TakenOfBody(x) == IF x.mode \in {"size", "data"} THEN Halves(x) ELSE x.size
Taken(x) ==
    IF x.state = "line" THEN 0 ELSE IF x.state = "head" THEN 1 ELSE 2 + TakenOfBody(x)

Parts == {"line", "head", "size", "data", "last"}
Units == [req : Nat, part : Parts]
Results == [req : Nat, code : Nat]
Runs == [req : Nat, vhost : Vhosts, size : Nat]
Conns ==
    [recv : Seq(Units), state : {"line", "head", "body", "complete"},
     error : Nat, mode : {"new", "identity", "size", "data", "complete"}, left : Nat,
     req : Nat, size : Nat, status : Nat, close : BOOLEAN, vhost : Vhosts,
     isCgi : BOOLEAN, out : Seq(Results), reading : BOOLEAN, runs : Seq(Runs)]

Typed ==
    /\ asked \in Seq(Kinds)
    /\ toSend \in Seq(Units)
    /\ wire \in Seq(Units)
    /\ conn \in Conns
    /\ cgi \in BOOLEAN
    /\ open \in BOOLEAN
    /\ got \in Seq(Results)

-----------------------------------------------------------------------------
(* Where the connection is with the request r, which is k. *)

(* The body is being read. *)
InBody(x, r, k) ==
    /\ x.req = r
    /\ x.vhost = Select(k.host)
    /\ \/ /\ k.framing = "length"
          /\ k.size <= MaxBody[x.vhost]
          /\ x.mode = "identity"
          /\ x.size + x.left = k.size
          /\ x.left # 0
       \/ /\ k.framing = "chunked"
          /\ x.mode \in {"size", "data"}
          /\ Halves(x) <= 2 * MaxBody[x.vhost]

(* What was taken of it is well formed; and the whole is. *)
Understood(x, k) ==
    /\ x.state # "line" => k.line = "good"
    /\ x.state \in {"body", "complete"} => k.head = "good"
Readable(k) == k.line = "good" /\ k.head = "good" /\ k.framing # "refused"

(* All of it that came is taken, and there is more to come. *)
Waits(x, r, k) ==
    /\ Understood(x, k)
    /\ x.error = 0
    /\ x.recv = <<>>
    /\ x.status = 200
    /\ ~x.close
    /\ \/ x.state = "line" /\ x.mode = "new" /\ x.req = 0 /\ x.size = 0
       \/ x.state = "head" /\ x.mode = "new" /\ x.req = r /\ x.size = 0
       \/ x.state = "body" /\ InBody(x, r, k)

(* It was taken whole, and the answer is known. *)
Decided(x, r, k, code) ==
    LET asks == k.close /\ k.target # "redirect"
    IN /\ x.state = "complete"
       /\ x.req = r
       /\ x.recv = <<>>
       /\ asks \/ (code \in Closing /\ k.target # "script") => x.close
       /\ ~asks /\ code \notin Closing => ~x.close

(* It was refused, and is again whenever more of it comes.  Of a chunked   *)
(* body the buffer begins with a size, of a chunk that would be too much,  *)
(* or with data that does not read as the end.                             *)
Piece(x) == [req : {x.req}, part : {"size", "data"}]
Refused(x, r, k) ==
    /\ x.close
    /\ x.error # 0
    /\ \/ /\ x.state = "line"
          /\ x.req = 0
          /\ x.recv # <<>>
          /\ Head(x.recv).req = r
          /\ k.line = "malformed"
       \/ /\ x.state = "head"
          /\ x.req = r
          /\ x.recv # <<>>
          /\ k.head = "malformed"
       \/ /\ x.state = "body"
          /\ x.req = r
          /\ x.vhost = Select(k.host)
          /\ \/ k.framing = "length" /\ k.size > MaxBody[x.vhost]
             \/ /\ k.framing = "chunked"
                /\ k.reads # "end"
                /\ x.mode = "size"
                /\ x.size = MaxBody[x.vhost]
                /\ x.recv # <<>>
                /\ Head(x.recv) \in Piece(x)
             \/ k.framing = "refused" /\ x.mode = "new"

-----------------------------------------------------------------------------
(* The phases of the connection. *)
Made == Len(asked)
GotBefore(r) == \A i \in DOMAIN got : got[i].req < r
RunBefore(r) == \A i \in DOMAIN conn.runs : conn.runs[i].req < r
NothingToCome == wire = <<>> /\ toSend = <<>>
(* An error that was sent and kept the connection came of an execution. *)
Calm == \A i \in DOMAIN got : got[i].code \in Closing => got[i].req \in Done
(* So does a success that is to be sent. *)
Paid(answer) ==
    answer.code = 200 \/ (answer.code \in Closing /\ ~conn.close) => answer.req \in Done

Idle ==
    /\ conn.state = "line"
    /\ Waits(conn, 0, [size |-> 0])
    /\ conn.out = <<>>
    /\ ~cgi
    /\ NothingToCome
    /\ GotBefore(Made + 1)
    /\ RunBefore(Made + 1)
    /\ Calm

Receiving ==
    /\ Made # 0
    /\ Waits(conn, Made, asked[Made])
    /\ conn.out = <<>>
    /\ ~cgi
    /\ Carries(wire, Made, asked[Made], Taken(conn))
    /\ Carries(toSend, Made, asked[Made], Taken(conn) + Len(wire))
    /\ Taken(conn) + Len(wire) + Len(toSend) = Total(asked[Made])
    /\ GotBefore(Made)
    /\ RunBefore(Made)
    /\ Calm

Working ==
    /\ Made # 0
    /\ Decided(conn, Made, asked[Made], 200)
    /\ asked[Made].target = "script"
    /\ conn.out = <<>>
    /\ cgi
    /\ NothingToCome
    /\ GotBefore(Made)
    /\ RunBefore(Made + 1)
    /\ Made \in Done
    /\ Calm

Answering ==
    /\ Made # 0
    /\ Len(conn.out) = 1
    /\ conn.out[1].req = Made
    /\ Decided(conn, Made, asked[Made], conn.out[1].code)
    /\ ~cgi
    /\ NothingToCome
    /\ GotBefore(Made)
    /\ RunBefore(Made + 1)
    /\ Paid(conn.out[1])
    /\ Calm

(* A request that was refused; the client may not know, and go on. *)
Doomed(r) ==
    /\ Refused(conn, r, asked[r])
    /\ ~cgi
    /\ conn.out # <<>>
    /\ \A i \in DOMAIN conn.out : conn.out[i].req = r /\ conn.out[i].code \in Closing
    /\ \A i \in DOMAIN got :
          got[i].req < r \/ (got[i].req = r /\ got[i].code \in Closing)
    /\ RunBefore(r)

Phase ==
    open => Idle \/ Receiving \/ Working \/ Answering \/ (\E r \in 1..Made : Doomed(r))

InOrder(answers) ==
    \A i, j \in DOMAIN answers :
       i < j /\ answers[j].req # 0 =>
          \/ answers[i].req < answers[j].req
          \/ /\ answers[i].req = answers[j].req
             /\ answers[i].code \in Closing
             /\ answers[j].code \in Closing \cup {408}

(* What the server did and told, also after the connection is closed. *)
Effects ==
    /\ \A i \in DOMAIN conn.runs :
          conn.runs[i].req \in 1..Made /\ asked[conn.runs[i].req] \in Executable
    /\ ExecutedOnce
Told ==
    /\ InOrder(got)
    /\ ~open => conn.out = <<>>
    /\ conn.isCgi = FALSE

IInv == Typed /\ Phase /\ Effects /\ Told

-----------------------------------------------------------------------------
LEMMA SelectIs == \A host : Select(host) \in Vhosts
  BY PipelineAssumption DEF Select, PipelineAssumption

LEMMA MinOf ==
    ASSUME NEW S \in SUBSET Nat, S # {}
    PROVE  Min(S) \in S /\ \A y \in S : Min(S) <= y
<1>1. PICK m \in S : \A y \in S : <<y, m>> \notin OpToRel(<, Nat)
  BY NatLessThanWellFounded, WFMin, Zenon
<1>2. ASSUME NEW y \in S PROVE m <= y
  <2>1. ~(y < m)
    BY <1>1, Zenon DEF OpToRel
  <2> QED
    BY <2>1
<1>3. Min(S) = CHOOSE x \in S : \A y \in S : x <= y
  BY DEF Min
<1> QED
  BY <1>1, <1>2, <1>3

(* The sizes and data the buffer begins with. *)
LEMMA ChunksIs ==
    ASSUME NEW x, x.recv \in Seq(Units)
    PROVE  /\ Chunks(x) \in 0..Len(x.recv)
           /\ \A i \in 1..Chunks(x) : x.recv[i] \in Piece(x)
           /\ Chunks(x) < Len(x.recv) => x.recv[Chunks(x) + 1] \notin Piece(x)
<1> DEFINE S == {n \in 0..Len(x.recv) : n = Len(x.recv) \/ x.recv[n + 1] \notin Piece(x)}
<1>1. S \in SUBSET Nat /\ Len(x.recv) \in S /\ Len(x.recv) \in Nat
  OBVIOUS
<1>2. Chunks(x) = Min(S)
  BY DEF Chunks, Piece
<1>3. Chunks(x) \in S /\ \A n \in S : Chunks(x) <= n
  BY <1>1, <1>2, MinOf
<1>4. ASSUME NEW i \in 1..Chunks(x) PROVE x.recv[i] \in Piece(x)
  <2>1. i - 1 \in 0..Len(x.recv) /\ i - 1 < Chunks(x) /\ Chunks(x) \in Nat
    BY <1>3, <1>1
  <2>2. i - 1 \notin S
    BY <2>1, <1>3
  <2> QED
    BY <2>1, <2>2
<1> QED
  BY <1>3, <1>4

-----------------------------------------------------------------------------
(* What the middlewares make of a connection. *)
LEMMA ClosingAre ==
    /\ Closing \subseteq Errors
    /\ \A code \in Closing : code \in Nat /\ code # 0 /\ code # 408
    /\ \A code \in Errors : code \in Nat /\ code >= 400 /\ code # 408
    /\ 200 \notin Closing /\ 301 \notin Closing /\ 404 \notin Closing /\ 405 \notin Closing
  BY DEF Closing, Errors

LEMMA FailIs ==
    ASSUME NEW x \in Conns, NEW code \in Errors
    PROVE  /\ Fail(x, code) \in Conns
           /\ Fail(x, code).status = code
           /\ Fail(x, code).error = code
           /\ Fail(x, code).close = (x.close \/ code \in Closing)
           /\ Fail(x, code).recv = x.recv
           /\ Fail(x, code).state = x.state
           /\ Fail(x, code).mode = x.mode
           /\ Fail(x, code).req = x.req
           /\ Fail(x, code).size = x.size
           /\ Fail(x, code).vhost = x.vhost
           /\ Fail(x, code).isCgi = x.isCgi
           /\ Fail(x, code).out = x.out
           /\ Fail(x, code).runs = x.runs
<1>1. code \in Nat
  BY ClosingAre
<1> QED
  BY <1>1 DEF Conns, Fail, SetError, ErrorHandler

-----------------------------------------------------------------------------
(* A request r, which is k, comes to the parsers with the next units, and  *)
(* m more are on their way. *)
Arrives(x, r, k, m) ==
    /\ x \in Conns
    /\ Understood(x, k)
    /\ x.error = 0
    /\ x.status = 200
    /\ ~x.close
    /\ ~x.isCgi
    /\ Carries(x.recv, r, k, Taken(x))
    /\ Taken(x) + Len(x.recv) + m = Total(k)
    /\ \/ x.state = "line" /\ x.mode = "new" /\ x.size = 0 /\ x.req = 0
       \/ x.state = "head" /\ x.mode = "new" /\ x.size = 0 /\ x.req = r
       \/ x.state = "body" /\ x.mode = "new" /\ x.size = 0 /\ x.req = r /\ k.framing # "none"
       \/ x.state = "body" /\ InBody(x, r, k)
       \/ x.state = "complete" /\ x.size = 0 /\ x.req = r /\ k.framing = "none"

(* What may have been executed. *)
Ran(runs, before, r, k) ==
    \/ runs = before
    \/ /\ runs = Append(before, [req |-> r, vhost |-> Select(k.host), size |-> k.size])
       /\ k.size <= MaxBody[Select(k.host)]
       /\ Readable(k)
       /\ k.target \in {"static", "script"}

(* A success, and an error that keeps the connection, are what an          *)
(* execution came to. *)
Earned(y, x) ==
    y.status = 200 \/ (y.status \in Closing /\ ~y.close) => y.runs # x.runs

(* The outcomes: it waits for more, it is taken whole and the answer known *)
(* or left to a CGI, it is refused. *)
WaitsOn(y, x, r, k, m) ==
    /\ Waits(y, r, k)
    /\ ~y.isCgi
    /\ Taken(y) + m = Total(k)
    /\ y.runs = x.runs
Served(y, x, r, k) ==
    /\ Decided(y, r, k, y.status)
    /\ Ran(y.runs, x.runs, r, k)
    /\ y.isCgi => k.target = "script" /\ y.status = 200
    /\ Earned(y, x)
Rejected(y, x, r, k) ==
    /\ Refused(y, r, k)
    /\ y.status \in Closing
    /\ ~y.isCgi
    /\ y.runs = x.runs
Handled(y, x, r, k, m) ==
    /\ y \in Conns
    /\ y.out = x.out
    /\ \/ WaitsOn(y, x, r, k, m)
       \/ m = 0 /\ Served(y, x, r, k)
       \/ Rejected(y, x, r, k)

(* The whole request is in x. *)
Whole(x, r, k) ==
    /\ x \in Conns
    /\ x.status = 200
    /\ ~x.isCgi
    /\ x.recv = <<>>
    /\ x.state = "complete"
    /\ x.req = r
    /\ x.size = k.size
    /\ x.vhost = Select(k.host)
    /\ k.size <= MaxBody[x.vhost]
    /\ Readable(k)

LEMMA FailCloses ==
    ASSUME NEW x \in Conns, NEW code \in Closing
    PROVE  Fail(x, code).close
<1>1. code \in Errors
  BY ClosingAre
<1>2. Fail(x, code).close = (x.close \/ code \in Closing)
  BY <1>1, FailIs
<1> QED
  BY <1>2

LEMMA FieldTypes ==
    ASSUME NEW x \in Conns
    PROVE  /\ x.recv \in Seq(Units) /\ Len(x.recv) \in Nat /\ x.size \in Nat /\ x.left \in Nat
           /\ x.req \in Nat /\ x.vhost \in Vhosts /\ MaxBody[x.vhost] \in Nat
           /\ Taken(x) \in Nat
<1>1. /\ x.recv \in Seq(Units) /\ x.size \in Nat /\ x.left \in Nat
      /\ x.req \in Nat /\ x.vhost \in Vhosts
  BY DEF Conns
<1>2. Len(x.recv) \in Nat
  BY <1>1
<1>3. MaxBody[x.vhost] \in Nat
  BY <1>1, PipelineAssumption DEF PipelineAssumption
<1>4. Taken(x) \in Nat
  BY <1>1 DEF Taken, TakenOfBody, Halves
<1> QED
  BY <1>1, <1>2, <1>3, <1>4

LEMMA AppendDiffers ==
    ASSUME NEW S, NEW s \in Seq(S), NEW e
    PROVE  Append(s, e) # s
<1>1. Len(Append(s, e)) = Len(s) + 1 /\ Len(s) \in Nat
  OBVIOUS
<1> QED
  BY <1>1

LEMMA ExecutedIs ==
    ASSUME NEW x \in Conns, NEW proc \in Vhosts, NEW outcome \in {200} \cup Errors
    PROVE  /\ Executed(x, proc, outcome) \in Conns
           /\ Executed(x, proc, outcome).status = outcome
           /\ Executed(x, proc, outcome).runs
                = Append(x.runs, [req |-> x.req, vhost |-> proc, size |-> x.size])
           /\ Executed(x, proc, outcome).runs # x.runs
           /\ Executed(x, proc, outcome).close = x.close
           /\ Executed(x, proc, outcome).recv = x.recv
           /\ Executed(x, proc, outcome).state = x.state
           /\ Executed(x, proc, outcome).req = x.req
           /\ Executed(x, proc, outcome).isCgi = x.isCgi
           /\ Executed(x, proc, outcome).out = x.out
<1>1. outcome \in Nat
  BY ClosingAre
<1>2. [req |-> x.req, vhost |-> proc, size |-> x.size] \in Runs /\ x.runs \in Seq(Runs)
  BY DEF Conns, Runs
<1> DEFINE runs == Append(x.runs, [req |-> x.req, vhost |-> proc, size |-> x.size])
<1>3. runs \in Seq(Runs) /\ runs # x.runs
  BY <1>2, AppendDiffers
<1>4. Executed(x, proc, outcome) = [x EXCEPT !.status = outcome, !.runs = runs]
  BY DEF Executed, Conns
<1> HIDE DEF runs
<1>5. /\ [x EXCEPT !.status = outcome, !.runs = runs] \in Conns
      /\ [x EXCEPT !.status = outcome, !.runs = runs].runs = runs
  BY <1>1, <1>3 DEF Conns
<1> QED
  BY <1>4, <1>5 DEF Conns, runs

LEMMA StatusSet ==
    ASSUME NEW x \in Conns, NEW code \in Nat
    PROVE  LET y == [x EXCEPT !.status = code]
           IN /\ y \in Conns /\ y.out = x.out /\ y.isCgi = x.isCgi /\ y.status = code
              /\ y.close = x.close /\ y.state = x.state /\ y.req = x.req
              /\ y.recv = x.recv /\ y.runs = x.runs
  BY DEF Conns

LEMMA ErrorHandlerIs ==
    ASSUME NEW x \in Conns
    PROVE  /\ ErrorHandler(x) \in Conns
           /\ ErrorHandler(x).close = (x.close \/ x.status \in Closing)
           /\ ErrorHandler(x).status = x.status
           /\ ErrorHandler(x).recv = x.recv
           /\ ErrorHandler(x).state = x.state
           /\ ErrorHandler(x).req = x.req
           /\ ErrorHandler(x).isCgi = x.isCgi
           /\ ErrorHandler(x).out = x.out
           /\ ErrorHandler(x).runs = x.runs
  BY DEF ErrorHandler, Conns

LEMMA SetErrorIs ==
    ASSUME NEW x \in Conns, NEW code \in Errors
    PROVE  /\ SetError(x, code) \in Conns
           /\ SetError(x, code).close = x.close
           /\ SetError(x, code).status = code
           /\ SetError(x, code).recv = x.recv
           /\ SetError(x, code).state = x.state
           /\ SetError(x, code).req = x.req
           /\ SetError(x, code).isCgi = x.isCgi
           /\ SetError(x, code).out = x.out
           /\ SetError(x, code).runs = x.runs
<1>1. code \in Nat
  BY ClosingAre
<1> QED
  BY <1>1 DEF SetError, Conns

(* The handlers decide; asks is what the client wants of the connection. *)
LEMMA HandlerServes ==
    ASSUME NEW x, NEW a, NEW r, NEW outcome \in Outcomes,
           Whole(x, r, a[r]), x.close = a[r].close, a[r].target = "static"
    PROVE  LET y == ErrorHandler(Handler(x, x.vhost, outcome))
           IN y \in Conns /\ y.out = x.out /\ Served(y, x, r, a[r])
<1> DEFINE h == Handler(x, x.vhost, outcome)
           y == ErrorHandler(h)
<1>1. outcome \in {200} \cup Errors /\ x \in Conns /\ x.vhost \in Vhosts
  BY RequestsAssumption DEF RequestsAssumption, Whole, Conns
<1>2. /\ h \in Conns
      /\ h.status = outcome
      /\ h.close = x.close
      /\ h.recv = x.recv
      /\ h.state = x.state
      /\ h.req = x.req
      /\ h.isCgi = x.isCgi
      /\ h.out = x.out
      /\ Ran(h.runs, x.runs, r, a[r])
      /\ h.runs = x.runs => outcome # 200
  <2>1. CASE outcome \in {405, 501}
    <3>1. outcome \in Errors
      BY <2>1 DEF Errors
    <3>2. h = SetError(x, outcome)
      BY <2>1 DEF Handler
    <3> QED
      BY <3>1, <3>2, <1>1, SetErrorIs, ClosingAre DEF Ran
  <2>2. CASE outcome \notin {405, 501}
    <3>1. h = Executed(x, x.vhost, outcome)
      BY <2>2 DEF Handler
    <3> QED
      BY <3>1, <1>1, ExecutedIs DEF Ran, Whole
  <2> QED
    BY <2>1, <2>2
<1> HIDE DEF h
<1>3. /\ y \in Conns /\ y.out = x.out /\ ~y.isCgi
      /\ y.status = outcome
      /\ y.close = (x.close \/ outcome \in Closing)
      /\ y.state = "complete" /\ y.req = r /\ y.recv = <<>>
      /\ y.runs = h.runs
  BY <1>2, ErrorHandlerIs DEF Whole
<1>4. Decided(y, r, a[r], y.status)
  BY <1>3 DEF Decided
<1>5. Earned(y, x)
  BY <1>2, <1>3 DEF Earned
<1>6. y \in Conns /\ y.out = x.out /\ Served(y, x, r, a[r])
  BY <1>2, <1>3, <1>4, <1>5 DEF Served
<1> QED
  BY <1>6 DEF h

LEMMA CgiRouterServes ==
    ASSUME NEW x, NEW a, NEW r, NEW outcome \in Outcomes,
           Whole(x, r, a[r]), x.close = a[r].close, a[r].target = "script"
    PROVE  LET y == ErrorHandler(CgiRouter(x, x.vhost, outcome))
           IN y \in Conns /\ y.out = x.out /\ Served(y, x, r, a[r])
<1> DEFINE h == CgiRouter(x, x.vhost, outcome)
           y == ErrorHandler(h)
<1>1. outcome \in {200} \cup Errors /\ x \in Conns /\ x.vhost \in Vhosts
  BY RequestsAssumption DEF RequestsAssumption, Whole, Conns
<1>2. /\ h \in Conns
      /\ h.status = outcome
      /\ h.close = x.close
      /\ h.recv = x.recv
      /\ h.state = x.state
      /\ h.req = x.req
      /\ h.isCgi => outcome = 200
      /\ h.out = x.out
      /\ Ran(h.runs, x.runs, r, a[r])
      /\ h.runs = x.runs => outcome # 200
  <2>1. CASE outcome = 405
    <3>1. outcome \in Errors
      BY <2>1 DEF Errors
    <3>2. h = SetError(x, 405)
      BY <2>1 DEF CgiRouter
    <3> QED
      BY <3>1, <3>2, <2>1, <1>1, SetErrorIs DEF Ran, Whole
  <2>2. CASE outcome # 405 /\ outcome >= 400
    <3>1. h = [x EXCEPT !.status = outcome]
      BY <2>2 DEF CgiRouter
    <3>2. outcome \in Nat
      BY <1>1, ClosingAre
    <3>3. /\ h \in Conns /\ h.out = x.out /\ h.isCgi = x.isCgi /\ h.status = outcome
          /\ h.close = x.close /\ h.state = x.state /\ h.req = x.req
          /\ h.recv = x.recv /\ h.runs = x.runs
      BY <3>1, <3>2, <1>1, StatusSet
    <3>4. outcome # 200
      BY <2>2, <3>2
    <3> QED
      BY <3>3, <3>4 DEF Ran, Whole
  <2>3. CASE outcome # 405 /\ ~(outcome >= 400)
    <3>1. outcome = 200
      BY <2>3, <1>1, ClosingAre
    <3> DEFINE e == Executed(x, x.vhost, outcome)
    <3>2. h = [e EXCEPT !.isCgi = TRUE]
      BY <2>3 DEF CgiRouter
    <3>3. /\ e \in Conns /\ e.status = outcome /\ e.close = x.close /\ e.recv = x.recv
          /\ e.state = x.state /\ e.req = x.req /\ e.out = x.out /\ e.runs # x.runs
          /\ Ran(e.runs, x.runs, r, a[r])
      BY <1>1, ExecutedIs DEF Ran, Whole
    <3> HIDE DEF e
    <3> QED
      BY <3>1, <3>2, <3>3 DEF Conns
  <2> QED
    BY <2>1, <2>2, <2>3, <1>1, ClosingAre
<1> HIDE DEF h
<1>3. /\ y \in Conns /\ y.out = x.out /\ (y.isCgi => outcome = 200)
      /\ y.status = outcome
      /\ y.close = (x.close \/ outcome \in Closing)
      /\ y.state = "complete" /\ y.req = r /\ y.recv = <<>>
      /\ y.runs = h.runs
  BY <1>2, ErrorHandlerIs DEF Whole
<1>4. Decided(y, r, a[r], y.status)
  <2>1. outcome \in Closing => y.close
    BY <1>3
  <2> QED
    BY <1>3 DEF Decided
<1>5. Earned(y, x)
  BY <1>2, <1>3 DEF Earned
<1>6. y \in Conns /\ y.out = x.out /\ Served(y, x, r, a[r])
  BY <1>2, <1>3, <1>4, <1>5 DEF Served
<1> QED
  BY <1>6 DEF h

LEMMA RouterServes ==
    ASSUME NEW x, NEW a, NEW r, NEW outcome \in Outcomes, a[r] \in Kinds,
           Whole(x, r, a[r]), x.close = a[r].close, a[r].target # "redirect"
    PROVE  LET y == Router(x, x.vhost, a, outcome)
           IN y \in Conns /\ y.out = x.out /\ Served(y, x, r, a[r])
<1> DEFINE y == Router(x, x.vhost, a, outcome)
<1>1. x.req = r /\ x \in Conns
  BY DEF Whole
<1>2. CASE a[r].target = "nowhere"
  <2>1. y = Fail(x, 404)
    BY <1>1, <1>2 DEF Router
  <2>2. 404 \in Errors /\ 404 \notin Closing
    BY DEF Errors, Closing
  <2>5. x.close \in BOOLEAN
    BY <1>1 DEF Conns
  <2> HIDE DEF y
  <2>3. /\ y \in Conns /\ y.out = x.out /\ ~y.isCgi /\ y.status = 404
        /\ y.close = a[r].close
        /\ y.state = "complete" /\ y.req = r /\ y.recv = <<>> /\ y.runs = x.runs
    BY <1>1, <2>1, <2>2, <2>5, FailIs DEF Whole
  <2>4. Decided(y, r, a[r], y.status) /\ Ran(y.runs, x.runs, r, a[r])
    BY <2>3, <2>2, <1>2 DEF Decided, Ran
  <2> QED
    BY <2>3, <2>4, <2>2 DEF Served, Earned, y
<1>3. CASE a[r].target = "script"
  <2>1. y = ErrorHandler(CgiRouter(x, x.vhost, outcome))
    BY <1>1, <1>3 DEF Router
  <2> QED
    BY <2>1, <1>3, CgiRouterServes
<1>4. CASE a[r].target = "static"
  <2>1. y = ErrorHandler(Handler(x, x.vhost, outcome))
    BY <1>1, <1>4 DEF Router
  <2> QED
    BY <2>1, <1>4, HandlerServes
<1>5. a[r].target \in Targets
  BY RequestsAssumption DEF RequestsAssumption
<1> QED
  BY <1>2, <1>3, <1>4, <1>5 DEF Targets

LEMMA RedirectServes ==
    ASSUME NEW x, NEW a, NEW r, NEW outcome \in Outcomes, a[r] \in Kinds,
           Whole(x, r, a[r]), ~x.close
    PROVE  LET y == Redirect(x, x.vhost, a, outcome)
           IN y \in Conns /\ y.out = x.out /\ Served(y, x, r, a[r])
<1> DEFINE y == Redirect(x, x.vhost, a, outcome)
<1>1. x.req = r /\ x \in Conns
  BY DEF Whole
<1>2. CASE a[r].target = "redirect"
  <2>1. y = [x EXCEPT !.status = 301]
    BY <1>1, <1>2 DEF Redirect
  <2>2. 301 \notin Closing
    BY DEF Closing
  <2> HIDE DEF y
  <2>5. /\ y \in Conns /\ y.out = x.out /\ y.isCgi = x.isCgi /\ y.status = 301
        /\ (y.close <=> x.close) /\ y.state = x.state /\ y.req = x.req
        /\ y.recv = x.recv /\ y.runs = x.runs
    BY <1>1, <2>1, StatusSet
  <2>3. /\ y \in Conns /\ y.out = x.out /\ ~y.isCgi /\ y.status = 301
        /\ ~y.close
        /\ y.state = "complete" /\ y.req = r /\ y.recv = <<>> /\ y.runs = x.runs
    BY <1>1, <2>5 DEF Whole
  <2>4. Decided(y, r, a[r], y.status) /\ Ran(y.runs, x.runs, r, a[r])
    BY <2>3, <2>2, <1>2 DEF Decided, Ran
  <2> QED
    BY <2>3, <2>4, <2>2 DEF Served, Earned, y
<1>3. CASE a[r].target # "redirect"
  <2> DEFINE z == [x EXCEPT !.close = @ \/ a[x.req].close]
  <2>1. y = Router(z, x.vhost, a, outcome)
    BY <1>3, <1>1 DEF Redirect, ConnectionHeader
  <2>2. a[r].close \in BOOLEAN
    BY RequestsAssumption DEF RequestsAssumption
  <2>3. /\ z \in Conns /\ z.close = a[r].close /\ z.vhost = x.vhost
        /\ z.out = x.out /\ z.runs = x.runs /\ Whole(z, r, a[r])
    BY <1>1, <2>2 DEF Conns, Whole
  <2> HIDE DEF z, y
  <2>4. LET v == Router(z, z.vhost, a, outcome)
        IN v \in Conns /\ v.out = z.out /\ Served(v, z, r, a[r])
    BY <1>3, <2>3, RouterServes
  <2>5. y \in Conns /\ y.out = x.out /\ Served(y, x, r, a[r])
    BY <2>1, <2>3, <2>4 DEF Served, Earned
  <2> QED
    BY <2>5 DEF y
<1> QED
  BY <1>2, <1>3

-----------------------------------------------------------------------------
(* The body.  Only these fields change. *)
BodyOf(y, x) ==
    /\ y \in Conns
    /\ y.status = x.status /\ y.close = x.close /\ y.isCgi = x.isCgi
    /\ y.out = x.out /\ y.runs = x.runs /\ y.req = x.req
    /\ y.vhost = x.vhost /\ y.state = x.state
(* What comes of it: an error, a whole body, a part of one. *)
Spoilt(y, k) ==
    \/ /\ y.error = 413 /\ k.framing = "chunked" /\ y.mode = "size"
       /\ y.size = MaxBody[y.vhost] /\ k.size > MaxBody[y.vhost]
       /\ y.recv # <<>> /\ Head(y.recv) \in Piece(y)
    \/ y.error = 501 /\ k.framing = "refused" /\ y.mode = "new"
Ended(y, k, m) ==
    /\ y.error = 0 /\ y.mode = "complete" /\ y.recv = <<>>
    /\ y.size = k.size /\ k.size <= MaxBody[y.vhost] /\ m = 0 /\ k.framing # "refused"
Partial(y, r, k, m) ==
    /\ y.error = 0 /\ y.mode # "complete" /\ y.recv = <<>> /\ InBody(y, r, k)
    /\ 2 + TakenOfBody(y) + m = Total(k)

LEMMA KindTypes ==
    ASSUME NEW k \in Kinds
    PROVE  /\ k.reads \in Readings
           /\ k.size \in Nat /\ k.framing \in Framings /\ k.close \in BOOLEAN
           /\ MaxBody[Select(k.host)] \in Nat /\ Total(k) \in Nat
  BY SelectIs, RequestsAssumption, PipelineAssumption
     DEF RequestsAssumption, PipelineAssumption, Total

LEMMA RestIsEmpty ==
    ASSUME NEW s \in Seq(Units), NEW n \in Nat, n = Len(s)
    PROVE  SubSeq(s, n + 1, Len(s)) = <<>>
  OBVIOUS

LEMMA PartOfBody ==
    ASSUME NEW size \in Nat, NEW left \in Nat, NEW n \in Nat, NEW m \in Nat,
           NEW whole \in Nat, size + left = whole, 2 + size + n + m = 2 + whole
    PROVE  /\ n <= left /\ m = left - n /\ left - n \in Nat /\ size + n \in Nat
           /\ (size + n) + (left - n) = whole /\ 2 + (size + n) + m = 2 + whole
  OBVIOUS

LEMMA ParseIdentityIs ==
    ASSUME NEW x \in Conns, NEW k \in Kinds, NEW m \in Nat,
           x.mode = "identity", k.framing = "length",
           x.error = 0, x.vhost = Select(k.host), k.size <= MaxBody[x.vhost],
           x.size + x.left = k.size, x.left # 0,
           2 + x.size + Len(x.recv) + m = Total(k)
    PROVE  LET y == ParseIdentity(x)
           IN BodyOf(y, x) /\ (Ended(y, k, m) \/ Partial(y, x.req, k, m))
<1> DEFINE n == Len(x.recv)
           y == ParseIdentity(x)
<1>1. /\ x.recv \in Seq(Units) /\ x.size \in Nat /\ x.left \in Nat /\ n \in Nat
      /\ Total(k) = 2 + k.size /\ k.size \in Nat
  <2>1. k.size \in Nat /\ 2 + k.size + 0 = 2 + k.size
    BY KindTypes
  <2>2. Total(k) = 2 + k.size
    BY <2>1 DEF Total
  <2>3. x.recv \in Seq(Units) /\ x.size \in Nat /\ x.left \in Nat /\ n \in Nat
    BY FieldTypes
  <2> QED
    BY <2>1, <2>2, <2>3
<1> DEFINE mode == IF n = x.left THEN "complete" ELSE "identity"
           none == <<>>
           size == x.size + n
           left == x.left - n
<1>2. /\ n <= x.left /\ m = left /\ left \in Nat /\ size \in Nat
      /\ size + left = k.size /\ 2 + size + m = Total(k)
  <2> DEFINE was == x.size
             rest == x.left
             whole == k.size
  <2>1. was \in Nat /\ rest \in Nat /\ n \in Nat /\ whole \in Nat
    BY <1>1
  <2>2. was + rest = whole /\ 2 + was + n + m = 2 + whole
    BY <1>1
  <2> HIDE DEF was, rest, whole, n
  <2>3. /\ n <= rest /\ m = rest - n /\ rest - n \in Nat /\ was + n \in Nat
        /\ (was + n) + (rest - n) = whole /\ 2 + (was + n) + m = 2 + whole
    BY <2>1, <2>2, PartOfBody
  <2> QED
    BY <2>3, <1>1 DEF was, rest, whole
<1>3. Min({n, x.left}) = n
  <2>1. {n, x.left} \in SUBSET Nat /\ {n, x.left} # {}
    BY <1>1
  <2>2. Min({n, x.left}) \in {n, x.left} /\ Min({n, x.left}) <= n
    BY <2>1, MinOf
  <2> QED
    BY <2>2, <1>1, <1>2
<1>4. SubSeq(x.recv, n + 1, Len(x.recv)) = <<>>
  BY <1>1, RestIsEmpty
<1>5. y = [x EXCEPT !.recv = none, !.size = size, !.left = left, !.mode = mode]
  BY <1>3, <1>4 DEF ParseIdentity, Conns
<1>6. none \in Seq(Units) /\ size \in Nat /\ left \in Nat /\ mode \in {"identity", "complete"}
  BY <1>2
<1>7. /\ n = x.left => mode = "complete" /\ m = 0 /\ size = k.size
      /\ n # x.left => mode = "identity" /\ left # 0
      /\ size + left = k.size /\ none = <<>> /\ 2 + size + m = Total(k)
  <2>1. n = x.left => left = 0
    BY <1>1
  <2>2. n # x.left => left # 0
    BY <1>1
  <2>3. (n = x.left => mode = "complete") /\ (n # x.left => mode = "identity")
    OBVIOUS
  <2> HIDE DEF mode, size, left
  <2>4. left = 0 => m = 0 /\ size = k.size
    BY <1>2
  <2> QED
    BY <1>2, <2>1, <2>2, <2>3, <2>4
<1> HIDE DEF mode, none, size, left, y
<1>8. /\ BodyOf(y, x) /\ y.error = x.error /\ y.recv = none
      /\ y.size = size /\ y.left = left /\ y.mode = mode
  BY <1>5, <1>6 DEF Conns, BodyOf
<1>9. CASE n = x.left
  <2>1. Ended(y, k, m)
    BY <1>7, <1>8, <1>9 DEF Ended, BodyOf
  <2> QED
    BY <2>1, <1>8 DEF y
<1>10. CASE n # x.left
  <2>1. Partial(y, x.req, k, m)
    BY <1>7, <1>8, <1>10 DEF Partial, BodyOf, InBody, TakenOfBody
  <2> QED
    BY <2>1, <1>8 DEF y
<1> QED
  BY <1>9, <1>10

LEMMA LastChunk ==
    ASSUME NEW size \in Nat, NEW c \in Nat, NEW n \in Nat, NEW m \in Nat, NEW whole \in Nat,
           size + c >= whole, 2 + size + n + m = 3 + whole, c < n
    PROVE  size + c = whole /\ n = c + 1 /\ m = 0
  OBVIOUS

LEMMA EndOfChunks ==
    ASSUME NEW x, NEW k, NEW c \in 0..Len(x.recv), NEW m \in Nat, NEW h \in Nat,
           k.size \in Nat, Len(x.recv) \in Nat, k.framing = "chunked",
           Carries(x.recv, x.req, k, 2 + h), Total(k) = 3 + 2 * k.size,
           2 + h + Len(x.recv) + m = Total(k),
           c < Len(x.recv), x.recv[c + 1] \notin Piece(x)
    PROVE  h + c = 2 * k.size /\ Len(x.recv) = c + 1 /\ m = 0
<1> DEFINE n == Len(x.recv)
           whole == 2 * k.size
<1>1. whole \in Nat /\ n \in Nat /\ c \in Nat /\ c < n /\ 2 + h + n + m = 3 + whole
  <2>1. whole \in Nat /\ n \in Nat
    OBVIOUS
  <2>2. 2 + h + n + m = 3 + whole
    <3>1. 2 + h + n + m = Total(k) /\ Total(k) = 3 + whole
      OBVIOUS
    <3> QED
      BY <3>1, Zenon
  <2>3. c \in 0..n /\ c < n
    OBVIOUS
  <2> HIDE DEF whole, n
  <2> QED
    BY <2>1, <2>2, <2>3
<1>2. x.recv[c + 1] = UnitAt(x.req, k, 2 + h + (c + 1))
  <2>1. c + 1 \in 1..Len(x.recv)
    BY <1>1
  <2> QED
    BY <2>1 DEF Carries
<1> HIDE DEF n, whole
<1>3. ~(2 + h + (c + 1) <= 2 + whole)
  <2>1. ASSUME 2 + h + (c + 1) <= 2 + whole PROVE FALSE
    <3> DEFINE p == 2 + h + (c + 1)
    <3>1. p # 1 /\ p # 2 /\ ~(p > 2 + whole)
      BY <1>1, <2>1
    <3> HIDE DEF p
    <3>2. PartAt(k, p) \in {"size", "data"}
      BY <3>1 DEF PartAt, whole
    <3> QED
      BY <3>2, <1>2 DEF UnitAt, Piece, p
  <2> QED
    BY <2>1
<1>4. h + c >= whole
  BY <1>1, <1>3
<1>5. h + c = whole /\ n = c + 1 /\ m = 0
  BY <1>1, <1>4, LastChunk
<1> QED
  BY <1>5 DEF n, whole

(* A size that is over the limit is one of a body that is. *)
LEMMA TooManyChunks ==
    ASSUME NEW x, NEW k \in Kinds, NEW h \in Nat, NEW max \in Nat, NEW read \in Nat,
           k.framing = "chunked", Carries(x.recv, x.req, k, 2 + h),
           read + 1 \in 1..Len(x.recv), x.recv[read + 1] \in Piece(x),
           h + read = 2 * max
    PROVE  k.size > max
<1> DEFINE p == 2 + h + (read + 1)
           whole == 2 * k.size
<1>1. x.recv[read + 1] = UnitAt(x.req, k, p)
  BY DEF Carries
<1>2. p = 3 + 2 * max /\ k.size \in Nat /\ whole \in Nat
  <2>1. k.size \in Nat
    BY KindTypes
  <2>2. p = 3 + (h + read)
    OBVIOUS
  <2> QED
    BY <2>1, <2>2
<1>3. PartAt(k, p) \in {"size", "data"}
  BY <1>1 DEF UnitAt, Piece
<1>4. p # 1 /\ p # 2 /\ p \in Nat
  BY <1>2
<1> HIDE DEF p, whole
<1>5. ~(p > 2 + whole)
  BY <1>3, <1>4 DEF PartAt, whole
<1>6. 3 + 2 * max <= 2 + whole
  BY <1>2, <1>4, <1>5
<1> QED
  BY <1>2, <1>6 DEF whole

(* How far ReadChunks() comes. *)
LEMMA ReadIs ==
    ASSUME NEW c \in Nat, NEW fit \in Nat
    PROVE  LET read == Min({c, fit})
           IN read \in Nat /\ (c <= fit => read = c) /\ (c > fit => read = fit)
<1>1. {c, fit} \in SUBSET Nat /\ {c, fit} # {}
  OBVIOUS
<1>2. /\ Min({c, fit}) \in {c, fit} /\ Min({c, fit}) <= c /\ Min({c, fit}) <= fit
  BY <1>1, MinOf
<1> QED
  BY <1>2

LEMMA HalvesAre ==
    /\ \A n \in Nat : (2 * n) \div 2 = n /\ (2 * n) % 2 = 0
    /\ \A n \in Nat : n \div 2 \in Nat /\ n % 2 \in {0, 1} /\ 2 * (n \div 2) + (n % 2) = n
  OBVIOUS

LEMMA ErrorSet ==
    ASSUME NEW x \in Conns, NEW code \in Nat
    PROVE  LET y == [x EXCEPT !.error = code]
           IN /\ BodyOf(y, x) /\ y.error = code /\ y.mode = x.mode /\ y.size = x.size
              /\ y.recv = x.recv /\ y.req = x.req /\ y.vhost = x.vhost
  BY DEF Conns, BodyOf

LEMMA ErrorTwice ==
    ASSUME NEW x \in Conns
    PROVE  LET w == [x EXCEPT !.error = 0]
           IN /\ w.req = x.req /\ w.mode = x.mode
              /\ \A code : [w EXCEPT !.error = code] = [x EXCEPT !.error = code]
  BY DEF Conns

LEMMA ReadChunksIs ==
    ASSUME NEW x \in Conns, NEW k \in Kinds, NEW m \in Nat,
           x.mode \in {"size", "data"}, k.framing = "chunked",
           x.error = 0, x.vhost = Select(k.host), Halves(x) <= 2 * MaxBody[x.vhost],
           Carries(x.recv, x.req, k, 2 + Halves(x)),
           2 + Halves(x) + Len(x.recv) + m = Total(k)
    PROVE  LET y == ReadChunks(x)
           IN BodyOf(y, x) /\ (Spoilt(y, k) \/ Ended(y, k, m) \/ Partial(y, x.req, k, m))
<1> DEFINE n == Len(x.recv)
           c == Chunks(x)
           h == Halves(x)
           max == MaxBody[x.vhost]
           fit == 2 * max - h
           read == Min({c, fit})
           y == ReadChunks(x)
<1>1. /\ x.recv \in Seq(Units) /\ x.size \in Nat /\ n \in Nat /\ x.req \in Nat
      /\ Total(k) = 3 + 2 * k.size /\ k.size \in Nat /\ max \in Nat /\ h \in Nat
  <2>1. k.size \in Nat
    BY KindTypes
  <2>2. Total(k) = 3 + 2 * k.size
    BY <2>1 DEF Total
  <2>3. x.recv \in Seq(Units) /\ x.size \in Nat /\ n \in Nat /\ x.req \in Nat /\ max \in Nat
    BY FieldTypes
  <2>4. h \in Nat
    BY <2>3 DEF Halves
  <2> QED
    BY <2>1, <2>2, <2>3, <2>4
<1>2. /\ c \in 0..n
      /\ \A i \in 1..c : x.recv[i] \in Piece(x)
      /\ c < n => x.recv[c + 1] \notin Piece(x)
  BY <1>1, ChunksIs
<1> HIDE DEF c
<1>3. fit \in Nat /\ h <= 2 * max
  BY <1>1
<1>4. read \in Nat /\ (c <= fit => read = c) /\ (c > fit => read = fit)
  <2>1. c \in Nat
    BY <1>1, <1>2
  <2> HIDE DEF fit
  <2> QED
    BY <2>1, <1>3, ReadIs
<1> DEFINE halves == h + read
           size == halves \div 2
           mode == IF halves % 2 = 1 THEN "data" ELSE "size"
<1>5. /\ halves \in Nat /\ size \in Nat /\ halves % 2 \in {0, 1}
      /\ 2 * size + (halves % 2) = halves
  <2>1. halves \in Nat
    <3>1. h \in Nat /\ read \in Nat
      BY <1>1, <1>4
    <3> HIDE DEF h, read
    <3> QED
      BY <3>1
  <2> HIDE DEF halves
  <2> QED
    BY <2>1, HalvesAre
<1>6. mode \in {"size", "data"}
  OBVIOUS
<1>7. 2 * size + (IF mode = "data" THEN 1 ELSE 0) = halves
  <2> HIDE DEF halves, size
  <2> QED
    BY <1>5
<1> DEFINE part == [x EXCEPT !.size = size, !.mode = mode]
           rest == SubSeq(x.recv, IF read < n THEN read + 2 ELSE read + 1, n)
<1>8. /\ part \in Conns /\ part.recv = x.recv /\ part.size = size /\ part.mode = mode
      /\ BodyOf(part, x) /\ part.error = 0
  <2> HIDE DEF size, mode
  <2> QED
    BY <1>5, <1>6 DEF Conns, BodyOf
<1>9. y = IF read < c THEN [part EXCEPT !.error = 413]
          ELSE [part EXCEPT !.recv = rest, !.mode = IF read < n THEN "complete" ELSE mode]
  <2>1. y = IF read < c THEN [part EXCEPT !.error = 413]
          ELSE [part EXCEPT !.recv = SubSeq(@, IF read < n THEN read + 2 ELSE read + 1, n),
                            !.mode = IF read < n THEN "complete" ELSE @]
    BY DEF ReadChunks, c
  <2> HIDE DEF part
  <2> QED
    BY <2>1, <1>8 DEF Conns
<1> HIDE DEF part, y, h
<1>10. CASE c > fit
  <2>1. read = fit /\ halves = 2 * max /\ read < c
    BY <1>1, <1>3, <1>4, <1>10
  <2>2. size = max /\ mode = "size"
    <3>1. halves = 2 * max
      BY <2>1
    <3> HIDE DEF halves
    <3> QED
      BY <3>1, <1>1, HalvesAre
  <2>3. y = [part EXCEPT !.error = 413]
    BY <2>1, <1>9
  <2>4. /\ BodyOf(y, part) /\ y.error = 413 /\ y.mode = part.mode /\ y.size = part.size
        /\ y.recv = part.recv /\ y.req = part.req /\ y.vhost = part.vhost
    <3>1. part \in Conns /\ 413 \in Nat
      BY <1>8
    <3> DEFINE z == [part EXCEPT !.error = 413]
    <3>2. /\ BodyOf(z, part) /\ z.error = 413 /\ z.mode = part.mode /\ z.size = part.size
          /\ z.recv = part.recv /\ z.req = part.req /\ z.vhost = part.vhost
      BY <3>1, ErrorSet
    <3> HIDE DEF z
    <3>3. y = z
      BY <2>3 DEF z
    <3> QED
      BY <3>2, <3>3
  <2>5. /\ BodyOf(y, x) /\ y.mode = "size" /\ y.size = MaxBody[y.vhost] /\ y.recv = x.recv
        /\ y.req = x.req /\ y.vhost = x.vhost
    BY <2>2, <2>4, <1>8 DEF BodyOf
  <2>6. 1 \in 1..c /\ read + 1 \in 1..c /\ read + 1 \in 1..n /\ x.recv # <<>>
    <3>1. x.recv \in Seq(Units) /\ c \in 0..n /\ n \in Nat /\ read \in Nat /\ read < c
      BY <2>1, <1>1, <1>2, <1>4
    <3> HIDE DEF read
    <3> QED
      BY <3>1
  <2>7. Head(x.recv) \in Piece(x)
    BY <2>6, <1>1, <1>2
  <2>8. k.size > max
    <3> HIDE DEF max, fit, read
    <3> QED
      BY <2>1, <2>6, <1>1, <1>2, <1>4, TooManyChunks DEF h
  <2>9. Head(y.recv) \in Piece(y) /\ y.recv # <<>> /\ k.size > MaxBody[y.vhost]
    BY <2>5, <2>6, <2>7, <2>8 DEF Piece
  <2> QED
    BY <2>4, <2>5, <2>9 DEF Spoilt, y
<1>11. CASE ~(c > fit)
  <2>1. read = c /\ ~(read < c) /\ halves <= 2 * max
    BY <1>1, <1>2, <1>3, <1>4, <1>11
  <2> HIDE DEF read, fit, max
  <2>2. CASE c < n
    <3>1. h + c = 2 * k.size /\ n = c + 1 /\ m = 0
      <4>1. x.recv[c + 1] \notin Piece(x) /\ c \in 0..n
        BY <1>2, <2>2
      <4> QED
        BY <4>1, <2>2, <1>1, EndOfChunks DEF h
    <3>2. rest = <<>>
      <4>1. read + 2 = n + 1 /\ read < n
        BY <2>1, <3>1, <2>2, <1>1, <1>2
      <4>2. rest = SubSeq(x.recv, n + 1, n)
        BY <4>1
      <4> QED
        BY <4>2, <1>1, RestIsEmpty
    <3>3. size = k.size
      <4>1. halves = 2 * k.size
        BY <3>1, <2>1
      <4> HIDE DEF halves
      <4> QED
        BY <4>1, <1>1, HalvesAre
    <3>4. k.size <= max
      <4>1. 2 * k.size <= 2 * max
        BY <2>1, <3>1
      <4> QED
        BY <4>1, <1>1
    <3> DEFINE none == <<>>
               over == "complete"
    <3>5. y = [part EXCEPT !.recv = none, !.mode = over]
      BY <2>1, <2>2, <3>2, <1>9
    <3>6. none \in Seq(Units) /\ over \in {"complete"}
      OBVIOUS
    <3> HIDE DEF none, over, size, mode
    <3>7. /\ BodyOf(y, x) /\ y.error = 0 /\ y.recv = none /\ y.mode = over
          /\ y.size = size /\ y.vhost = x.vhost
      BY <3>5, <3>6, <1>8 DEF Conns, BodyOf
    <3>8. Ended(y, k, m)
      BY <3>1, <3>3, <3>4, <3>7 DEF Ended, none, over, max
    <3> QED
      BY <3>7, <3>8 DEF y
  <2>3. CASE ~(c < n)
    <3>1. c = n /\ ~(read < n)
      BY <2>1, <2>3, <1>1, <1>2
    <3>2. rest = <<>>
      <4>1. rest = SubSeq(x.recv, n + 1, n)
        BY <3>1, <2>1
      <4> QED
        BY <4>1, <1>1, RestIsEmpty
    <3> DEFINE none == <<>>
    <3>3. y = [part EXCEPT !.recv = none, !.mode = mode]
      BY <2>1, <3>1, <3>2, <1>9
    <3>4. none \in Seq(Units)
      OBVIOUS
    <3>5. 2 + halves + m = Total(k)
      <4>1. halves = h + n
        BY <2>1, <3>1
      <4>2. 2 + h + n + m = Total(k)
        BY DEF h
      <4>3. h \in Nat /\ n \in Nat
        BY <1>1
      <4> HIDE DEF halves, n
      <4> QED
        BY <4>1, <4>2, <4>3
    <3> HIDE DEF none, size, mode, halves
    <3>6. /\ BodyOf(y, x) /\ y.error = 0 /\ y.recv = none /\ y.mode = mode
          /\ y.size = size /\ y.vhost = x.vhost /\ y.req = x.req
      BY <3>3, <3>4, <1>6, <1>8 DEF Conns, BodyOf
    <3>7. Halves(y) = halves /\ TakenOfBody(y) = halves
      BY <3>6, <1>6, <1>7 DEF Halves, TakenOfBody
    <3>8. InBody(y, x.req, k)
      BY <3>6, <3>7, <2>1, <1>6 DEF InBody, max
    <3>9. Partial(y, x.req, k, m)
      BY <3>5, <3>6, <3>7, <3>8, <1>6 DEF Partial, none
    <3> QED
      BY <3>6, <3>9 DEF y
  <2> QED
    BY <2>2, <2>3
<1> QED
  BY <1>10, <1>11

(* A body that is read in step does not begin with data that is misread.   *)
LEMMA ParseChunkedIs ==
    ASSUME NEW x \in Conns, NEW a, NEW k \in Kinds, NEW m \in Nat,
           x.mode \in {"size", "data"}, k.framing = "chunked",
           x.error = 0, x.vhost = Select(k.host), Halves(x) <= 2 * MaxBody[x.vhost],
           Carries(x.recv, x.req, k, 2 + Halves(x)),
           2 + Halves(x) + Len(x.recv) + m = Total(k)
    PROVE  LET y == ParseChunked(x, a)
           IN BodyOf(y, x) /\ (Spoilt(y, k) \/ Ended(y, k, m) \/ Partial(y, x.req, k, m))
<1>1. ~(x.mode = "size" /\ x.recv # <<>> /\ Head(x.recv).part = "data")
  <2> SUFFICES ASSUME x.mode = "size", x.recv # <<>> PROVE Head(x.recv).part # "data"
    OBVIOUS
  <2> DEFINE p == 2 + 2 * x.size + 1
  <2>1. x.recv \in Seq(Units) /\ x.size \in Nat /\ 1 \in 1..Len(x.recv)
    BY FieldTypes
  <2>2. Halves(x) = 2 * x.size
    BY <2>1 DEF Halves
  <2>3. Head(x.recv) = UnitAt(x.req, k, p)
    <3>1. Head(x.recv) = x.recv[1]
      BY <2>1
    <3>2. x.recv[1] = UnitAt(x.req, k, 2 + Halves(x) + 1)
      BY <2>1 DEF Carries
    <3> QED
      BY <3>1, <3>2, <2>2
  <2>4. p # 1 /\ p # 2 /\ p % 2 = 1
    BY <2>1
  <2> HIDE DEF p
  <2>5. PartAt(k, p) # "data"
    BY <2>4 DEF PartAt
  <2> QED
    BY <2>3, <2>5 DEF UnitAt
<1>2. ParseChunked(x, a) = ReadChunks(x)
  BY <1>1 DEF ParseChunked
<1> QED
  BY <1>2, ReadChunksIs

LEMMA ParseBodyIs ==
    ASSUME NEW x, NEW a, NEW r \in Nat, a[r] \in Kinds, NEW m \in Nat, Arrives(x, r, a[r], m),
           x.state = "body", x.vhost = Select(a[r].host),
           a[r].framing = "length" => a[r].size <= MaxBody[x.vhost]
    PROVE  LET y == ParseBody(x, a)
           IN BodyOf(y, x) /\ (Spoilt(y, a[r]) \/ Ended(y, a[r], m) \/ Partial(y, r, a[r], m))
<1> DEFINE k == a[r]
           y == ParseBody(x, a)
<1>1. /\ x \in Conns /\ x.error = 0 /\ x.req = r
      /\ Carries(x.recv, r, k, 2 + TakenOfBody(x))
      /\ 2 + TakenOfBody(x) + Len(x.recv) + m = Total(k)
  BY DEF Arrives, Taken, InBody
<1>2. k \in Kinds /\ k.size \in Nat /\ MaxBody[x.vhost] \in Nat /\ k.framing \in Framings
  BY KindTypes
<1>3. /\ x.size \in Nat /\ x.recv \in Seq(Units) /\ x.left \in Nat /\ Len(x.recv) \in Nat
  BY <1>1 DEF Conns
<1> HIDE DEF k
<1>4. CASE x.mode # "new"
  <2>1. InBody(x, r, k)
    BY <1>4 DEF Arrives, k
  <2>2. CASE k.framing = "length"
    <3>1. x.mode = "identity" /\ x.size + x.left = k.size /\ x.left # 0 /\ k.size <= MaxBody[x.vhost]
      BY <2>1, <2>2 DEF InBody
    <3>2. y = ParseIdentity(x) /\ TakenOfBody(x) = x.size
      BY <3>1 DEF ParseBody, TakenOfBody
    <3> QED
      BY <3>1, <3>2, <2>2, <1>1, <1>2, ParseIdentityIs DEF k
  <2>3. CASE k.framing = "chunked"
    <3>1. x.mode \in {"size", "data"} /\ Halves(x) <= 2 * MaxBody[x.vhost]
      BY <2>1, <2>3 DEF InBody
    <3>2. y = ParseChunked(x, a) /\ TakenOfBody(x) = Halves(x)
      BY <3>1 DEF ParseBody, TakenOfBody
    <3> QED
      BY <3>1, <3>2, <2>3, <1>1, <1>2, ParseChunkedIs DEF k
  <2> QED
    BY <2>1, <2>2, <2>3 DEF InBody
<1>5. CASE x.mode = "new"
  <2>1. x.size = 0 /\ k.framing # "none" /\ TakenOfBody(x) = 0
    BY <1>5 DEF Arrives, InBody, TakenOfBody, k
  <2>2. CASE k.framing = "length"
    <3>1. CASE k.size = 0
      <4>1. InitBody(x, a) = [x EXCEPT !.mode = "complete", !.left = 0]
        BY <3>1, <2>2, <1>1 DEF InitBody, k
      <4>2. y = [x EXCEPT !.mode = "complete", !.left = 0]
        BY <4>1, <1>5, <1>1 DEF ParseBody, Conns
      <4>3. Len(x.recv) = 0 /\ m = 0
        BY <2>1, <2>2, <3>1, <1>1, <1>3 DEF Total
      <4>4. x.recv = <<>>
        BY <4>3, <1>3
      <4> HIDE DEF y
      <4>5. BodyOf(y, x) /\ y.error = x.error /\ y.mode = "complete" /\ y.recv = x.recv /\ y.size = x.size
        BY <4>2, <1>1 DEF BodyOf, Conns
      <4>6. Ended(y, k, m)
        BY <4>5, <4>4, <4>3, <3>1, <2>1, <1>1, <1>2, <2>2 DEF Ended, BodyOf, k
      <4> QED
        BY <4>5, <4>6 DEF y, k
    <3>2. CASE k.size # 0
      <4> DEFINE z == [x EXCEPT !.mode = "identity", !.left = k.size]
      <4>1. InitBody(x, a) = z
        BY <3>2, <2>2, <1>1 DEF InitBody, k
      <4>2. z.mode = "identity"
        BY <1>1 DEF Conns
      <4>3. y = ParseIdentity(z)
        BY <4>1, <4>2, <1>5 DEF ParseBody
      <4>4. /\ BodyOf(z, x) /\ z.error = x.error /\ z.recv = x.recv /\ z.size = x.size
            /\ z.left = k.size
        BY <1>1, <1>2 DEF BodyOf, Conns
      <4> HIDE DEF z, y
      <4>5. z \in Conns /\ z.vhost = Select(k.host) /\ z.error = 0 /\ k.size <= MaxBody[z.vhost]
        BY <4>4, <1>1, <2>2 DEF BodyOf, k
      <4>6. z.size + z.left = k.size /\ z.left # 0 /\ 2 + z.size + Len(z.recv) + m = Total(k)
        BY <4>4, <2>1, <3>2, <1>1, <1>2
      <4>7. BodyOf(y, z) /\ (Ended(y, k, m) \/ Partial(y, z.req, k, m))
        BY <4>2, <4>3, <4>5, <4>6, <2>2, <1>2, ParseIdentityIs
      <4>8. BodyOf(y, x) /\ z.req = r
        BY <4>4, <4>7, <1>1 DEF BodyOf
      <4> QED
        BY <4>7, <4>8 DEF y, k
    <3> QED
      BY <3>1, <3>2
  <2>3. CASE k.framing = "chunked"
    <3> DEFINE z == [x EXCEPT !.mode = "size"]
    <3>1. InitBody(x, a) = z
      BY <2>3, <1>1 DEF InitBody, k
    <3>2. z.mode = "size"
      BY <1>1 DEF Conns
    <3>3. y = ParseChunked(z, a)
      BY <3>1, <3>2, <1>5 DEF ParseBody
    <3>4. BodyOf(z, x) /\ z.error = x.error /\ z.recv = x.recv /\ z.size = x.size
      BY <1>1 DEF BodyOf, Conns
    <3> HIDE DEF z, y
    <3>5. /\ z \in Conns /\ z.vhost = Select(k.host) /\ z.error = 0 /\ z.vhost = x.vhost
          /\ z.req = r
      BY <3>4, <1>1, <2>1, <1>2 DEF BodyOf, k
    <3>9. Halves(z) = 0 /\ Halves(z) <= 2 * MaxBody[z.vhost]
      BY <3>2, <3>4, <3>5, <2>1, <1>2 DEF Halves
    <3>6. /\ 2 + Halves(z) + Len(z.recv) + m = Total(k)
          /\ Carries(z.recv, z.req, k, 2 + Halves(z))
      BY <3>4, <3>5, <3>9, <2>1, <1>1
    <3>7. BodyOf(y, z) /\ (Spoilt(y, k) \/ Ended(y, k, m) \/ Partial(y, z.req, k, m))
      BY <3>2, <3>3, <3>5, <3>6, <3>9, <2>3, <1>2, ParseChunkedIs
    <3>8. BodyOf(y, x)
      BY <3>4, <3>7 DEF BodyOf
    <3> QED
      BY <3>7, <3>8, <3>5 DEF y, k
  <2>4. CASE k.framing = "refused"
    <3> DEFINE z == [x EXCEPT !.error = 501]
    <3>1. InitBody(x, a) = z
      BY <2>4, <1>1 DEF InitBody, k
    <3>2. BodyOf(z, x) /\ z.error = 501 /\ z.mode = x.mode
      <4>1. x \in Conns /\ 501 \in Nat
        BY <1>1
      <4> QED
        BY <4>1, ErrorSet
    <3> HIDE DEF z
    <3>3. y = z
      BY <3>1, <3>2, <1>5 DEF ParseBody
    <3>4. Spoilt(z, k)
      BY <3>2, <2>4, <1>5 DEF Spoilt
    <3> QED
      BY <3>2, <3>3, <3>4 DEF k
  <2> QED
    BY <2>1, <2>2, <2>3, <2>4, <1>2 DEF Framings
<1> QED
  BY <1>4, <1>5

-----------------------------------------------------------------------------
(* The chain, from its end to its start. *)
LEMMA BodyHandled ==
    ASSUME NEW x, NEW a, NEW r \in Nat, a[r] \in Kinds, NEW m \in Nat, NEW outcome \in Outcomes,
           a[r].framing = "none" => a[r].size = 0, NoFalseEnd(a[r]),
           Arrives(x, r, a[r], m), x.state \in {"body", "complete"}, x.vhost = Select(a[r].host),
           a[r].framing = "length" => a[r].size <= MaxBody[x.vhost]
    PROVE  Handled(Body(x, x.vhost, a, outcome), x, r, a[r], m)
<1> DEFINE k == a[r]
           b == Body(x, x.vhost, a, outcome)
<1>1. /\ x \in Conns /\ x.error = 0 /\ x.req = r /\ x.status = 200
      /\ Taken(x) + Len(x.recv) + m = Total(k)
      /\ k.size \in Nat /\ MaxBody[x.vhost] \in Nat
      /\ x.size \in Nat /\ x.recv \in Seq(Units) /\ Len(x.recv) \in Nat
  <2>1. /\ x \in Conns /\ x.error = 0 /\ x.req = r /\ x.status = 200
        /\ Taken(x) + Len(x.recv) + m = Total(k)
    BY DEF Arrives, InBody
  <2> QED
    BY <2>1, KindTypes, FieldTypes
<1>2. CASE x.state # "body"
  <2>1. b = Redirect(x, x.vhost, a, outcome)
    BY <1>2 DEF Body
  <2>2. k.framing = "none" /\ x.state = "complete" /\ x.size = 0 /\ k.size = 0
    BY <1>2 DEF Arrives
  <2>3. Len(x.recv) = 0 /\ m = 0
    <3>1. Taken(x) >= 2 /\ Taken(x) \in Nat
      BY <2>2, <1>1 DEF Taken, TakenOfBody, Halves
    <3>2. Total(k) = 2
      BY <2>2 DEF Total
    <3> QED
      BY <3>1, <3>2, <1>1
  <2>4. x.recv = <<>>
    BY <2>3, <1>1
  <2>5. Whole(x, r, k)
    BY <2>2, <2>4, <1>1 DEF Whole, Arrives, Understood, Readable
  <2>6. ~x.close
    BY DEF Arrives
  <2>7. b \in Conns /\ b.out = x.out /\ Served(b, x, r, k)
    BY <2>1, <2>5, <2>6, RedirectServes
  <2> QED
    BY <2>3, <2>7 DEF Handled
<1>3. CASE x.state = "body"
  <2> DEFINE w == [x EXCEPT !.error = 0]
             y == ParseBody(x, a)
             was == [y EXCEPT !.error = x.error]
             z == [y EXCEPT !.state = "complete"]
  <2>1. BodyOf(y, x) /\ (Spoilt(y, k) \/ Ended(y, k, m) \/ Partial(y, r, k, m))
    BY <1>3, ParseBodyIs
  <2>2. b = IF y.error # 0 THEN Fail(y, y.error)
            ELSE IF y.mode # "complete" THEN y
            ELSE IF y.recv # <<>> THEN Fail(z, 400)
            ELSE Redirect(z, x.vhost, a, outcome)
    <3>1. w = x
      BY <1>1 DEF Conns
    <3>2. y.error = 0 => was = y
      BY <1>1, <2>1 DEF Conns, BodyOf
    <3>3. b = LET v == ParseBody(w, a)
                  u == [v EXCEPT !.error = x.error]
                  done == [u EXCEPT !.state = "complete"]
              IN IF v.error # 0 THEN Fail(v, v.error)
                 ELSE IF v.mode # "complete" THEN u
                 ELSE IF v.recv # <<>> THEN Fail(done, 400)
                 ELSE Redirect(done, x.vhost, a, outcome)
      BY <1>3 DEF Body
    <3>4. b = IF y.error # 0 THEN Fail(y, y.error)
              ELSE IF y.mode # "complete" THEN was
              ELSE IF y.recv # <<>> THEN Fail([was EXCEPT !.state = "complete"], 400)
              ELSE Redirect([was EXCEPT !.state = "complete"], x.vhost, a, outcome)
      BY <3>1, <3>3, Zenon
    <3> HIDE DEF y, was
    <3> QED
      BY <3>2, <3>4
  <2>3. ~x.isCgi /\ ~x.close /\ k.line = "good" /\ k.head = "good"
    BY <1>3 DEF Arrives, Understood
  <2> HIDE DEF y
  <2>4. CASE Spoilt(y, k)
    <3>1. y.error \in Closing /\ y.error \in Errors /\ y.error # 0 /\ y \in Conns
      BY <2>4, <2>1 DEF Spoilt, Closing, Errors, BodyOf
    <3>2. b = Fail(y, y.error)
      BY <3>1, <2>2
    <3> HIDE DEF b
    <3>3. /\ b \in Conns /\ b.status = y.error /\ b.error = y.error /\ b.close
          /\ b.recv = y.recv /\ b.state = y.state /\ b.mode = y.mode /\ b.req = y.req
          /\ b.size = y.size /\ b.vhost = y.vhost /\ b.isCgi = y.isCgi /\ b.out = y.out
          /\ b.runs = y.runs
      BY <3>1, <3>2, FailIs
    <3>4. Piece(b) = Piece(y)
      BY <3>3 DEF Piece
    <3>5. /\ b.state = "body" /\ b.req = r /\ b.vhost = Select(k.host) /\ b.error # 0
          /\ b.out = x.out /\ b.runs = x.runs /\ b.isCgi = x.isCgi
      BY <3>3, <2>1, <1>1, <1>3, <3>1 DEF BodyOf
    <3>6. Refused(b, r, k)
      BY <3>3, <3>4, <3>5, <2>4 DEF Refused, Spoilt, NoFalseEnd
    <3> QED
      BY <3>1, <3>3, <3>5, <3>6, <2>3 DEF Handled, Rejected, b
  <2>5. CASE Partial(y, r, k, m)
    <3>1. b = y
      BY <2>5, <2>2 DEF Partial
    <3> HIDE DEF b
    <3>2. /\ b \in Conns /\ b.status = 200 /\ b.state = "body" /\ b.out = x.out /\ b.runs = x.runs
          /\ b.isCgi = x.isCgi /\ b.close = x.close
      BY <3>1, <2>1, <1>1, <1>3 DEF BodyOf
    <3>3. Waits(b, r, k) /\ Taken(b) + m = Total(k)
      BY <3>1, <3>2, <2>3, <2>5 DEF Partial, Waits, Taken, Understood
    <3> QED
      BY <3>2, <3>3, <2>3 DEF Handled, WaitsOn, b
  <2>6. CASE Ended(y, k, m)
    <3>1. b = Redirect(z, x.vhost, a, outcome)
      BY <2>6, <2>2 DEF Ended
    <3>2. y \in Conns
      BY <2>1 DEF BodyOf
    <3>3. /\ z \in Conns /\ z.state = "complete" /\ z.status = y.status /\ z.isCgi = y.isCgi
          /\ z.recv = y.recv /\ z.req = y.req /\ z.size = y.size /\ z.vhost = y.vhost
          /\ z.close = y.close /\ z.out = y.out /\ z.runs = y.runs
      BY <3>2 DEF Conns
    <3> HIDE DEF z, b
    <3>4. Whole(z, r, k) /\ ~z.close /\ z.vhost = x.vhost /\ z.out = x.out /\ z.runs = x.runs
      BY <3>3, <2>1, <2>3, <2>6, <1>1 DEF Whole, BodyOf, Ended, Readable
    <3>5. LET v == Redirect(z, z.vhost, a, outcome)
          IN v \in Conns /\ v.out = z.out /\ Served(v, z, r, k)
      BY <3>4, RedirectServes
    <3>6. b \in Conns /\ b.out = x.out /\ Served(b, x, r, k) /\ m = 0
      BY <3>1, <3>4, <3>5, <2>6 DEF Served, Earned, Ended
    <3> QED
      BY <3>6 DEF Handled, b
  <2> QED
    BY <2>1, <2>4, <2>5, <2>6
<1> QED
  BY <1>2, <1>3

LEMMA LimitsHandled ==
    ASSUME NEW x, NEW a, NEW r \in Nat, a[r] \in Kinds, NEW m \in Nat, NEW outcome \in Outcomes,
           a[r].framing = "none" => a[r].size = 0, NoFalseEnd(a[r]),
           Arrives(x, r, a[r], m), x.state \in {"body", "complete"}, x.vhost = Select(a[r].host)
    PROVE  Handled(Limits(x, x.vhost, a, outcome), x, r, a[r], m)
<1> DEFINE k == a[r]
           b == Limits(x, x.vhost, a, outcome)
<1>1. x \in Conns /\ x.req = r /\ k.size \in Nat /\ MaxBody[x.vhost] \in Nat
  BY KindTypes DEF Arrives, InBody
<1>2. CASE k.framing = "length" /\ k.size > MaxBody[x.vhost]
  <2>1. b = Fail(x, 413)
    BY <1>1, <1>2 DEF Limits
  <2>2. 413 \in Errors /\ 413 \in Closing
    BY DEF Errors, Closing
  <2>3. x.state = "body"
    BY <1>2 DEF Arrives
  <2>6. ~x.isCgi
    BY DEF Arrives
  <2> HIDE DEF b
  <2>4. /\ b \in Conns /\ b.status = 413 /\ b.error = 413 /\ b.close
        /\ b.state = "body" /\ b.req = r /\ b.vhost = Select(k.host)
        /\ b.isCgi = x.isCgi /\ b.out = x.out /\ b.runs = x.runs
    BY <1>1, <2>1, <2>2, <2>3, FailIs, FailCloses
  <2>5. Refused(b, r, k)
    BY <2>4, <1>2, <1>1 DEF Refused
  <2> QED
    BY <2>2, <2>4, <2>5, <2>6 DEF Handled, Rejected, b
<1>3. CASE ~(k.framing = "length" /\ k.size > MaxBody[x.vhost])
  <2>1. b = Body(x, x.vhost, a, outcome)
    BY <1>1, <1>3 DEF Limits
  <2>2. k.framing = "length" => k.size <= MaxBody[x.vhost]
    BY <1>1, <1>3
  <2> QED
    BY <2>1, <2>2, BodyHandled
<1> QED
  BY <1>2, <1>3

LEMMA VHostSelectHandled ==
    ASSUME NEW x, NEW a, NEW r \in Nat, a[r] \in Kinds, NEW m \in Nat, NEW outcome \in Outcomes,
           a[r].framing = "none" => a[r].size = 0, NoFalseEnd(a[r]),
           Arrives(x, r, a[r], m), x.state \in {"body", "complete"}
    PROVE  Handled(VHostSelect(x, x.vhost, a, outcome), x, r, a[r], m)
<1> DEFINE k == a[r]
           selected == Select(k.host)
           z == [x EXCEPT !.vhost = selected]
           b == VHostSelect(x, x.vhost, a, outcome)
<1>1. x \in Conns /\ x.req = r /\ selected \in Vhosts
  BY SelectIs DEF Arrives, InBody
<1>2. CASE selected = x.vhost
  <2>1. b = Limits(x, x.vhost, a, outcome)
    BY <1>1, <1>2 DEF VHostSelect
  <2> QED
    BY <2>1, <1>2, LimitsHandled
<1>3. CASE selected # x.vhost
  <2>1. b = Limits(z, selected, a, outcome)
    BY <1>1, <1>3 DEF VHostSelect
  <2> HIDE DEF selected
  <2>2. /\ z \in Conns /\ z.vhost = selected /\ z.out = x.out /\ z.runs = x.runs
        /\ z.error = x.error /\ z.status = x.status /\ (z.close <=> x.close) /\ (z.isCgi <=> x.isCgi)
        /\ z.recv = x.recv /\ z.state = x.state /\ z.mode = x.mode /\ z.size = x.size /\ z.req = x.req
    BY <1>1 DEF Conns
  <2>3. ~InBody(x, r, k)
    BY <1>3 DEF InBody, selected
  <2> HIDE DEF z, b
  <2>4. Taken(z) = Taken(x)
    BY <2>2 DEF Taken, TakenOfBody, Halves
  <2>5. Arrives(z, r, k, m)
    BY <2>2, <2>3, <2>4 DEF Arrives, Understood
  <2>6. Handled(Limits(z, z.vhost, a, outcome), z, r, k, m)
    BY <2>2, <2>5, LimitsHandled DEF selected
  <2>7. Handled(b, z, r, k, m)
    BY <2>1, <2>2, <2>6
  <2> QED
    BY <2>2, <2>7 DEF Handled, WaitsOn, Served, Earned, Rejected, b
<1> QED
  BY <1>2, <1>3

(* A refused x stays as it is. *)
LEMMA FailRejects ==
    ASSUME NEW x \in Conns, NEW r, NEW k, NEW code \in Closing, Refused(Fail(x, code), r, k),
           ~x.isCgi
    PROVE  Fail(x, code) \in Conns /\ Fail(x, code).out = x.out /\ Rejected(Fail(x, code), x, r, k)
<1>1. code \in Errors
  BY ClosingAre
<1>2. /\ Fail(x, code) \in Conns /\ Fail(x, code).out = x.out /\ Fail(x, code).runs = x.runs
      /\ (Fail(x, code).isCgi <=> x.isCgi) /\ Fail(x, code).status = code
  BY <1>1, FailIs
<1> QED
  BY <1>2 DEF Rejected

LEMMA RequestHeadHandled ==
    ASSUME NEW x, NEW a, NEW r \in Nat, a[r] \in Kinds, NEW m \in Nat, NEW outcome \in Outcomes,
           a[r].framing = "none" => a[r].size = 0, NoFalseEnd(a[r]),
           Arrives(x, r, a[r], m), x.state # "line"
    PROVE  Handled(RequestHead(x, x.vhost, a, outcome), x, r, a[r], m)
<1> DEFINE k == a[r]
           b == RequestHead(x, x.vhost, a, outcome)
<1>1. /\ x \in Conns /\ x.req = r /\ x.recv \in Seq(Units)
      /\ x.state \in {"head", "body", "complete"}
  BY DEF Arrives, InBody, Conns
<1>2. CASE x.state # "head"
  <2>1. b = VHostSelect(x, x.vhost, a, outcome)
    BY <1>2 DEF RequestHead
  <2> QED
    BY <2>1, <1>1, <1>2, VHostSelectHandled
<1>3. CASE x.state = "head" /\ x.recv = <<>>
  <2>1. b = x
    BY <1>3 DEF RequestHead
  <2>2. Taken(x) + m = Total(k)
    BY <1>3 DEF Arrives, Taken
  <2>3. Waits(x, r, k) /\ ~x.isCgi
    BY <1>3 DEF Waits, Arrives
  <2> QED
    BY <1>1, <2>1, <2>2, <2>3 DEF Handled, WaitsOn
<1>4. CASE x.state = "head" /\ x.recv # <<>>
  <2>1. /\ Carries(x.recv, r, k, 1) /\ x.mode = "new" /\ x.size = 0
        /\ 1 + Len(x.recv) + m = Total(k)
    BY <1>4 DEF Arrives, Taken, InBody
  <2>2. Len(x.recv) \in Nat /\ Len(x.recv) # 0
    BY <1>1, <1>4
  <2>3. Head(x.recv) = UnitAt(r, k, 2)
    BY <2>1, <2>2, <1>1, <1>4 DEF Carries
  <2>4. Head(x.recv).part = "head"
    BY <2>3 DEF UnitAt, PartAt
  <2>5. CASE k.head = "malformed"
    <3>1. b = Fail(x, 400)
      BY <1>1, <1>4, <2>5 DEF RequestHead
    <3>2. 400 \in Errors /\ 400 \in Closing
      BY DEF Errors, Closing
    <3>3. ~x.isCgi
      BY DEF Arrives
    <3> HIDE DEF b
    <3>4. b.close /\ b.error = 400 /\ b.state = "head" /\ b.req = r /\ b.recv = x.recv
      BY <3>1, <3>2, <1>1, <1>4, FailIs, FailCloses
    <3>5. Refused(b, r, k)
      BY <3>4, <1>4, <2>5 DEF Refused
    <3>6. b \in Conns /\ b.out = x.out /\ Rejected(b, x, r, k)
      BY <3>1, <3>2, <3>3, <3>5, <1>1, FailRejects
    <3> QED
      BY <3>6 DEF Handled, b
  <2>6. CASE k.head # "malformed"
    <3> DEFINE tail == Tail(x.recv)
               state == IF k.framing = "none" THEN "complete" ELSE "body"
               y == [x EXCEPT !.recv = tail, !.state = state]
    <3>1. b = VHostSelect(y, x.vhost, a, outcome)
      BY <1>1, <1>4, <2>4, <2>6 DEF RequestHead, Conns
    <3>2. /\ tail \in Seq(Units) /\ Len(tail) = Len(x.recv) - 1
          /\ \A i \in 1..Len(tail) : tail[i] = x.recv[i + 1]
      BY <1>1, <1>4, <2>2
    <3>3. state \in {"body", "complete"}
      OBVIOUS
    <3> HIDE DEF tail, state
    <3>4. /\ y \in Conns /\ y.recv = tail /\ y.state = state
          /\ y.vhost = x.vhost /\ y.out = x.out /\ y.runs = x.runs
          /\ y.error = x.error /\ y.status = x.status /\ (y.close <=> x.close)
          /\ (y.isCgi <=> x.isCgi)
          /\ y.mode = x.mode /\ y.size = x.size /\ y.req = x.req
      BY <1>1, <3>2, <3>3 DEF Conns
    <3> HIDE DEF y, b
    <3>5. Taken(y) = 2
      BY <3>4, <3>3, <2>1 DEF Taken, TakenOfBody
    <3>6. Carries(y.recv, r, k, 2)
      <4> SUFFICES ASSUME NEW i \in 1..Len(tail) PROVE tail[i] = UnitAt(r, k, 2 + i)
        BY <3>4 DEF Carries
      <4>1. i + 1 \in 1..Len(x.recv) /\ 1 + (i + 1) = 2 + i
        BY <3>2, <2>2
      <4> QED
        BY <4>1, <3>2, <2>1 DEF Carries
    <3>7. 2 + Len(y.recv) + m = Total(k)
      BY <3>4, <3>2, <2>1, <2>2
    <3>8. \/ state = "complete" /\ k.framing = "none"
          \/ state = "body" /\ k.framing # "none"
      BY DEF state
    <3>9. Arrives(y, r, k, m)
      <4>1. k.head \in Heads
        BY RequestsAssumption DEF RequestsAssumption
      <4>2. Understood(y, k)
        BY <4>1, <1>4, <2>6 DEF Arrives, Understood, Heads
      <4> QED
        BY <4>2, <3>4, <3>5, <3>6, <3>7, <3>8, <2>1, <1>1 DEF Arrives
    <3>10. Handled(VHostSelect(y, y.vhost, a, outcome), y, r, k, m)
      BY <3>9, <3>3, <3>4, VHostSelectHandled
    <3>11. Handled(b, y, r, k, m)
      BY <3>1, <3>4, <3>10
    <3> QED
      BY <3>4, <3>11 DEF Handled, WaitsOn, Served, Earned, Rejected, b
  <2> QED
    BY <2>5, <2>6
<1> QED
  BY <1>2, <1>3, <1>4, <1>1

LEMMA RequestLineHandled ==
    ASSUME NEW x, NEW a, NEW r \in Nat, a[r] \in Kinds, NEW m \in Nat, NEW outcome \in Outcomes,
           a[r].framing = "none" => a[r].size = 0, a[r].line # "version",
           NoFalseEnd(a[r]),
           Arrives(x, r, a[r], m), x.recv # <<>>
    PROVE  Handled(RequestLine(x, x.vhost, a, outcome), x, r, a[r], m)
<1> DEFINE k == a[r]
           b == RequestLine(x, x.vhost, a, outcome)
<1>1. x \in Conns /\ x.recv \in Seq(Units)
  BY DEF Arrives, Conns
<1>2. CASE x.state # "line"
  <2>1. b = RequestHead(x, x.vhost, a, outcome)
    BY <1>2 DEF RequestLine
  <2> QED
    BY <2>1, <1>2, RequestHeadHandled
<1>3. CASE x.state = "line"
  <2>1. /\ Carries(x.recv, r, k, 0) /\ x.mode = "new" /\ x.size = 0 /\ x.req = 0
        /\ 0 + Len(x.recv) + m = Total(k)
    BY <1>3 DEF Arrives, Taken
  <2>2. Len(x.recv) \in Nat /\ Len(x.recv) # 0
    BY <1>1
  <2>3. Head(x.recv) = UnitAt(r, k, 1)
    BY <2>1, <2>2, <1>1 DEF Carries
  <2>4. Head(x.recv).part = "line" /\ Head(x.recv).req = r
    BY <2>3 DEF UnitAt, PartAt
  <2>5. CASE k.line = "malformed"
    <3>1. b = Fail(x, 400)
      BY <1>3, <2>4, <2>5 DEF RequestLine
    <3>2. 400 \in Errors /\ 400 \in Closing
      BY DEF Errors, Closing
    <3>3. ~x.isCgi
      BY DEF Arrives
    <3> HIDE DEF b
    <3>4. b.close /\ b.error = 400 /\ b.state = "line" /\ b.req = 0 /\ b.recv = x.recv
      BY <3>1, <3>2, <1>1, <1>3, <2>1, FailIs, FailCloses
    <3>5. Refused(b, r, k)
      BY <3>4, <2>4, <2>5 DEF Refused
    <3>6. b \in Conns /\ b.out = x.out /\ Rejected(b, x, r, k)
      BY <3>1, <3>2, <3>3, <3>5, <1>1, FailRejects
    <3> QED
      BY <3>6 DEF Handled, b
  <2>6. CASE k.line # "malformed"
    <3> DEFINE tail == Tail(x.recv)
               y == [x EXCEPT !.recv = tail, !.state = "head", !.req = r]
    <3>1. b = RequestHead(y, x.vhost, a, outcome)
      BY <1>3, <2>4, <2>6, <1>1 DEF RequestLine, Conns
    <3>2. /\ tail \in Seq(Units) /\ Len(tail) = Len(x.recv) - 1
          /\ \A i \in 1..Len(tail) : tail[i] = x.recv[i + 1]
      BY <1>1, <2>2
    <3> HIDE DEF tail
    <3>4. /\ y \in Conns /\ y.recv = tail /\ y.state = "head" /\ y.req = r
          /\ y.vhost = x.vhost /\ y.out = x.out /\ y.runs = x.runs
          /\ y.error = x.error /\ y.status = x.status /\ (y.close <=> x.close)
          /\ (y.isCgi <=> x.isCgi)
          /\ y.mode = x.mode /\ y.size = x.size
      BY <1>1, <3>2 DEF Conns
    <3> HIDE DEF y, b
    <3>5. Taken(y) = 1
      BY <3>4 DEF Taken
    <3>6. Carries(y.recv, r, k, 1)
      <4> SUFFICES ASSUME NEW i \in 1..Len(tail) PROVE tail[i] = UnitAt(r, k, 1 + i)
        BY <3>4 DEF Carries
      <4>1. i + 1 \in 1..Len(x.recv) /\ 0 + (i + 1) = 1 + i
        BY <3>2, <2>2
      <4> QED
        BY <4>1, <3>2, <2>1 DEF Carries
    <3>7. 1 + Len(y.recv) + m = Total(k)
      BY <3>4, <3>2, <2>1, <2>2
    <3>9. Arrives(y, r, k, m)
      <4>1. k.line \in Lines
        BY RequestsAssumption DEF RequestsAssumption
      <4>2. Understood(y, k)
        BY <4>1, <3>4, <2>6 DEF Understood, Lines
      <4> QED
        BY <4>2, <3>4, <3>5, <3>6, <3>7, <2>1 DEF Arrives
    <3>10. Handled(RequestHead(y, y.vhost, a, outcome), y, r, k, m)
      BY <3>9, <3>4, RequestHeadHandled
    <3>11. Handled(b, y, r, k, m)
      BY <3>1, <3>4, <3>10
    <3> QED
      BY <3>4, <3>11 DEF Handled, WaitsOn, Served, Earned, Rejected, b
  <2> QED
    BY <2>5, <2>6
<1> QED
  BY <1>2, <1>3

-----------------------------------------------------------------------------
(* A refused request stays refused, with more of it and after each answer. *)
LEMMA RefusedStays ==
    ASSUME NEW x, NEW y, NEW r, NEW k, Refused(x, r, k), x \in Conns, y \in Conns,
           y.close, y.error # 0, y.state = x.state, y.req = x.req, y.vhost = x.vhost,
           y.mode = x.mode, y.size = x.size,
           Len(x.recv) <= Len(y.recv), \A i \in 1..Len(x.recv) : y.recv[i] = x.recv[i]
    PROVE  Refused(y, r, k)
<1>1. x.recv \in Seq(Units) /\ y.recv \in Seq(Units)
  BY DEF Conns
<1>2. x.recv # <<>> => y.recv # <<>> /\ Head(y.recv) = Head(x.recv)
  BY <1>1
<1>3. CASE x.state # "body"
  BY <1>2, <1>3 DEF Refused
<1>4. CASE x.state = "body"
  <2>1. Piece(x) = Piece(y)
    BY DEF Piece
  <2> QED
    BY <1>2, <1>4, <2>1 DEF Refused
<1> QED
  BY <1>3, <1>4

LEMMA RefusedMore ==
    ASSUME NEW x \in Conns, NEW r, NEW k, Refused(x, r, k), NEW recv \in Seq(Units),
           Len(x.recv) <= Len(recv), \A i \in 1..Len(x.recv) : recv[i] = x.recv[i]
    PROVE  Refused([x EXCEPT !.recv = recv], r, k)
<1> DEFINE y == [x EXCEPT !.recv = recv]
<1>1. /\ y \in Conns /\ y.recv = recv /\ y.state = x.state /\ y.error = x.error
      /\ (y.close <=> x.close) /\ y.mode = x.mode /\ y.req = x.req /\ y.size = x.size
      /\ y.vhost = x.vhost
  BY DEF Conns
<1> HIDE DEF y
<1>2. y.close /\ y.error # 0
  BY <1>1 DEF Refused
<1> QED
  BY <1>1, <1>2, RefusedStays DEF y

LEMMA FailAgain ==
    ASSUME NEW x \in Conns, NEW y \in Conns, NEW r, NEW k, NEW code \in Closing,
           Refused(x, r, k), ~x.isCgi, y = x \/ y = [x EXCEPT !.error = code]
    PROVE  LET z == Fail(y, code) IN z \in Conns /\ z.out = x.out /\ Rejected(z, x, r, k)
<1> DEFINE z == Fail(y, code)
<1>1. code \in Errors /\ code # 0 /\ code \in Nat
  BY ClosingAre
<1>2. /\ y.recv = x.recv /\ y.state = x.state /\ y.mode = x.mode /\ y.req = x.req
      /\ y.size = x.size /\ y.vhost = x.vhost /\ y.isCgi = x.isCgi /\ y.out = x.out
      /\ y.runs = x.runs
  <2>1. CASE y = x
    BY <2>1
  <2>2. CASE y = [x EXCEPT !.error = code]
    BY <2>2, <1>1, ErrorSet DEF BodyOf
  <2> QED
    BY <2>1, <2>2
<1>3. /\ z \in Conns /\ z.status = code /\ z.error = code
      /\ z.recv = y.recv /\ z.state = y.state /\ z.mode = y.mode /\ z.req = y.req
      /\ z.size = y.size /\ z.vhost = y.vhost /\ z.isCgi = y.isCgi /\ z.out = y.out
      /\ z.runs = y.runs
  BY <1>1, FailIs
<1>4. z.close
  BY FailCloses
<1> HIDE DEF z
<1>5. Refused(z, r, k)
  <2>1. x.recv \in Seq(Units) /\ Len(x.recv) <= Len(z.recv)
        /\ \A i \in 1..Len(x.recv) : z.recv[i] = x.recv[i]
    BY <1>2, <1>3 DEF Conns
  <2> QED
    BY <1>1, <1>2, <1>3, <1>4, <2>1, RefusedStays
<1>6. Rejected(z, x, r, k)
  BY <1>2, <1>3, <1>5 DEF Rejected
<1> QED
  BY <1>2, <1>3, <1>6 DEF z

(* What stayed in the buffer of a chunked body is refused again. *)
LEMMA ChunksRefused ==
    ASSUME NEW x \in Conns, NEW a, a[x.req] \in Kinds, a[x.req].reads # "end",
           x.mode = "size", x.size = MaxBody[x.vhost], x.recv # <<>>, Head(x.recv) \in Piece(x)
    PROVE  \E code \in {400, 413} :
              ParseBody([x EXCEPT !.error = 0], a) = [x EXCEPT !.error = code]
<1> DEFINE w == [x EXCEPT !.error = 0]
           k == a[x.req]
<1>1. /\ w \in Conns /\ w.mode = "size" /\ w.size = MaxBody[w.vhost] /\ w.recv = x.recv
      /\ w.req = x.req /\ w.vhost = x.vhost /\ Piece(w) = Piece(x)
      /\ \A code : [w EXCEPT !.error = code] = [x EXCEPT !.error = code]
  BY DEF Conns, Piece
<1>2. \A code : [w EXCEPT !.size = w.size, !.mode = "size", !.error = code] = [x EXCEPT !.error = code]
  BY <1>1 DEF Conns
<1> HIDE DEF w, k
<1>3. ParseBody(w, a) = ParseChunked(w, a)
  BY <1>1 DEF ParseBody
<1>4. CASE Head(w.recv).part = "data"
  <2>1. ParseBody(w, a) = Misread(w, k.reads)
    BY <1>1, <1>3, <1>4 DEF ParseChunked, k
  <2>2. k.reads = "text" \/ k.reads = "long"
    BY KindTypes DEF Readings, k
  <2>3. CASE k.reads = "text"
    <3>1. ParseBody(w, a) = [x EXCEPT !.error = 400]
      BY <1>1, <2>1, <2>3 DEF Misread
    <3> QED
      BY <3>1 DEF w
  <2>4. CASE k.reads = "long"
    <3>1. ParseBody(w, a) = [x EXCEPT !.error = 413]
      BY <1>1, <2>1, <2>4 DEF Misread
    <3> QED
      BY <3>1 DEF w
  <2> QED
    BY <2>2, <2>3, <2>4
<1>5. CASE Head(w.recv).part # "data"
  <2> DEFINE c == Chunks(w)
             h == Halves(w)
             max == MaxBody[w.vhost]
             read == Min({c, 2 * max - h})
  <2>1. ParseBody(w, a) = ReadChunks(w)
    BY <1>3, <1>5 DEF ParseChunked
  <2>2. w.recv \in Seq(Units) /\ max \in Nat /\ h = 2 * max
    <3>1. w.recv \in Seq(Units) /\ max \in Nat
      BY <1>1, FieldTypes
    <3> QED
      BY <3>1, <1>1 DEF Halves
  <2>3. c \in Nat /\ 0 < c
    <3>1. c \in 0..Len(w.recv) /\ (c < Len(w.recv) => w.recv[c + 1] \notin Piece(w))
      BY <2>2, ChunksIs
    <3>2. 0 < Len(w.recv) /\ w.recv[0 + 1] \in Piece(w)
      BY <1>1, <2>2
    <3> HIDE DEF c
    <3> QED
      BY <3>1, <3>2, <2>2
  <2> HIDE DEF c, h, max
  <2>4. read = 0 /\ h + read = 2 * max
    <3>1. 2 * max - h = 0
      BY <2>2
    <3>2. Min({c, 0}) = 0
      BY <2>3, ReadIs
    <3> QED
      BY <3>1, <3>2, <2>2
  <2>5. (h + read) \div 2 = max /\ (h + read) % 2 = 0
    <3> HIDE DEF read
    <3> QED
      BY <2>2, <2>4, HalvesAre
  <2>6. ReadChunks(w) = [w EXCEPT !.size = w.size, !.mode = "size", !.error = 413]
    <3> DEFINE size == (h + read) \div 2
               mode == IF (h + read) % 2 = 1 THEN "data" ELSE "size"
    <3>1. size = w.size /\ mode = "size"
      <4>1. max = w.size
        BY <1>1 DEF max
      <4> HIDE DEF read
      <4> QED
        BY <4>1, <2>5
    <3>2. ReadChunks(w) = [[w EXCEPT !.size = size, !.mode = mode] EXCEPT !.error = 413]
      BY <2>3, <2>4 DEF ReadChunks, c, h, max
    <3> HIDE DEF read, size, mode
    <3> QED
      BY <3>1, <3>2, <1>1 DEF Conns
  <2> QED
    BY <2>1, <2>6, <1>2 DEF w
<1> QED
  BY <1>4, <1>5

LEMMA RefusedAgain ==
    ASSUME NEW x \in Conns, NEW a, NEW r, a[r] \in Kinds, NEW outcome \in Outcomes,
           Refused(x, r, a[r]), ~x.isCgi
    PROVE  LET z == RequestLine(x, x.vhost, a, outcome)
           IN z \in Conns /\ z.out = x.out /\ Rejected(z, x, r, a[r])
<1> DEFINE k == a[r]
           z == RequestLine(x, x.vhost, a, outcome)
<1>1. 400 \in Closing /\ 413 \in Closing /\ 501 \in Closing
  BY DEF Closing
<1> DEFINE w == [x EXCEPT !.error = 0]
<1>2. CASE x.state = "line"
  <2>1. x.recv # <<>> /\ Head(x.recv).req = r /\ k.line = "malformed"
    BY <1>2 DEF Refused
  <2>2. z = Fail(x, 400)
    BY <1>2, <2>1 DEF RequestLine
  <2> QED
    BY <2>2, <1>1, FailAgain
<1>3. CASE x.state = "head"
  <2>1. x.recv # <<>> /\ x.req = r /\ k.head = "malformed"
    BY <1>3 DEF Refused
  <2>2. z = RequestHead(x, x.vhost, a, outcome)
    BY <1>3 DEF RequestLine
  <2>3. z = Fail(x, 400)
    BY <1>3, <2>1, <2>2 DEF RequestHead
  <2> QED
    BY <2>3, <1>1, FailAgain
<1>4. CASE x.state = "body"
  <2>1. /\ x.req = r /\ x.vhost = Select(k.host)
        /\ \/ k.framing = "length" /\ k.size > MaxBody[x.vhost]
           \/ /\ k.framing = "chunked" /\ k.reads # "end" /\ x.mode = "size"
              /\ x.size = MaxBody[x.vhost] /\ x.recv # <<>> /\ Head(x.recv) \in Piece(x)
           \/ k.framing = "refused" /\ x.mode = "new"
    BY <1>4 DEF Refused
  <2>2. z = Limits(x, x.vhost, a, outcome)
    BY <1>4, <2>1 DEF RequestLine, RequestHead, VHostSelect
  <2>3. CASE k.framing = "length" /\ k.size > MaxBody[x.vhost]
    <3>1. z = Fail(x, 413)
      BY <2>1, <2>2, <2>3 DEF Limits
    <3> QED
      BY <3>1, <1>1, FailAgain
  <2>4. CASE /\ k.framing = "chunked" /\ k.reads # "end" /\ x.mode = "size"
             /\ x.size = MaxBody[x.vhost] /\ x.recv # <<>> /\ Head(x.recv) \in Piece(x)
    <3>1. PICK code \in {400, 413} : ParseBody(w, a) = [x EXCEPT !.error = code]
      BY <2>1, <2>4, ChunksRefused
    <3> DEFINE y == [x EXCEPT !.error = code]
    <3>2. y \in Conns /\ y.error = code /\ code # 0 /\ code \in Closing
      BY <1>1, ErrorSet DEF BodyOf
    <3>3. z = Body(x, x.vhost, a, outcome)
      BY <2>1, <2>2, <2>4 DEF Limits
    <3>4. z = Fail(y, code)
      BY <3>1, <3>2, <3>3, <1>4 DEF Body
    <3> QED
      BY <3>2, <3>4, <1>1, FailAgain
  <2>5. CASE k.framing = "refused" /\ x.mode = "new"
    <3> DEFINE y == [x EXCEPT !.error = 501]
    <3>1. y \in Conns /\ y.error = 501 /\ y.mode = "new"
      BY <1>1, <2>5, ErrorSet DEF BodyOf
    <3>2. ParseBody(w, a) = y
      <4>1. w.req = x.req /\ w.mode = x.mode /\ [w EXCEPT !.error = 501] = y
        <5>1. /\ w.req = x.req /\ w.mode = x.mode
              /\ \A c : [w EXCEPT !.error = c] = [x EXCEPT !.error = c]
          BY ErrorTwice, Zenon
        <5> HIDE DEF w
        <5> QED
          BY <5>1, Zenon
      <4>2. InitBody(w, a) = [w EXCEPT !.error = 501]
        BY <4>1, <2>1, <2>5 DEF InitBody
      <4> HIDE DEF y, w
      <4> QED
        BY <4>1, <4>2, <3>1, <2>5 DEF ParseBody
    <3>3. z = Body(x, x.vhost, a, outcome)
      BY <2>1, <2>2, <2>5 DEF Limits
    <3>4. z = Fail(y, 501)
      <4> HIDE DEF y, z
      <4> QED
        BY <3>1, <3>2, <3>3, <1>4 DEF Body
    <3> QED
      BY <3>1, <3>4, <1>1, FailAgain
  <2> QED
    BY <2>1, <2>3, <2>4, <2>5
<1> QED
  BY <1>2, <1>3, <1>4 DEF Refused

-----------------------------------------------------------------------------
(* handleRequest() as a whole. *)
LEMMA AboutIs ==
    ASSUME NEW y \in Conns
    PROVE  About(y) \in Nat
<1>1. y.recv \in Seq(Units) /\ y.req \in Nat
  BY DEF Conns
<1>2. y.recv # <<>> => Head(y.recv) \in Units
  BY <1>1
<1> QED
  BY <1>1, <1>2 DEF About, Units

LEMMA GenerateIs ==
    ASSUME NEW y \in Conns
    PROVE  LET h == GenerateResponse(y)
           IN /\ h \in Conns
              /\ h.out = Append(y.out, [req |-> About(y), code |-> y.status])
              /\ h.status = y.status /\ h.error = y.error /\ (h.close <=> y.close)
              /\ h.recv = y.recv /\ h.state = y.state /\ h.mode = y.mode /\ h.req = y.req
              /\ h.size = y.size /\ h.left = y.left /\ h.vhost = y.vhost
              /\ (h.isCgi <=> y.isCgi) /\ h.runs = y.runs
<1> DEFINE out == Append(y.out, [req |-> About(y), code |-> y.status])
           h == GenerateResponse(y)
<1>1. y.out \in Seq(Results) /\ [req |-> About(y), code |-> y.status] \in Results
  BY AboutIs DEF Conns, Results
<1>2. out \in Seq(Results)
  BY <1>1
<1>3. h = [y EXCEPT !.out = out]
  BY DEF GenerateResponse, Conns
<1> HIDE DEF out
<1> QED
  BY <1>2, <1>3 DEF Conns, out

LEMMA RefusedAnswered ==
    ASSUME NEW x, NEW y \in Conns, NEW r \in Nat \ {0}, NEW k, Rejected(y, x, r, k)
    PROVE  LET h == GenerateResponse(y)
           IN h \in Conns /\ Rejected(h, x, r, k)
                /\ h.out = Append(y.out, [req |-> r, code |-> h.status])
<1> DEFINE h == GenerateResponse(y)
<1>1. Refused(y, r, k) /\ y.close /\ y.error # 0
  BY DEF Rejected, Refused
<1>2. About(y) = r
  BY <1>1 DEF Refused, About
<1>3. /\ h \in Conns
      /\ h.out = Append(y.out, [req |-> About(y), code |-> y.status])
      /\ h.status = y.status /\ h.error = y.error /\ (h.close <=> y.close)
      /\ h.recv = y.recv /\ h.state = y.state /\ h.mode = y.mode /\ h.req = y.req
      /\ h.size = y.size /\ h.vhost = y.vhost /\ (h.isCgi <=> y.isCgi) /\ h.runs = y.runs
  BY GenerateIs
<1> HIDE DEF h
<1>4. /\ y.recv \in Seq(Units) /\ Len(y.recv) <= Len(h.recv)
      /\ \A i \in 1..Len(y.recv) : h.recv[i] = y.recv[i]
  BY <1>3 DEF Conns
<1>5. Refused(h, r, k)
  BY <1>1, <1>3, <1>4, RefusedStays
<1>6. Rejected(h, x, r, k)
  BY <1>3, <1>5 DEF Rejected
<1> QED
  BY <1>2, <1>3, <1>6 DEF h

(* What handleRequest() leaves of a request it knows, if nothing waits to  *)
(* be sent. *)
Left(h, x, r, k, m) ==
    /\ h \in Conns
    /\ \/ WaitsOn(h, x, r, k, m) /\ h.out = <<>>
       \/ /\ m = 0 /\ Served(h, x, r, k)
          /\ h.out = IF h.isCgi THEN <<>> ELSE <<[req |-> r, code |-> h.status]>>
       \/ Rejected(h, x, r, k) /\ h.out = <<[req |-> r, code |-> h.status]>>

LEMMA HandleNew ==
    ASSUME NEW x, NEW a, NEW r \in Nat \ {0}, a[r] \in Kinds, NEW m \in Nat,
           NEW outcome \in Outcomes,
           a[r].framing = "none" => a[r].size = 0, a[r].line # "version",
           NoFalseEnd(a[r]),
           Arrives(x, r, a[r], m), x.recv # <<>>, x.out = <<>>
    PROVE  Left(HandleRequest(x, a, outcome), x, r, a[r], m)
<1> DEFINE k == a[r]
           y == RequestLine(x, x.vhost, a, outcome)
           h == HandleRequest(x, a, outcome)
           g == GenerateResponse(y)
<1>1. Handled(y, x, r, k, m)
  BY RequestLineHandled
<1>2. h = IF y.isCgi \/ (y.state # "complete" /\ y.error = 0) THEN y ELSE g
  BY DEF HandleRequest
<1> HIDE DEF y, h, g
<1>3. y \in Conns /\ y.out = <<>>
  BY <1>1 DEF Handled
<1>4. CASE WaitsOn(y, x, r, k, m)
  <2>1. h = y
    BY <1>2, <1>4 DEF WaitsOn, Waits
  <2> QED
    BY <2>1, <1>3, <1>4 DEF Left, h
<1>5. CASE m = 0 /\ Served(y, x, r, k)
  <2>1. CASE y.isCgi
    <3>1. h = y
      BY <1>2, <2>1
    <3>2. h \in Conns /\ m = 0 /\ Served(h, x, r, k) /\ h.isCgi /\ h.out = <<>>
      BY <3>1, <1>3, <1>5, <2>1
    <3> QED
      BY <3>2 DEF Left, h
  <2>2. CASE ~y.isCgi
    <3>1. y.state = "complete" /\ y.req = r
      BY <1>5 DEF Served, Decided
    <3>2. h = g
      BY <1>2, <3>1, <2>2
    <3>3. About(y) = r
      BY <3>1 DEF About
    <3>4. /\ h \in Conns
          /\ h.out = Append(y.out, [req |-> r, code |-> h.status])
          /\ h.status = y.status /\ (h.close <=> y.close)
          /\ h.recv = y.recv /\ h.state = y.state /\ h.req = y.req
          /\ (h.isCgi <=> y.isCgi) /\ h.runs = y.runs
      BY <1>3, <3>2, <3>3, GenerateIs DEF g
    <3>5. Decided(h, r, k, h.status)
      BY <3>4, <1>5 DEF Served, Decided
    <3>6. Served(h, x, r, k) /\ ~h.isCgi
      BY <3>4, <3>5, <1>5, <2>2 DEF Served, Earned
    <3>7. h.out = <<[req |-> r, code |-> h.status]>>
      BY <3>4, <1>3
    <3> QED
      BY <3>4, <3>6, <3>7, <1>5 DEF Left, h
  <2> QED
    BY <2>1, <2>2
<1>6. CASE Rejected(y, x, r, k)
  <2>1. h = g
    BY <1>2, <1>6 DEF Rejected, Refused
  <2>2. h \in Conns /\ Rejected(h, x, r, k) /\ h.out = Append(y.out, [req |-> r, code |-> h.status])
    BY <2>1, <1>3, <1>6, RefusedAnswered DEF g
  <2>3. h.out = <<[req |-> r, code |-> h.status]>>
    BY <2>2, <1>3
  <2> QED
    BY <2>2, <2>3 DEF Left, h
<1> QED
  BY <1>1, <1>4, <1>5, <1>6 DEF Handled

LEMMA HandleAgain ==
    ASSUME NEW x \in Conns, NEW a, NEW r \in Nat \ {0}, a[r] \in Kinds, NEW outcome \in Outcomes,
           Refused(x, r, a[r]), ~x.isCgi
    PROVE  LET h == HandleRequest(x, a, outcome)
           IN h \in Conns /\ Rejected(h, x, r, a[r])
                /\ h.out = Append(x.out, [req |-> r, code |-> h.status])
<1> DEFINE y == RequestLine(x, x.vhost, a, outcome)
           h == HandleRequest(x, a, outcome)
<1>1. y \in Conns /\ y.out = x.out /\ Rejected(y, x, r, a[r])
  BY RefusedAgain
<1>2. h = IF y.isCgi \/ (y.state # "complete" /\ y.error = 0) THEN y ELSE GenerateResponse(y)
  BY DEF HandleRequest
<1> HIDE DEF y
<1>3. ~y.isCgi /\ y.error # 0
  BY <1>1 DEF Rejected, Refused
<1>4. h = GenerateResponse(y)
  BY <1>2, <1>3
<1> HIDE DEF h
<1> QED
  BY <1>1, <1>4, RefusedAnswered DEF h

-----------------------------------------------------------------------------
(* Sequences of units and of answers. *)
LEMMA Cut ==
    ASSUME NEW S, NEW s \in Seq(S), NEW n \in 1..Len(s)
    PROVE  /\ SubSeq(s, 1, n) \in Seq(S) /\ Len(SubSeq(s, 1, n)) = n
           /\ \A i \in 1..n : SubSeq(s, 1, n)[i] = s[i]
           /\ SubSeq(s, n + 1, Len(s)) \in Seq(S)
           /\ Len(SubSeq(s, n + 1, Len(s))) = Len(s) - n
           /\ \A i \in 1..(Len(s) - n) : SubSeq(s, n + 1, Len(s))[i] = s[n + i]
  OBVIOUS

LEMMA Joined ==
    ASSUME NEW S, NEW s \in Seq(S), NEW t \in Seq(S)
    PROVE  /\ s \o t \in Seq(S) /\ Len(s \o t) = Len(s) + Len(t)
           /\ \A i \in 1..Len(s) : (s \o t)[i] = s[i]
           /\ \A i \in (Len(s) + 1)..(Len(s) + Len(t)) : (s \o t)[i] = t[i - Len(s)]
  OBVIOUS

LEMMA JoinedTwice ==
    ASSUME NEW S, NEW s \in Seq(S), NEW t \in Seq(S), NEW u \in Seq(S)
    PROVE  s \o (t \o u) = s \o t \o u
  OBVIOUS

LEMMA StreamIs ==
    ASSUME NEW r \in Nat, NEW k \in Kinds
    PROVE  /\ Stream(r, k) \in Seq(Units)
           /\ Len(Stream(r, k)) = Total(k)
           /\ Carries(Stream(r, k), r, k, 0)
<1> DEFINE unit(part) == [req |-> r, part |-> part]
           start == <<unit("line"), unit("head")>>
           chunked == k.framing = "chunked"
           size == IF chunked THEN 2 * k.size ELSE k.size
           piece(i) == IF chunked /\ i % 2 = 1 THEN "size" ELSE "data"
           data == [i \in 1..size |-> unit(piece(i))]
           end == IF k.framing = "chunked" THEN <<unit("last")>> ELSE <<>>
<1>1. size \in Nat /\ Total(k) = 2 + size + (IF chunked THEN 1 ELSE 0)
  <2>1. k.size \in Nat
    BY KindTypes
  <2> QED
    BY <2>1 DEF Total
<1>2. \A part \in Parts : unit(part) \in Units
  BY DEF Units
<1>3. start \in Seq(Units) /\ Len(start) = 2 /\ start[1] = unit("line") /\ start[2] = unit("head")
  BY <1>2 DEF Parts
<1>4. data \in Seq(Units) /\ Len(data) = size /\ \A i \in 1..size : data[i] = unit(piece(i))
  BY <1>1, <1>2 DEF Parts
<1>5. /\ end \in Seq(Units) /\ Len(end) = (IF k.framing = "chunked" THEN 1 ELSE 0)
      /\ \A i \in 1..Len(end) : end[i] = unit("last")
  BY <1>2 DEF Parts
<1>6. Stream(r, k) = start \o data \o end
  <2>1. CASE chunked
    <3>1. data = [i \in 1..2 * k.size |-> unit(IF i % 2 = 1 THEN "size" ELSE "data")]
      BY <2>1
    <3>2. Stream(r, k) = start \o (data \o end)
      BY <2>1, <3>1 DEF Stream
    <3>3. start \in Seq(Units) /\ data \in Seq(Units) /\ end \in Seq(Units)
      BY <1>3, <1>4, <1>5
    <3> HIDE DEF start, data, end
    <3>4. start \o (data \o end) = start \o data \o end
      BY <3>3, JoinedTwice
    <3> QED
      BY <3>2, <3>4
  <2>2. CASE ~chunked
    <3>1. data = [i \in 1..k.size |-> unit("data")]
      BY <2>2
    <3>2. Stream(r, k) = start \o data /\ end = <<>>
      BY <2>2, <3>1 DEF Stream
    <3> HIDE DEF start, data, end
    <3>3. start \o data \in Seq(Units)
      BY <1>3, <1>4
    <3> QED
      BY <3>2, <3>3
  <2> QED
    BY <2>1, <2>2
<1>9. \A i \in Nat : (2 + i) % 2 = i % 2
  OBVIOUS
<1> HIDE DEF start, data, end, size
<1>7. /\ Stream(r, k) \in Seq(Units) /\ Len(Stream(r, k)) = 2 + size + Len(end)
      /\ \A i \in 1..2 : Stream(r, k)[i] = start[i]
      /\ \A i \in 3..(2 + size) : Stream(r, k)[i] = data[i - 2]
      /\ \A i \in (3 + size)..(2 + size + Len(end)) : Stream(r, k)[i] = end[i - (2 + size)]
  <2> DEFINE front == start \o data
  <2>1. /\ front \in Seq(Units) /\ Len(front) = 2 + size
        /\ \A i \in 1..2 : front[i] = start[i]
        /\ \A i \in 3..(2 + size) : front[i] = data[i - 2]
    <3>1. /\ front \in Seq(Units) /\ Len(front) = Len(start) + Len(data)
          /\ \A i \in 1..Len(start) : front[i] = start[i]
          /\ \A i \in (Len(start) + 1)..(Len(start) + Len(data)) : front[i] = data[i - Len(start)]
      BY <1>3, <1>4, Joined
    <3> QED
      BY <3>1, <1>1, <1>3, <1>4
  <2> HIDE DEF front
  <2>2. /\ front \o end \in Seq(Units) /\ Len(front \o end) = 2 + size + Len(end)
        /\ \A i \in 1..(2 + size) : (front \o end)[i] = front[i]
        /\ \A i \in (3 + size)..(2 + size + Len(end)) : (front \o end)[i] = end[i - (2 + size)]
    <3>1. /\ front \o end \in Seq(Units) /\ Len(front \o end) = Len(front) + Len(end)
          /\ \A i \in 1..Len(front) : (front \o end)[i] = front[i]
          /\ \A i \in (Len(front) + 1)..(Len(front) + Len(end)) : (front \o end)[i] = end[i - Len(front)]
      <4>1. front \in Seq(Units) /\ end \in Seq(Units)
        BY <2>1, <1>5
      <4> QED
        BY <4>1, Joined
    <3>2. (2 + size) + 1 = 3 + size
      BY <1>1
    <3> QED
      BY <2>1, <3>1, <3>2
  <2>3. Stream(r, k) = front \o end
    BY <1>6 DEF front
  <2>4. \A i \in 1..2 : i \in 1..(2 + size)
    BY <1>1
  <2>5. \A i \in 3..(2 + size) : i \in 1..(2 + size)
    BY <1>1
  <2> QED
    BY <2>1, <2>2, <2>3, <2>4, <2>5
<1>8. ASSUME NEW i \in 1..Len(Stream(r, k)) PROVE Stream(r, k)[i] = UnitAt(r, k, 0 + i)
  <2>1. Len(end) \in Nat /\ i \in 1..(2 + size + Len(end)) /\ 0 + i = i
    BY <1>5, <1>7
  <2>2. CASE i = 1 \/ i = 2
    BY <2>2, <1>7, <1>3 DEF UnitAt, PartAt
  <2>3. CASE i \in 3..(2 + size)
    <3>1. i - 2 \in 1..size /\ i # 1 /\ i # 2 /\ i <= 2 + size
      BY <2>3, <1>1
    <3>2. Stream(r, k)[i] = unit(piece(i - 2))
      BY <3>1, <2>3, <1>7, <1>4
    <3>3. i % 2 = (i - 2) % 2
      BY <3>1, <1>1, <1>9
    <3>4. PartAt(k, i) = piece(i - 2)
      BY <3>1, <3>3, <1>1, <2>1 DEF PartAt, size
    <3> QED
      BY <3>2, <3>4, <2>1 DEF UnitAt
  <2>4. CASE i \in (3 + size)..(2 + size + Len(end))
    <3>1. i - (2 + size) \in 1..Len(end) /\ i # 1 /\ i # 2 /\ ~(i <= 2 + size)
      BY <2>4, <1>1, <2>1
    <3>2. Stream(r, k)[i] = unit("last") /\ chunked
      BY <3>1, <2>4, <1>7, <1>5
    <3>3. PartAt(k, i) = "last"
      BY <3>1, <3>2, <1>1, <2>1 DEF PartAt, size
    <3> QED
      BY <3>2, <3>3, <2>1 DEF UnitAt
  <2> QED
    BY <2>1, <2>2, <2>3, <2>4, <1>1
<1> QED
  BY <1>1, <1>5, <1>7, <1>8 DEF Carries

(* Answers to earlier requests, and then to r: refusals if it was refused  *)
(* before. *)
UpTo(s, r) == \A i \in DOMAIN s : s[i].req < r \/ (s[i].req = r /\ s[i].code \in Closing)
Of(s, r) == \A i \in DOMAIN s : s[i].req = r /\ s[i].code \in Closing

LEMMA RefusalsInOrder ==
    ASSUME NEW s \in Seq(Results), NEW t \in Seq(Results), NEW r \in Nat,
           InOrder(s), UpTo(s, r), Of(t, r)
    PROVE  InOrder(s \o t) /\ UpTo(s \o t, r)
<1> DEFINE u == s \o t
<1>1. /\ DOMAIN u = 1..(Len(s) + Len(t)) /\ Len(s) \in Nat /\ Len(t) \in Nat
      /\ DOMAIN s = 1..Len(s) /\ DOMAIN t = 1..Len(t)
      /\ \A i \in 1..Len(s) : u[i] = s[i]
      /\ \A i \in (Len(s) + 1)..(Len(s) + Len(t)) : u[i] = t[i - Len(s)]
  OBVIOUS
<1>2. \A i \in DOMAIN u : i \in 1..Len(s) \/ i \in (Len(s) + 1)..(Len(s) + Len(t))
  BY <1>1
<1> HIDE DEF u
<1>3. ASSUME NEW i \in (Len(s) + 1)..(Len(s) + Len(t))
      PROVE  u[i].req = r /\ u[i].code \in Closing
  BY <1>1 DEF Of
<1>4. ASSUME NEW i \in 1..Len(s)
      PROVE  u[i].req < r \/ (u[i].req = r /\ u[i].code \in Closing)
  BY <1>1 DEF UpTo
<1>5. UpTo(u, r)
  BY <1>2, <1>3, <1>4 DEF UpTo
<1>6. ASSUME NEW i \in DOMAIN u, NEW j \in DOMAIN u, i < j, u[j].req # 0
      PROVE  \/ u[i].req < u[j].req
             \/ /\ u[i].req = u[j].req /\ u[i].code \in Closing
                /\ u[j].code \in Closing \cup {408}
  <2>1. CASE j \in 1..Len(s)
    <3>1. i \in 1..Len(s)
      BY <1>1, <1>6, <2>1
    <3> QED
      BY <3>1, <2>1, <1>1, <1>6 DEF InOrder
  <2>2. CASE j \in (Len(s) + 1)..(Len(s) + Len(t))
    <3>1. u[j].req = r /\ u[j].code \in Closing
      BY <2>2, <1>3
    <3>2. u[i].req < r \/ (u[i].req = r /\ u[i].code \in Closing)
      BY <1>5 DEF UpTo
    <3> QED
      BY <3>1, <3>2
  <2> QED
    BY <2>1, <2>2, <1>2
<1> QED
  BY <1>5, <1>6 DEF InOrder, u

LEMMA OneMore ==
    ASSUME NEW s \in Seq(Results), NEW answer \in Results, InOrder(s),
           \/ answer.req = 0
           \/ \A i \in DOMAIN s : s[i].req < answer.req
           \/ UpTo(s, answer.req) /\ answer.code \in Closing \cup {408}
    PROVE  InOrder(Append(s, answer))
<1> DEFINE u == Append(s, answer)
<1>1. /\ DOMAIN u = 1..(Len(s) + 1) /\ Len(s) \in Nat /\ DOMAIN s = 1..Len(s)
      /\ \A i \in 1..Len(s) : u[i] = s[i]
      /\ u[Len(s) + 1] = answer
  OBVIOUS
<1> HIDE DEF u
<1>2. ASSUME NEW i \in DOMAIN u, NEW j \in DOMAIN u, i < j, u[j].req # 0
      PROVE  \/ u[i].req < u[j].req
             \/ /\ u[i].req = u[j].req /\ u[i].code \in Closing
                /\ u[j].code \in Closing \cup {408}
  <2>1. i \in 1..Len(s) /\ u[i] = s[i]
    BY <1>1, <1>2
  <2>2. CASE j \in 1..Len(s)
    BY <2>1, <2>2, <1>1, <1>2 DEF InOrder
  <2>3. CASE j = Len(s) + 1
    <3>1. u[j] = answer /\ answer.req # 0
      BY <2>3, <1>1, <1>2
    <3> QED
      BY <3>1, <2>1, <1>1 DEF UpTo
  <2> QED
    BY <2>2, <2>3, <1>1
<1> QED
  BY <1>2 DEF InOrder, u

-----------------------------------------------------------------------------
(* What was executed, when requests are made and executed. *)
LEMMA DoneKept ==
    ASSUME conn'.runs = conn.runs
    PROVE  Done' = Done /\ \A r : RunBefore(r) => RunBefore(r)'
  BY DEF Done, RunBefore

LEMMA CalmKept ==
    ASSUME Calm, got' = got, Done \subseteq Done'
    PROVE  Calm'
  BY DEF Calm

LEMMA EffectsKept ==
    ASSUME Typed, asked' \in Seq(Kinds), Made <= Made', \A i \in 1..Made : asked'[i] = asked[i],
           conn'.runs = conn.runs, Effects
    PROVE  Effects'
<1>1. Made \in Nat /\ Made' \in Nat
  BY DEF Typed, Made
<1>2. \A i \in DOMAIN conn.runs :
         /\ conn.runs[i].req \in 1..Made' /\ asked'[conn.runs[i].req] = asked[conn.runs[i].req]
         /\ asked[conn.runs[i].req] \in Executable
  BY <1>1 DEF Effects
<1>3. ExecutedOnce'
  <2> SUFFICES
        /\ \A i, j \in DOMAIN conn.runs : i < j => conn.runs[i].req < conn.runs[j].req
        /\ \A i \in DOMAIN conn.runs :
              /\ conn.runs[i].size = asked'[conn.runs[i].req].size
              /\ conn.runs[i].vhost = Select(asked'[conn.runs[i].req].host)
              /\ conn.runs[i].size <= MaxBody[conn.runs[i].vhost]
    BY DEF ExecutedOnce
  <2>1. /\ \A i, j \in DOMAIN conn.runs : i < j => conn.runs[i].req < conn.runs[j].req
        /\ \A i \in DOMAIN conn.runs :
              /\ conn.runs[i].size = asked[conn.runs[i].req].size
              /\ conn.runs[i].vhost = Select(asked[conn.runs[i].req].host)
              /\ conn.runs[i].size <= MaxBody[conn.runs[i].vhost]
    BY DEF Effects, ExecutedOnce
  <2> QED
    BY <2>1, <1>2
<1> QED
  BY <1>2, <1>3 DEF Effects

LEMMA EffectsRan ==
    ASSUME Typed, Effects, asked' = asked, Made # 0, RunBefore(Made),
           Ran(conn'.runs, conn.runs, Made, asked[Made])
    PROVE  /\ Effects' /\ RunBefore(Made + 1)' /\ Done \subseteq Done'
           /\ conn'.runs # conn.runs => Made \in Done'
<1>1. /\ Made \in Nat /\ Made \in 1..Made /\ Made' = Made /\ asked \in Seq(Kinds)
      /\ conn.runs \in Seq(Runs)
  BY DEF Typed, Made, Conns
<1>2. CASE conn'.runs = conn.runs
  <2>1. Effects'
    BY <1>1, <1>2, EffectsKept
  <2>2. \A i \in DOMAIN conn.runs : conn.runs[i].req \in 1..Made
    BY DEF Effects
  <2>3. RunBefore(Made + 1)'
    BY <2>2, <1>1, <1>2 DEF RunBefore
  <2> QED
    BY <2>1, <2>3, <1>2, DoneKept
<1> DEFINE run == [req |-> Made, vhost |-> Select(asked[Made].host), size |-> asked[Made].size]
           u == Append(conn.runs, run)
<1>3. CASE /\ conn'.runs = u /\ asked[Made].size <= MaxBody[Select(asked[Made].host)]
           /\ Readable(asked[Made]) /\ asked[Made].target \in {"static", "script"}
  <2>1. /\ DOMAIN u = 1..(Len(conn.runs) + 1) /\ Len(conn.runs) \in Nat
        /\ DOMAIN conn.runs = 1..Len(conn.runs)
        /\ \A i \in 1..Len(conn.runs) : u[i] = conn.runs[i]
        /\ u[Len(conn.runs) + 1] = run
    BY <1>1
  <2>8. asked[Made] \in Executable
    <3>1. asked[Made] \in Kinds
      BY <1>1 DEF Made
    <3> QED
      BY <3>1, <1>3, Zenon DEF Executable, Readable
  <2>2. /\ run.req = Made /\ run.size = asked[run.req].size /\ run.vhost = Select(asked[run.req].host)
        /\ run.size <= MaxBody[run.vhost]
    BY <1>3
  <2> HIDE DEF u, run
  <2>3. /\ \A i, j \in DOMAIN conn.runs : i < j => conn.runs[i].req < conn.runs[j].req
        /\ \A i \in DOMAIN conn.runs :
              /\ conn.runs[i].size = asked[conn.runs[i].req].size
              /\ conn.runs[i].vhost = Select(asked[conn.runs[i].req].host)
              /\ conn.runs[i].size <= MaxBody[conn.runs[i].vhost]
              /\ conn.runs[i].req \in 1..Made
              /\ asked[conn.runs[i].req] \in Executable
              /\ conn.runs[i].req < Made
    BY DEF Effects, ExecutedOnce, RunBefore
  <2>4. \A i \in DOMAIN u : i \in DOMAIN conn.runs \/ i = Len(conn.runs) + 1
    BY <2>1
  <2>5. ASSUME NEW i \in DOMAIN u
        PROVE  /\ u[i].size = asked[u[i].req].size
               /\ u[i].vhost = Select(asked[u[i].req].host)
               /\ u[i].size <= MaxBody[u[i].vhost]
               /\ u[i].req \in 1..Made
               /\ asked[u[i].req] \in Executable
               /\ u[i].req < Made + 1
    <3>1. CASE i \in DOMAIN conn.runs
      BY <3>1, <2>1, <2>3, <1>1
    <3>2. CASE i = Len(conn.runs) + 1
      BY <3>2, <2>1, <2>2, <2>8, <1>1
    <3> QED
      BY <3>1, <3>2, <2>4
  <2>6. ASSUME NEW i \in DOMAIN u, NEW j \in DOMAIN u, i < j PROVE u[i].req < u[j].req
    <3>1. i \in DOMAIN conn.runs /\ u[i] = conn.runs[i]
      BY <2>1, <2>6
    <3>2. CASE j \in DOMAIN conn.runs
      BY <3>1, <3>2, <2>1, <2>3, <2>6
    <3>3. CASE j = Len(conn.runs) + 1
      BY <3>1, <3>3, <2>1, <2>2, <2>3
    <3> QED
      BY <3>2, <3>3, <2>4
  <2>7. ExecutedOnce'
    <3>1. conn'.runs = u /\ asked' = asked
      BY <1>3
    <3> SUFFICES
        /\ \A i, j \in DOMAIN u : i < j => u[i].req < u[j].req
        /\ \A i \in DOMAIN u :
              /\ u[i].size = asked[u[i].req].size
              /\ u[i].vhost = Select(asked[u[i].req].host)
              /\ u[i].size <= MaxBody[u[i].vhost]
      BY <3>1 DEF ExecutedOnce
    <3> QED
      BY <2>5, <2>6
  <2>9. Effects' /\ RunBefore(Made + 1)'
    BY <1>3, <1>1, <2>5, <2>7 DEF Effects, RunBefore
  <2>10. Done \subseteq Done' /\ Made \in Done'
    <3>1. conn'.runs = u
      BY <1>3
    <3>2. /\ \A i \in DOMAIN conn.runs : i \in DOMAIN u /\ u[i].req = conn.runs[i].req
          /\ Len(conn.runs) + 1 \in DOMAIN u /\ u[Len(conn.runs) + 1].req = Made
      BY <2>1, <2>2
    <3> QED
      BY <3>1, <3>2 DEF Done
  <2> QED
    BY <2>9, <2>10
<1> QED
  BY <1>2, <1>3 DEF Ran

-----------------------------------------------------------------------------
LEMMA FreshIs ==
    ASSUME NEW vhost \in Vhosts
    PROVE  /\ Fresh(vhost) \in Conns
           /\ Fresh(vhost).state = "line" /\ Fresh(vhost).isCgi = FALSE
           /\ Fresh(vhost).out = <<>> /\ Fresh(vhost).runs = <<>>
           /\ \A r, k : Waits(Fresh(vhost), r, k)
<1> DEFINE none == <<>>
<1>1. none \in Seq(Units) /\ none \in Seq(Results) /\ none \in Seq(Runs)
  OBVIOUS
<1>2. Fresh(vhost) =
        [recv |-> none, state |-> "line", error |-> 0, mode |-> "new", left |-> 0,
         req |-> 0, size |-> 0, status |-> 200, close |-> FALSE, vhost |-> vhost,
         isCgi |-> FALSE, out |-> none, reading |-> TRUE, runs |-> none]
  BY DEF Fresh
<1> HIDE DEF none
<1>3. /\ Fresh(vhost) \in Conns
      /\ Fresh(vhost).recv = none /\ Fresh(vhost).error = 0 /\ Fresh(vhost).mode = "new"
      /\ Fresh(vhost).req = 0 /\ Fresh(vhost).size = 0 /\ Fresh(vhost).status = 200
      /\ Fresh(vhost).close = FALSE /\ Fresh(vhost).state = "line"
      /\ Fresh(vhost).isCgi = FALSE /\ Fresh(vhost).out = none /\ Fresh(vhost).runs = none
  BY <1>1, <1>2 DEF Conns
<1> HIDE DEF Fresh
<1>4. ASSUME NEW r, NEW k PROVE Waits(Fresh(vhost), r, k)
  BY <1>3 DEF Waits, Understood, none
<1> QED
  BY <1>3, <1>4 DEF none

LEMMA ResetIs ==
    ASSUME NEW x \in Conns
    PROVE  /\ Reset(x) \in Conns
           /\ Reset(x).state = "line" /\ Reset(x).isCgi = FALSE
           /\ Reset(x).out = x.out /\ Reset(x).runs = x.runs
           /\ \A r, k : Waits(Reset(x), r, k)
<1> DEFINE f == Fresh(x.vhost)
<1>1. x.vhost \in Vhosts /\ x.out \in Seq(Results) /\ x.runs \in Seq(Runs)
  BY DEF Conns
<1>2. f \in Conns /\ f.state = "line" /\ f.isCgi = FALSE /\ \A r, k : Waits(f, r, k)
  BY <1>1, FreshIs
<1>3. Reset(x) = [f EXCEPT !.out = x.out, !.runs = x.runs]
  BY DEF Reset
<1> HIDE DEF f
<1>4. /\ Reset(x) \in Conns
      /\ Reset(x).state = f.state /\ Reset(x).isCgi = f.isCgi
      /\ Reset(x).out = x.out /\ Reset(x).runs = x.runs
      /\ Reset(x).error = f.error /\ Reset(x).recv = f.recv /\ Reset(x).status = f.status
      /\ Reset(x).close = f.close /\ Reset(x).mode = f.mode /\ Reset(x).req = f.req
      /\ Reset(x).size = f.size
  BY <1>1, <1>2, <1>3 DEF Conns
<1>5. ASSUME NEW r, NEW k PROVE Waits(Reset(x), r, k)
  BY <1>2, <1>4 DEF Waits, Understood
<1> QED
  BY <1>2, <1>4, <1>5

LEMMA InitInv == Init => IInv
<1> SUFFICES ASSUME Init PROVE IInv
  OBVIOUS
<1>1. /\ asked = <<>> /\ toSend = <<>> /\ wire = <<>> /\ conn = Fresh(Default)
      /\ cgi = FALSE /\ open = TRUE /\ got = <<>>
  BY DEF Init
<1>2. /\ conn \in Conns /\ conn.state = "line" /\ conn.isCgi = FALSE
      /\ conn.out = <<>> /\ conn.runs = <<>> /\ Waits(conn, 0, [size |-> 0])
  BY <1>1, FreshIs, PipelineAssumption DEF PipelineAssumption
<1>3. Typed
  <2>1. asked \in Seq(Kinds) /\ toSend \in Seq(Units) /\ wire \in Seq(Units) /\ got \in Seq(Results)
    BY <1>1
  <2>2. cgi \in BOOLEAN /\ open \in BOOLEAN
    BY <1>1
  <2> QED
    BY <1>2, <2>1, <2>2 DEF Typed
<1>4. Phase
  <2>1. GotBefore(Made + 1) /\ RunBefore(Made + 1)
    BY <1>1, <1>2 DEF GotBefore, RunBefore
  <2>2. Calm
    BY <1>1 DEF Calm
  <2> QED
    BY <1>1, <1>2, <2>1, <2>2 DEF Phase, Idle, NothingToCome
<1>5. Effects
  BY <1>2 DEF Effects, ExecutedOnce
<1>6. Told
  BY <1>1, <1>2 DEF Told, InOrder
<1> QED
  BY <1>3, <1>4, <1>5, <1>6 DEF IInv

-----------------------------------------------------------------------------
(* The client. *)
LEMMA AllAnswered ==
    ASSUME Plain, Typed, NEW kind, Ask(kind)
    PROVE  \A r \in 1..Made : \E i \in DOMAIN got : got[i].req = r
<1> DEFINE S == DOMAIN asked \ Answered
<1>1. DOMAIN asked = 1..Made /\ Made \in Nat
  BY DEF Typed, Made
<1>2. IsFiniteSet(S) /\ Cardinality(S) \in Nat
  <2>1. IsFiniteSet(1..Made)
    BY <1>1, FS_Interval
  <2>2. IsFiniteSet(S)
    BY <2>1, <1>1, FS_Subset
  <2> QED
    BY <2>2, FS_CardinalityType
<1>3. Cardinality(S) = 0
  BY <1>2 DEF Ask, Plain
<1>4. S = {}
  BY <1>2, <1>3, FS_EmptySet
<1> QED
  BY <1>1, <1>4 DEF Answered

LEMMA AskInv ==
    ASSUME Plain, IInv, NEW kind \in Kinds, Ask(kind)
    PROVE  IInv'
<1>1. /\ open /\ toSend = <<>> /\ asked' = Append(asked, kind)
      /\ toSend' = Stream(Len(asked'), kind)
      /\ wire' = wire /\ conn' = conn /\ cgi' = cgi /\ open' = open /\ got' = got
  BY DEF Ask
<1>2. Typed /\ Phase /\ Effects /\ Told
  BY DEF IInv
<1>3. /\ Made \in Nat /\ Made' = Made + 1 /\ asked' \in Seq(Kinds)
      /\ asked'[Made'] = kind /\ \A i \in 1..Made : asked'[i] = asked[i]
  BY <1>1, <1>2 DEF Typed, Made
<1>4. /\ Stream(Made', kind) \in Seq(Units) /\ Len(Stream(Made', kind)) = Total(kind)
      /\ Carries(Stream(Made', kind), Made', kind, 0) /\ toSend' = Stream(Made', kind)
  BY <1>1, <1>3, StreamIs DEF Made
<1>5. Typed'
  BY <1>1, <1>2, <1>3, <1>4 DEF Typed
<1>6. Effects'
  <2>1. Made <= Made' /\ conn'.runs = conn.runs
    BY <1>1, <1>3
  <2> QED
    BY <2>1, <1>2, <1>3, EffectsKept
<1>7. Told'
  BY <1>1, <1>2 DEF Told
<1>8. \A r \in 1..Made : \E i \in DOMAIN got : got[i].req = r
  BY <1>2, AllAnswered
<1>9. ~(Made # 0 /\ GotBefore(Made))
  BY <1>8, <1>3 DEF GotBefore
<1>12. Done' = Done /\ (Calm => Calm') /\ \A r : RunBefore(r) => RunBefore(r)'
  BY <1>1, DoneKept, CalmKept
<1>10. CASE Idle
  <2>1. /\ Waits(conn, 0, [size |-> 0]) /\ conn.state = "line" /\ ~cgi /\ wire = <<>> /\ conn.out = <<>>
        /\ GotBefore(Made + 1) /\ RunBefore(Made + 1) /\ Calm
    BY <1>10 DEF Idle, NothingToCome
  <2>2. Waits(conn, Made', kind) /\ Taken(conn) = 0
    BY <2>1 DEF Waits, Understood, Taken
  <2>3. Carries(wire, Made', kind, 0) /\ Len(wire) = 0
    BY <2>1 DEF Carries
  <2>4. 0 + Len(wire) + Len(toSend') = Total(kind) /\ Carries(toSend', Made', kind, 0 + Len(wire))
    BY <2>3, <1>4, KindTypes
  <2>5. Receiving'
    BY <2>1, <2>2, <2>3, <2>4, <1>1, <1>3, <1>12 DEF Receiving, GotBefore, RunBefore
  <2> QED
    BY <2>5, <1>5, <1>6, <1>7 DEF IInv, Phase
<1>11. CASE \E r \in 1..Made : Doomed(r)
  <2>1. PICK r \in 1..Made : Doomed(r)
    BY <1>11
  <2>2. r \in 1..Made' /\ asked'[r] = asked[r]
    BY <1>3
  <2>3. Doomed(r)'
    BY <2>1, <2>2, <1>1, <1>12 DEF Doomed
  <2> QED
    BY <2>2, <2>3, <1>5, <1>6, <1>7 DEF IInv, Phase
<1> QED
  BY <1>1, <1>2, <1>9, <1>10, <1>11 DEF Phase, Receiving, Working, Answering

LEMMA SendInv ==
    ASSUME IInv, Send
    PROVE  IInv'
<1>1. /\ toSend # <<>>
      /\ asked' = asked /\ conn' = conn /\ cgi' = cgi /\ open' = open /\ got' = got
  BY DEF Send
<1>2. PICK n \in 1..Len(toSend) :
         /\ wire' = wire \o SubSeq(toSend, 1, n)
         /\ toSend' = SubSeq(toSend, n + 1, Len(toSend))
  BY DEF Send
<1>3. Typed /\ Phase /\ Effects /\ Told /\ toSend \in Seq(Units) /\ wire \in Seq(Units)
  BY DEF IInv, Typed
<1> DEFINE part == SubSeq(toSend, 1, n)
<1>4. /\ part \in Seq(Units) /\ Len(part) = n /\ \A i \in 1..n : part[i] = toSend[i]
      /\ toSend' \in Seq(Units) /\ Len(toSend') = Len(toSend) - n
      /\ \A i \in 1..(Len(toSend) - n) : toSend'[i] = toSend[n + i]
  BY <1>2, <1>3, Cut
<1> HIDE DEF part
<1>5. /\ wire' \in Seq(Units) /\ Len(wire') = Len(wire) + n
      /\ \A i \in 1..Len(wire) : wire'[i] = wire[i]
      /\ \A i \in (Len(wire) + 1)..(Len(wire) + n) : wire'[i] = part[i - Len(wire)]
  <2>1. wire' = wire \o part
    BY <1>2 DEF part
  <2>2. /\ wire \o part \in Seq(Units) /\ Len(wire \o part) = Len(wire) + Len(part)
        /\ \A i \in 1..Len(wire) : (wire \o part)[i] = wire[i]
        /\ \A i \in (Len(wire) + 1)..(Len(wire) + Len(part)) : (wire \o part)[i] = part[i - Len(wire)]
    <3>1. wire \in Seq(Units) /\ part \in Seq(Units)
      BY <1>3, <1>4
    <3> QED
      BY <3>1, Joined
  <2> QED
    BY <2>1, <2>2, <1>4
<1>6. Typed'
  BY <1>1, <1>3, <1>4, <1>5 DEF Typed
<1>7. Effects' /\ Told'
  BY <1>1, <1>3 DEF Effects, ExecutedOnce, Told, Made
<1>11. Done' = Done /\ (Calm => Calm') /\ \A r : RunBefore(r) => RunBefore(r)'
  BY <1>1, DoneKept, CalmKept
<1>8. CASE ~open
  BY <1>1, <1>6, <1>7, <1>8 DEF IInv, Phase
<1>9. CASE open /\ Receiving
  <2> DEFINE k == asked[Made]
             p == Taken(conn)
  <2>1. /\ Made # 0 /\ Waits(conn, Made, k) /\ conn.out = <<>> /\ ~cgi
        /\ Carries(wire, Made, k, p) /\ Carries(toSend, Made, k, p + Len(wire))
        /\ p + Len(wire) + Len(toSend) = Total(k) /\ GotBefore(Made) /\ RunBefore(Made) /\ Calm
    BY <1>9 DEF Receiving
  <2>2. p \in Nat /\ Len(wire) \in Nat /\ Len(toSend) \in Nat /\ n \in Nat /\ n <= Len(toSend)
    <3>1. conn \in Conns
      BY <1>3 DEF Typed
    <3>2. Len(wire) \in Nat /\ Len(toSend) \in Nat
      BY <1>3
    <3> QED
      BY <3>1, <3>2, FieldTypes
  <2> HIDE DEF p, k
  <2>3. Carries(wire', Made, k, p)
    <3> SUFFICES ASSUME NEW i \in 1..(Len(wire) + n) PROVE wire'[i] = UnitAt(Made, k, p + i)
      BY <1>5 DEF Carries
    <3>1. CASE i \in 1..Len(wire)
      BY <3>1, <1>5, <2>1 DEF Carries
    <3>2. CASE i \in (Len(wire) + 1)..(Len(wire) + n)
      <4>1. i - Len(wire) \in 1..n /\ i - Len(wire) \in 1..Len(toSend)
            /\ p + Len(wire) + (i - Len(wire)) = p + i
        BY <3>2, <2>2
      <4>2. toSend[i - Len(wire)] = UnitAt(Made, k, p + Len(wire) + (i - Len(wire)))
        BY <4>1, <2>1 DEF Carries
      <4> QED
        BY <3>2, <4>1, <4>2, <1>4, <1>5
    <3> QED
      BY <3>1, <3>2, <2>2
  <2>4. Carries(toSend', Made, k, p + Len(wire'))
    <3> SUFFICES ASSUME NEW i \in 1..(Len(toSend) - n)
                 PROVE  toSend'[i] = UnitAt(Made, k, p + (Len(wire) + n) + i)
      BY <1>4, <1>5 DEF Carries
    <3>1. n + i \in 1..Len(toSend) /\ p + Len(wire) + (n + i) = p + (Len(wire) + n) + i
      BY <2>2
    <3> QED
      BY <3>1, <2>1, <1>4 DEF Carries
  <2>5. p + Len(wire') + Len(toSend') = Total(k)
    BY <2>1, <2>2, <1>4, <1>5
  <2>6. Receiving'
    BY <2>1, <2>3, <2>4, <2>5, <1>1, <1>11 DEF Receiving, Made, GotBefore, RunBefore, p, k
  <2> QED
    BY <2>6, <1>6, <1>7 DEF IInv, Phase
<1>10. CASE open /\ \E r \in 1..Made : Doomed(r)
  <2>1. (\E r \in 1..Made : Doomed(r))'
    BY <1>10, <1>1, <1>11 DEF Doomed, Made
  <2> QED
    BY <2>1, <1>6, <1>7 DEF IInv, Phase
<1> QED
  BY <1>1, <1>3, <1>8, <1>9, <1>10 DEF Phase, Idle, Working, Answering, NothingToCome

-----------------------------------------------------------------------------
(* The server. *)
LEMMA CgiEndInv ==
    ASSUME IInv, CgiEnd
    PROVE  IInv'
<1>1. /\ open /\ cgi /\ cgi' = FALSE
      /\ asked' = asked /\ toSend' = toSend /\ wire' = wire /\ open' = open /\ got' = got
  BY DEF CgiEnd
<1>2. PICK code \in {200, 500} :
         conn' = [conn EXCEPT !.out = Append(@, [req |-> conn.req, code |-> code]),
                              !.reading = FALSE]
  BY DEF CgiEnd
<1>3. Typed /\ Phase /\ Effects /\ Told /\ conn \in Conns
  BY DEF IInv, Typed
<1>4. /\ Made # 0 /\ Decided(conn, Made, asked[Made], 200) /\ asked[Made].target = "script"
      /\ conn.out = <<>> /\ NothingToCome /\ GotBefore(Made) /\ RunBefore(Made + 1)
      /\ Made \in Done /\ Calm
  BY <1>1, <1>3 DEF Phase, Idle, Receiving, Working, Answering, Doomed
<1> DEFINE out == <<[req |-> Made, code |-> code]>>
<1>5. conn.req = Made
  BY <1>4 DEF Decided
<1>6. Append(conn.out, [req |-> conn.req, code |-> code]) = out
  BY <1>4, <1>5
<1>7. conn' = [conn EXCEPT !.out = out, !.reading = FALSE]
  BY <1>2, <1>3, <1>6 DEF Conns
<1>8. out \in Seq(Results)
  <2>1. [req |-> Made, code |-> code] \in Results
    BY <1>3, <1>5 DEF Results, Conns
  <2> QED
    BY <2>1
<1>9. Len(out) = 1 /\ out[1].req = Made /\ out[1].code = code
  OBVIOUS
<1> HIDE DEF out
<1>10. /\ conn' \in Conns /\ conn'.out = out /\ conn'.state = conn.state /\ conn'.req = conn.req
       /\ conn'.recv = conn.recv /\ (conn'.close <=> conn.close) /\ conn'.isCgi = conn.isCgi
       /\ conn'.runs = conn.runs
  BY <1>3, <1>7, <1>8 DEF Conns
<1>11. Typed'
  BY <1>1, <1>3, <1>10 DEF Typed
<1>12. Effects' /\ Told'
  BY <1>1, <1>3, <1>10 DEF Effects, ExecutedOnce, Told, Made
<1>13. Decided(conn', Made, asked[Made], code)
  BY <1>4, <1>10, <1>2, ClosingAre DEF Decided
<1>15. Paid(conn.out[1])' /\ Calm'
  <2>1. Done' = Done
    BY <1>10, DoneKept
  <2> QED
    BY <2>1, <1>1, <1>4, <1>9, <1>10, CalmKept DEF Paid
<1>14. Answering'
  BY <1>1, <1>4, <1>9, <1>10, <1>13, <1>15 DEF Answering, NothingToCome, GotBefore, RunBefore, Made
<1> QED
  BY <1>11, <1>12, <1>14 DEF IInv, Phase

LEMMA DoomedAbout ==
    ASSUME NEW x, NEW r \in Nat \ {0}, NEW k, Refused(x, r, k)
    PROVE  About(x) = r
  BY DEF Refused, About

LEMMA OutSet ==
    ASSUME NEW x \in Conns, NEW out \in Seq(Results), NEW code \in Nat
    PROVE  LET y == [x EXCEPT !.status = code, !.out = out]
           IN y \in Conns /\ y.out = out /\ y.isCgi = x.isCgi /\ y.runs = x.runs
  BY DEF Conns

LEMMA OutOnly ==
    ASSUME NEW x \in Conns, NEW out \in Seq(Results)
    PROVE  [x EXCEPT !.out = out] \in Conns /\ [x EXCEPT !.out = out].out = out
  BY DEF Conns

(* The request a connection is with when its time is over, if any. *)
LEMMA AboutLate ==
    ASSUME IInv, open
    PROVE  About(conn) = 0 \/ (About(conn) \in 1..Made /\ UpTo(got, About(conn)))
<1>1. Phase /\ asked \in Seq(Kinds) /\ Made \in Nat
  BY DEF IInv, Typed, Made
<1>2. CASE Idle
  BY <1>2 DEF Idle, Waits, About
<1>3. CASE Receiving
  <2>1. Made # 0 /\ GotBefore(Made) /\ conn.recv = <<>> /\ conn.req \in {0, Made}
    BY <1>3 DEF Receiving, Waits, InBody
  <2> QED
    BY <2>1, <1>1 DEF GotBefore, About, UpTo
<1>4. CASE Working \/ Answering
  <2>1. Made # 0 /\ GotBefore(Made) /\ conn.recv = <<>> /\ conn.req = Made
    BY <1>4 DEF Working, Answering, Decided
  <2> QED
    BY <2>1, <1>1 DEF GotBefore, About, UpTo
<1>5. CASE \E r \in 1..Made : Doomed(r)
  <2>1. PICK r \in 1..Made : Doomed(r)
    BY <1>5
  <2>2. r \in Nat \ {0} /\ Refused(conn, r, asked[r])
    BY <2>1, <1>1 DEF Doomed
  <2>3. About(conn) = r
    BY <2>2, DoomedAbout
  <2> QED
    BY <2>1, <2>3 DEF Doomed, UpTo
<1> QED
  BY <1>1, <1>2, <1>3, <1>4, <1>5 DEF Phase

LEMMA OnTimeoutInv ==
    ASSUME IInv, OnTimeout
    PROVE  IInv'
<1> DEFINE about == About(conn)
           answer == [req |-> about, code |-> 408]
<1>1. /\ open /\ open' = FALSE /\ cgi' = FALSE
      /\ asked' = asked /\ toSend' = toSend /\ wire' = wire
      /\ got' \in {got, Append(got, answer)}
  BY DEF OnTimeout
<1>2. Typed /\ Phase /\ Effects /\ Told /\ conn \in Conns /\ got \in Seq(Results)
  BY DEF IInv, Typed
<1> DEFINE none == <<>>
<1> DEFINE late == 408
<1>3. conn' = [conn EXCEPT !.status = late, !.out = none]
  BY DEF OnTimeout
<1>4. none \in Seq(Results) /\ none = <<>> /\ late \in Nat
  OBVIOUS
<1> HIDE DEF none, late
<1>5. conn' \in Conns /\ conn'.out = none /\ conn'.isCgi = conn.isCgi /\ conn'.runs = conn.runs
  <2>1. conn \in Conns /\ none \in Seq(Results) /\ late \in Nat
    BY <1>2, <1>4
  <2> QED
    <3> DEFINE y == [conn EXCEPT !.status = late, !.out = none]
    <3>1. y \in Conns /\ y.out = none /\ y.isCgi = conn.isCgi /\ y.runs = conn.runs
      BY <2>1, OutSet
    <3> HIDE DEF y
    <3>2. conn' = y
      BY <1>3 DEF y
    <3> QED
      BY <3>1, <3>2
<1>6. about \in Nat
  BY <1>2, AboutIs
<1>7. /\ answer \in Results /\ answer.req = about /\ answer.code = 408
  BY <1>6 DEF Results
<1>8. about = 0 \/ UpTo(got, about)
  BY <1>1, AboutLate
<1> HIDE DEF answer, about
<1>9. Append(got, answer) \in Seq(Results)
  BY <1>2, <1>7
<1>10. InOrder(got) /\ InOrder(Append(got, answer))
  <2>1. InOrder(got)
    BY <1>2 DEF Told
  <2> QED
    BY <2>1, <1>2, <1>7, <1>8, OneMore
<1>11. Typed'
  BY <1>1, <1>2, <1>5, <1>9 DEF Typed
<1>12. Effects'
  BY <1>1, <1>2, <1>5 DEF Effects, ExecutedOnce, Made
<1>13. Told'
  BY <1>1, <1>2, <1>4, <1>5, <1>10 DEF Told
<1> QED
  BY <1>1, <1>11, <1>12, <1>13 DEF IInv, Phase

(* Reading: a request that is known, or more of one that was refused. *)
LEMMA ReadReceiving ==
    ASSUME Plain, IInv, open, Receiving, NEW n \in 1..Len(wire), NEW outcome \in Outcomes,
           NEW x, x = [conn EXCEPT !.recv = @ \o SubSeq(wire, 1, n)]
    PROVE  /\ Arrives(x, Made, asked[Made], (Len(wire) - n) + Len(toSend))
           /\ (Len(wire) - n) + Len(toSend) \in Nat
           /\ x.runs = conn.runs /\ Taken(x) = Taken(conn)
           /\ Left(HandleRequest(x, asked, outcome), x, Made, asked[Made],
                   (Len(wire) - n) + Len(toSend))
<1> DEFINE k == asked[Made]
           p == Taken(conn)
           part == SubSeq(wire, 1, n)
           m == (Len(wire) - n) + Len(toSend)
<1>1. /\ Made # 0 /\ Waits(conn, Made, k) /\ conn.out = <<>>
      /\ Carries(wire, Made, k, p) /\ p + Len(wire) + Len(toSend) = Total(k)
  BY DEF Receiving
<1>2. /\ conn \in Conns /\ wire \in Seq(Units) /\ toSend \in Seq(Units)
      /\ asked \in Seq(Kinds) /\ ~conn.isCgi
  BY DEF IInv, Typed, Told
<1>3. Made \in Nat \ {0} /\ k \in Kinds
  BY <1>1, <1>2 DEF Made
<1>4. part \in Seq(Units) /\ Len(part) = n /\ \A i \in 1..n : part[i] = wire[i]
  BY <1>2, Cut
<1>5. n \in Nat /\ n # 0 /\ Len(wire) \in Nat /\ Len(toSend) \in Nat /\ m \in Nat /\ p \in Nat
  <2>1. Len(wire) \in Nat /\ Len(toSend) \in Nat
    BY <1>2
  <2>2. n \in Nat /\ n # 0 /\ m \in Nat
    BY <2>1
  <2>3. p \in Nat
    BY <1>2, FieldTypes
  <2> QED
    BY <2>1, <2>2, <2>3
<1>6. conn.recv = <<>> /\ conn.recv \o part = part
  BY <1>1, <1>4 DEF Waits
<1> HIDE DEF part, p, k
<1>7. x = [conn EXCEPT !.recv = part]
  BY <1>2, <1>6 DEF Conns, part
<1>8. /\ x \in Conns /\ x.recv = part /\ x.state = conn.state /\ x.error = conn.error
      /\ x.status = conn.status /\ (x.close <=> conn.close) /\ (x.isCgi <=> conn.isCgi)
      /\ x.mode = conn.mode /\ x.left = conn.left /\ x.req = conn.req /\ x.size = conn.size
      /\ x.vhost = conn.vhost /\ x.out = conn.out /\ x.runs = conn.runs
  <2>1. conn \in Conns /\ part \in Seq(Units)
    BY <1>2, <1>4
  <2> QED
    BY <2>1, <1>7 DEF Conns
<1>9. Taken(x) = p
  BY <1>8 DEF Taken, TakenOfBody, Halves, p
<1>10. Carries(x.recv, Made, k, p)
  <2>1. \A i \in 1..n : i \in 1..Len(wire)
    BY <1>5
  <2> QED
    BY <2>1, <1>1, <1>4, <1>8 DEF Carries
<1>11. p + Len(x.recv) + m = Total(k)
  <2>1. Len(x.recv) = n
    BY <1>4, <1>8
  <2>2. p + n + ((Len(wire) - n) + Len(toSend)) = p + Len(wire) + Len(toSend)
    BY <1>5
  <2> QED
    BY <2>1, <2>2, <1>1
<1>13. Arrives(x, Made, k, m)
  <2>1. x.error = 0 /\ x.status = 200 /\ ~x.close /\ ~x.isCgi
    BY <1>1, <1>2, <1>8 DEF Waits
  <2>2. \/ x.state = "line" /\ x.mode = "new" /\ x.size = 0 /\ x.req = 0
        \/ x.state = "head" /\ x.mode = "new" /\ x.size = 0 /\ x.req = Made
        \/ x.state = "body" /\ InBody(x, Made, k)
    <3>1. Halves(x) = Halves(conn)
      BY <1>8 DEF Halves
    <3> QED
      BY <3>1, <1>1, <1>8 DEF Waits, InBody
  <2>3. Understood(x, k)
    BY <1>1, <1>8 DEF Waits, Understood
  <2> QED
    BY <2>1, <2>2, <2>3, <1>8, <1>9, <1>10, <1>11 DEF Arrives
<1>14. x.recv # <<>>
  BY <1>4, <1>5, <1>8
<1>15. x.out = <<>>
  BY <1>1, <1>8
<1>16. (k.framing = "none" => k.size = 0) /\ k.line # "version" /\ NoFalseEnd(k)
  BY <1>3 DEF Plain
<1>17. Left(HandleRequest(x, asked, outcome), x, Made, k, m)
  BY <1>3, <1>5, <1>13, <1>14, <1>15, <1>16, HandleNew DEF k
<1> QED
  BY <1>5, <1>8, <1>9, <1>13, <1>17 DEF k, p

LEMMA ReadRefused ==
    ASSUME IInv, NEW r \in 1..Made, Doomed(r), NEW n \in 1..Len(wire), NEW outcome \in Outcomes,
           NEW x, x = [conn EXCEPT !.recv = @ \o SubSeq(wire, 1, n)]
    PROVE  LET h == HandleRequest(x, asked, outcome)
           IN /\ h \in Conns /\ Refused(h, r, asked[r]) /\ h.status \in Closing /\ ~h.isCgi
              /\ h.runs = conn.runs /\ h.out = Append(conn.out, [req |-> r, code |-> h.status])
<1> DEFINE part == SubSeq(wire, 1, n)
           recv == conn.recv \o part
<1>1. conn \in Conns /\ wire \in Seq(Units) /\ asked \in Seq(Kinds) /\ conn.isCgi = FALSE
  BY DEF IInv, Typed, Told
<1>2. r \in Nat \ {0} /\ asked[r] \in Kinds
  BY <1>1 DEF Made
<1>3. part \in Seq(Units) /\ conn.recv \in Seq(Units)
  BY <1>1, Cut DEF Conns
<1> HIDE DEF part
<1>4. /\ recv \in Seq(Units) /\ Len(conn.recv) <= Len(recv)
      /\ \A i \in 1..Len(conn.recv) : recv[i] = conn.recv[i]
  <2>1. /\ recv \in Seq(Units) /\ Len(recv) = Len(conn.recv) + Len(part)
        /\ \A i \in 1..Len(conn.recv) : recv[i] = conn.recv[i]
    BY <1>3, Joined
  <2>2. Len(part) \in Nat /\ Len(conn.recv) \in Nat
    BY <1>3
  <2> QED
    BY <2>1, <2>2
<1>5. x = [conn EXCEPT !.recv = recv]
  BY <1>1 DEF Conns, part
<1> HIDE DEF recv
<1>6. /\ x \in Conns /\ x.recv = recv /\ x.state = conn.state /\ x.error = conn.error
      /\ (x.close <=> conn.close) /\ x.isCgi = conn.isCgi
      /\ x.mode = conn.mode /\ x.req = conn.req /\ x.size = conn.size
      /\ x.vhost = conn.vhost /\ x.out = conn.out /\ x.runs = conn.runs
  <2>1. recv \in Seq(Units) /\ conn \in Conns
    BY <1>1, <1>4
  <2> QED
    BY <2>1, <1>5 DEF Conns
<1>7. Refused(conn, r, asked[r]) /\ conn.close /\ conn.error # 0
  BY DEF Doomed, Refused
<1>8. Refused(x, r, asked[r])
  <2>1. conn \in Conns /\ Refused(conn, r, asked[r])
    BY <1>1, <1>7
  <2>2. Refused([conn EXCEPT !.recv = recv], r, asked[r])
    BY <2>1, <1>4, RefusedMore
  <2> QED
    BY <2>2, <1>5
<1>9. ~x.isCgi
  BY <1>1, <1>6
<1> DEFINE h == HandleRequest(x, asked, outcome)
<1>10. h \in Conns /\ Rejected(h, x, r, asked[r])
         /\ h.out = Append(x.out, [req |-> r, code |-> h.status])
  <2>1. x \in Conns
    BY <1>6
  <2> QED
    BY <2>1, <1>2, <1>8, <1>9, HandleAgain
<1> HIDE DEF h
<1> QED
  BY <1>6, <1>10 DEF Rejected, h

LEMMA ReadInv ==
    ASSUME Plain, IInv, Read
    PROVE  IInv'
<1>1. /\ open /\ asked' = asked /\ toSend' = toSend /\ open' = open /\ got' = got
  BY DEF Read
<1>2. PICK n \in 1..Len(wire), outcome \in Outcomes :
        LET x == [conn EXCEPT !.recv = @ \o SubSeq(wire, 1, n)]
            y == HandleRequest(x, asked, outcome)
        IN /\ wire' = SubSeq(wire, n + 1, Len(wire))
           /\ conn' = [y EXCEPT !.isCgi = FALSE]
           /\ cgi' = (cgi \/ y.isCgi)
  BY DEF Read
<1> DEFINE x == [conn EXCEPT !.recv = @ \o SubSeq(wire, 1, n)]
           y == HandleRequest(x, asked, outcome)
<1>3. /\ wire' = SubSeq(wire, n + 1, Len(wire))
      /\ conn' = [y EXCEPT !.isCgi = FALSE]
      /\ cgi' = (cgi \/ y.isCgi)
  BY <1>2
<1>4. /\ Typed /\ Phase /\ Effects /\ Told /\ wire \in Seq(Units) /\ toSend \in Seq(Units)
      /\ Made \in Nat
  BY DEF IInv, Typed, Made
<1>5. /\ wire' \in Seq(Units) /\ Len(wire') = Len(wire) - n
      /\ \A i \in 1..(Len(wire) - n) : wire'[i] = wire[n + i]
      /\ wire # <<>>
  BY <1>3, <1>4, Cut
<1>6. Made' = Made /\ (GotBefore(Made) => GotBefore(Made)') /\ InOrder(got')
  BY <1>1, <1>4 DEF Made, GotBefore, Told
<1>7. CASE Receiving
  <2> DEFINE k == asked[Made]
             p == Taken(conn)
             m == (Len(wire) - n) + Len(toSend)
  <2>1. /\ Made # 0 /\ Waits(conn, Made, k) /\ conn.out = <<>> /\ ~cgi
        /\ Carries(wire, Made, k, p) /\ Carries(toSend, Made, k, p + Len(wire))
        /\ p + Len(wire) + Len(toSend) = Total(k) /\ GotBefore(Made) /\ RunBefore(Made)
        /\ Calm
    BY <1>7 DEF Receiving
  <2>2. /\ x.runs = conn.runs /\ Left(y, x, Made, k, m) /\ m \in Nat
    <3>1. x = [conn EXCEPT !.recv = @ \o SubSeq(wire, 1, n)] /\ y = HandleRequest(x, asked, outcome)
      OBVIOUS
    <3> HIDE DEF x, y
    <3>2. open /\ Receiving
      BY <1>1, <1>7
    <3> QED
      BY <3>1, <3>2, ReadReceiving DEF k
  <2>3. p \in Nat /\ Len(wire) \in Nat /\ Len(toSend) \in Nat /\ n \in Nat /\ n <= Len(wire)
    <3>1. p \in Nat
      BY <1>4, FieldTypes DEF Typed
    <3> QED
      BY <3>1, <1>4 DEF Typed
  <2> HIDE DEF x, y, k, p
  <2>4. /\ conn' \in Conns /\ conn'.isCgi = FALSE
        /\ conn'.recv = y.recv /\ conn'.state = y.state /\ conn'.error = y.error
        /\ conn'.status = y.status /\ (conn'.close <=> y.close)
        /\ conn'.mode = y.mode /\ conn'.left = y.left /\ conn'.req = y.req /\ conn'.size = y.size
        /\ conn'.vhost = y.vhost /\ conn'.out = y.out /\ conn'.runs = y.runs
    <3>1. y \in Conns
      BY <2>2 DEF Left
    <3> QED
      BY <3>1, <1>3 DEF Conns
  <2>5. Typed'
    <3>1. cgi' \in BOOLEAN
      BY <1>3
    <3> QED
      BY <3>1, <1>1, <1>4, <1>5, <2>4 DEF Typed
  <2>6. CASE WaitsOn(y, x, Made, k, m) /\ y.out = <<>>
    <3>1. Waits(y, Made, k) /\ ~y.isCgi /\ Taken(y) + m = Total(k) /\ y.runs = conn.runs
      BY <2>6, <2>2 DEF WaitsOn
    <3>2. Waits(conn', Made, k)
      <4>1. Halves(conn') = Halves(y)
        BY <2>4 DEF Halves
      <4>2. InBody(y, Made, k) => InBody(conn', Made, k)
        BY <4>1, <2>4 DEF InBody
      <4> QED
        BY <3>1, <4>2, <2>4 DEF Waits, Understood
    <3>3. Taken(conn') = p + n
      <4>1. Taken(conn') = Taken(y) /\ Taken(y) \in Nat
        <5>1. Taken(conn') = Taken(y)
          BY <2>4 DEF Taken, TakenOfBody, Halves
        <5> QED
          BY <5>1, <2>4, FieldTypes
      <4>2. Taken(y) + m = p + Len(wire) + Len(toSend)
        BY <3>1, <2>1
      <4> HIDE DEF Taken
      <4>3. Taken(y) = p + n
        BY <4>1, <4>2, <2>3
      <4> QED
        BY <4>1, <4>3
    <3>4. Carries(wire', Made, k, p + n)
      <4> SUFFICES ASSUME NEW i \in 1..(Len(wire) - n) PROVE wire'[i] = UnitAt(Made, k, (p + n) + i)
        BY <1>5 DEF Carries
      <4>1. n + i \in 1..Len(wire) /\ p + (n + i) = (p + n) + i
        BY <2>3
      <4> QED
        BY <4>1, <2>1, <1>5 DEF Carries
    <3>5. (p + n) + Len(wire') = p + Len(wire)
      BY <1>5, <2>3
    <3>6. (p + n) + Len(wire') + Len(toSend) = Total(k)
      BY <3>5, <2>1
    <3>7. Receiving'
      <4>1. ~cgi'
        BY <1>3, <2>1, <3>1
      <4>2. Carries(toSend, Made, k, Taken(conn') + Len(wire'))
        BY <2>1, <3>3, <3>5
      <4>3. RunBefore(Made)'
        BY <2>1, <2>4, <3>1, <1>6 DEF RunBefore
      <4>4. GotBefore(Made)'
        BY <2>1, <1>6
      <4>5. Calm'
        BY <2>1, <2>4, <3>1, <1>1, DoneKept, CalmKept
      <4> QED
        BY <4>1, <4>2, <4>3, <4>4, <4>5, <1>1, <1>6, <2>1, <2>4, <2>6, <3>2, <3>3, <3>4, <3>6 DEF Receiving, k
    <3>8. Effects'
      BY <1>1, <1>4, <2>4, <3>1 DEF Effects, ExecutedOnce, Made
    <3>9. Told'
      BY <1>1, <1>6, <2>4 DEF Told
    <3> QED
      BY <2>5, <3>7, <3>8, <3>9 DEF IInv, Phase
  <2>7. CASE /\ m = 0 /\ Served(y, x, Made, k)
             /\ y.out = IF y.isCgi THEN <<>> ELSE <<[req |-> Made, code |-> y.status]>>
    <3>1. /\ Decided(y, Made, k, y.status) /\ Ran(conn'.runs, conn.runs, Made, k)
          /\ y.isCgi => k.target = "script" /\ y.status = 200
      BY <2>7, <2>2, <2>4 DEF Served
    <3>2. Decided(conn', Made, k, y.status)
      BY <3>1, <2>4 DEF Decided
    <3>3. Len(wire') = 0 /\ Len(toSend) = 0
      BY <2>7, <2>3, <1>5
    <3>4. NothingToCome'
      BY <3>3, <1>1, <1>4, <1>5 DEF NothingToCome
    <3>5. /\ Effects' /\ RunBefore(Made + 1)' /\ Done \subseteq Done'
          /\ conn'.runs # conn.runs => Made \in Done'
      BY <1>1, <1>4, <2>1, <3>1, EffectsRan DEF k
    <3>6. Told'
      BY <1>1, <1>6, <2>4 DEF Told
    <3>9. Calm'
      BY <3>5, <2>1, <1>1, CalmKept
    <3>10. y.status = 200 \/ (y.status \in Closing /\ ~conn'.close) => Made \in Done'
      BY <3>5, <2>2, <2>4, <2>7 DEF Served, Earned
    <3>7. CASE y.isCgi
      <4>1. Working'
        BY <1>1, <1>3, <1>6, <2>1, <2>4, <2>7, <3>1, <3>2, <3>4, <3>5, <3>7, <3>9, <3>10 DEF Working, k
      <4> QED
        BY <2>5, <3>5, <3>6, <4>1 DEF IInv, Phase
    <3>8. CASE ~y.isCgi
      <4>1. conn'.out = <<[req |-> Made, code |-> y.status]>>
        BY <2>4, <2>7, <3>8
      <4>2. Len(conn'.out) = 1 /\ conn'.out[1].req = Made /\ conn'.out[1].code = y.status
        BY <4>1
      <4>4. Paid(conn.out[1])'
        BY <3>10, <4>2, <1>6 DEF Paid
      <4>3. Answering'
        BY <1>1, <1>3, <1>6, <2>1, <3>2, <3>4, <3>5, <3>8, <3>9, <4>2, <4>4 DEF Answering, k
      <4> QED
        BY <2>5, <3>5, <3>6, <4>3 DEF IInv, Phase
    <3> QED
      BY <3>7, <3>8
  <2>8. CASE Rejected(y, x, Made, k) /\ y.out = <<[req |-> Made, code |-> y.status]>>
    <3>1. /\ Refused(y, Made, k) /\ y.status \in Closing /\ ~y.isCgi /\ y.runs = conn.runs
          /\ y \in Conns
      BY <2>8, <2>2 DEF Rejected, Left
    <3>2. Refused(conn', Made, k)
      <4>1. y.close /\ y.error # 0
        BY <3>1 DEF Refused
      <4>2. y.recv \in Seq(Units)
        BY <3>1 DEF Conns
      <4> QED
        BY <4>1, <4>2, <3>1, <2>4, RefusedStays
    <3>3. conn'.out # <<>> /\ Of(conn'.out, Made)
      BY <2>4, <2>8, <3>1 DEF Of
    <3>8. RunBefore(Made)'
      BY <2>1, <2>4, <3>1, <1>6, DoneKept DEF RunBefore
    <3>4. Doomed(Made)'
      BY <1>1, <1>3, <1>6, <2>1, <3>1, <3>2, <3>3, <3>8 DEF Doomed, Of, GotBefore, k
    <3>5. Effects'
      BY <1>1, <1>4, <2>4, <3>1 DEF Effects, ExecutedOnce, Made
    <3>6. Told'
      BY <1>1, <1>6, <2>4 DEF Told
    <3>7. Made' \in 1..Made'
      BY <1>4, <1>6, <2>1
    <3> QED
      BY <2>5, <3>4, <3>5, <3>6, <3>7, <1>6 DEF IInv, Phase
  <2> QED
    BY <2>2, <2>6, <2>7, <2>8 DEF Left
<1>8. CASE \E r \in 1..Made : Doomed(r)
  <2>1. PICK r \in 1..Made : Doomed(r)
    BY <1>8
  <2>2. /\ y \in Conns /\ Refused(y, r, asked[r]) /\ y.status \in Closing /\ ~y.isCgi
        /\ y.runs = conn.runs /\ y.out = Append(conn.out, [req |-> r, code |-> y.status])
    BY <2>1, ReadRefused
  <2> HIDE DEF x, y
  <2>3. /\ conn' \in Conns /\ conn'.isCgi = FALSE
        /\ conn'.recv = y.recv /\ conn'.state = y.state /\ conn'.error = y.error
        /\ (conn'.close <=> y.close) /\ conn'.mode = y.mode /\ conn'.req = y.req
        /\ conn'.size = y.size /\ conn'.vhost = y.vhost /\ conn'.out = y.out
        /\ conn'.runs = y.runs
    <3>1. y \in Conns
      BY <2>2
    <3> QED
      BY <3>1, <1>3 DEF Conns
  <2>4. /\ ~cgi /\ conn.out # <<>> /\ Of(conn.out, r) /\ conn.out \in Seq(Results)
        /\ \A i \in DOMAIN got : got[i].req < r \/ (got[i].req = r /\ got[i].code \in Closing)
        /\ RunBefore(r)
    BY <2>1, <1>4 DEF Doomed, Of, Typed, Conns
  <2>5. Refused(conn', r, asked[r])
    <3>1. y.close /\ y.error # 0
      BY <2>2 DEF Refused
    <3>2. y.recv \in Seq(Units)
      BY <2>2 DEF Conns
    <3> QED
      BY <3>1, <3>2, <2>2, <2>3, RefusedStays
  <2>6. conn'.out # <<>> /\ Of(conn'.out, r)
    <3> DEFINE answer == [req |-> r, code |-> y.status]
    <3>1. answer.req = r /\ answer.code \in Closing
      BY <2>2
    <3> HIDE DEF answer
    <3>2. conn'.out = Append(conn.out, answer)
      BY <2>2, <2>3 DEF answer
    <3> QED
      BY <3>1, <3>2, <2>4 DEF Of
  <2>10. RunBefore(r)'
    BY <2>2, <2>3, <2>4, DoneKept
  <2>7. Doomed(r)'
    BY <1>1, <1>3, <2>2, <2>4, <2>5, <2>6, <2>10 DEF Doomed, Of
  <2>8. Typed'
    <3>1. cgi' \in BOOLEAN
      BY <1>3
    <3> QED
      BY <3>1, <1>1, <1>4, <1>5, <2>3 DEF Typed
  <2>9. Effects' /\ Told'
    BY <1>1, <1>4, <1>6, <2>2, <2>3 DEF Effects, ExecutedOnce, Told, Made
  <2> QED
    BY <2>7, <2>8, <2>9, <1>6 DEF IInv, Phase
<1> QED
  BY <1>1, <1>4, <1>5, <1>7, <1>8 DEF Phase, Idle, Working, Answering, NothingToCome

(* Writing: the answer, or some of the refusals. *)
LEMMA WriteInv ==
    ASSUME IInv, Write
    PROVE  IInv'
<1>1. /\ open /\ conn.out # <<>> /\ asked' = asked /\ toSend' = toSend /\ wire' = wire
      /\ cgi' = (cgi /\ open')
  BY DEF Write
<1>2. PICK n \in 1..Len(conn.out) :
        /\ got' = got \o SubSeq(conn.out, 1, n)
        /\ LET rest == SubSeq(conn.out, n + 1, Len(conn.out))
               y == [conn EXCEPT !.out = rest]
           IN /\ conn' = IF rest = <<>> /\ ~conn.close THEN Reset(y) ELSE y
              /\ open' = ~(rest = <<>> /\ conn.close)
  BY DEF Write
<1> DEFINE part == SubSeq(conn.out, 1, n)
           rest == SubSeq(conn.out, n + 1, Len(conn.out))
           y == [conn EXCEPT !.out = rest]
<1>3. /\ got' = got \o part
      /\ conn' = IF rest = <<>> /\ ~conn.close THEN Reset(y) ELSE y
      /\ open' = ~(rest = <<>> /\ conn.close)
  BY <1>2
<1>4. /\ Typed /\ Phase /\ Effects /\ Told /\ conn \in Conns /\ got \in Seq(Results)
      /\ conn.out \in Seq(Results) /\ Made \in Nat
  BY DEF IInv, Typed, Conns, Made
<1>5. /\ part \in Seq(Results) /\ Len(part) = n /\ \A i \in 1..n : part[i] = conn.out[i]
      /\ rest \in Seq(Results) /\ Len(rest) = Len(conn.out) - n
      /\ \A i \in 1..(Len(conn.out) - n) : rest[i] = conn.out[n + i]
  BY <1>4, Cut
<1>6. got' \in Seq(Results) /\ Len(got') = Len(got) + n
  <2> HIDE DEF part
  <2>1. got \o part \in Seq(Results) /\ Len(got \o part) = Len(got) + Len(part)
    BY <1>4, <1>5, Joined
  <2> QED
    BY <2>1, <1>3, <1>5
<1> HIDE DEF part, rest
<1>7. /\ y \in Conns /\ y.out = rest /\ y.runs = conn.runs /\ y.recv = conn.recv
      /\ y.state = conn.state /\ y.error = conn.error /\ (y.close <=> conn.close)
      /\ y.mode = conn.mode /\ y.req = conn.req /\ y.size = conn.size /\ y.vhost = conn.vhost
      /\ y.isCgi = conn.isCgi
  <2>1. conn \in Conns /\ rest \in Seq(Results)
    BY <1>4, <1>5
  <2> QED
    BY <2>1 DEF Conns
<1> HIDE DEF y
<1>8. /\ conn' \in Conns /\ conn'.out = rest /\ conn'.runs = conn.runs /\ conn'.isCgi = FALSE
  <2>1. Reset(y) \in Conns /\ Reset(y).out = y.out /\ Reset(y).runs = y.runs /\ Reset(y).isCgi = FALSE
    BY <1>7, ResetIs
  <2>2. conn.isCgi = FALSE
    BY <1>4 DEF Told
  <2> QED
    BY <1>3, <1>7, <2>1, <2>2
<1>9. Typed'
  <2>1. cgi' \in BOOLEAN /\ open' \in BOOLEAN
    BY <1>1, <1>3
  <2> QED
    BY <2>1, <1>1, <1>4, <1>6, <1>8 DEF Typed
<1>10. Effects' /\ Made' = Made
  BY <1>1, <1>4, <1>8 DEF Effects, ExecutedOnce, Made
<1>11. ~open' => conn'.out = <<>>
  BY <1>3, <1>8
<1>12. CASE Answering
  <2>1. /\ Made # 0 /\ Len(conn.out) = 1 /\ conn.out[1].req = Made
        /\ ~cgi /\ NothingToCome /\ GotBefore(Made) /\ RunBefore(Made + 1)
        /\ Paid(conn.out[1]) /\ Calm
    BY <1>12 DEF Answering
  <2>2. n = 1 /\ Len(rest) = 0
    BY <2>1, <1>5
  <2>3. rest = <<>> /\ part = <<conn.out[1]>> /\ conn.out[1] \in Results
    BY <2>1, <2>2, <1>4, <1>5
  <2> DEFINE answer == conn.out[1]
  <2>4. got' = Append(got, answer)
    BY <2>3, <1>3, <1>4
  <2>5. InOrder(got')
    <3>1. InOrder(got) /\ \A i \in DOMAIN got : got[i].req < answer.req
      BY <2>1, <1>4 DEF Told, GotBefore
    <3> QED
      BY <3>1, <2>3, <2>4, <1>4, OneMore
  <2>6. GotBefore(Made + 1)'
    <3>1. /\ DOMAIN got = 1..Len(got) /\ DOMAIN got' = 1..(Len(got) + 1) /\ Len(got) \in Nat
          /\ \A i \in 1..Len(got) : got'[i] = got[i]
          /\ got'[Len(got) + 1] = answer
      BY <2>3, <2>4, <1>4
    <3>2. ASSUME NEW i \in DOMAIN got' PROVE got'[i].req < Made + 1
      <4>1. CASE i \in 1..Len(got)
        <5>1. got'[i] = got[i] /\ got[i].req < Made /\ got[i] \in Results
          BY <3>1, <4>1, <2>1, <1>4 DEF GotBefore
        <5> QED
          BY <5>1, <1>4 DEF Results
      <4>2. CASE i = Len(got) + 1
        BY <3>1, <4>2, <2>1, <1>4
      <4> QED
        BY <3>1, <3>2, <4>1, <4>2
    <3> QED
      BY <3>2, <1>10 DEF GotBefore
  <2>7. Told'
    BY <2>5, <1>8, <1>11 DEF Told
  <2>8. CASE conn.close
    <3>1. ~open'
      BY <2>3, <2>8, <1>3
    <3> QED
      BY <3>1, <2>7, <1>9, <1>10 DEF IInv, Phase
  <2>9. CASE ~conn.close
    <3>1. conn' = Reset(y)
      BY <2>3, <2>9, <1>3
    <3>2. Waits(conn', 0, [size |-> 0]) /\ conn'.state = "line"
      BY <3>1, <1>7, ResetIs
    <3>3. RunBefore(Made + 1)'
      BY <2>1, <1>8, <1>10 DEF RunBefore
    <3>5. Calm'
      <4>1. Done' = Done
        BY <1>8, DoneKept
      <4>2. \A i \in DOMAIN got' : (i \in DOMAIN got /\ got'[i] = got[i]) \/ got'[i] = answer
        BY <2>3, <2>4, <1>4
      <4>3. answer.code \in Closing => answer.req \in Done
        BY <2>1, <2>9 DEF Paid
      <4> QED
        BY <4>1, <4>2, <4>3, <2>1 DEF Calm
    <3>4. Idle'
      BY <3>2, <3>3, <3>5, <2>1, <2>3, <2>6, <1>1, <1>8 DEF Idle, NothingToCome
    <3> QED
      BY <3>4, <2>7, <1>9, <1>10 DEF IInv, Phase
  <2> QED
    BY <2>8, <2>9
<1>13. CASE \E r \in 1..Made : Doomed(r)
  <2>1. PICK r \in 1..Made : Doomed(r)
    BY <1>13
  <2>2. /\ Refused(conn, r, asked[r]) /\ ~cgi /\ Of(conn.out, r) /\ UpTo(got, r) /\ r \in Nat
        /\ RunBefore(r)
    BY <2>1, <1>4 DEF Doomed, Of, UpTo
  <2>3. conn.close /\ conn.error # 0
    BY <2>2 DEF Refused
  <2>4. Of(part, r) /\ Of(rest, r)
    <3>1. \A i \in 1..n : i \in 1..Len(conn.out)
      BY <1>4
    <3>2. \A i \in 1..(Len(conn.out) - n) : n + i \in 1..Len(conn.out)
      BY <1>4
    <3>3. DOMAIN part = 1..n /\ DOMAIN rest = 1..(Len(conn.out) - n) /\ DOMAIN conn.out = 1..Len(conn.out)
      BY <1>4, <1>5
    <3>4. \A i \in 1..n : part[i].req = r /\ part[i].code \in Closing
      BY <3>1, <3>3, <2>2, <1>5 DEF Of
    <3>5. ASSUME NEW i \in 1..(Len(conn.out) - n)
          PROVE  rest[i].req = r /\ rest[i].code \in Closing
      <4>1. n + i \in DOMAIN conn.out /\ rest[i] = conn.out[n + i]
        BY <3>2, <3>3, <1>5
      <4> QED
        BY <4>1, <2>2 DEF Of
    <3> QED
      BY <3>3, <3>4, <3>5 DEF Of
  <2>5. InOrder(got') /\ UpTo(got', r)
    <3>1. InOrder(got)
      BY <1>4 DEF Told
    <3> QED
      BY <3>1, <2>2, <2>4, <1>3, <1>4, <1>5, RefusalsInOrder
  <2>6. Told'
    BY <2>5, <1>8, <1>11 DEF Told
  <2>7. CASE rest = <<>>
    <3>1. ~open'
      BY <2>3, <2>7, <1>3
    <3> QED
      BY <3>1, <2>6, <1>9, <1>10 DEF IInv, Phase
  <2>8. CASE rest # <<>>
    <3>1. conn' = y
      BY <2>8, <1>3
    <3>2. Refused(conn', r, asked[r])
      <4>1. conn.recv \in Seq(Units)
        BY <1>4 DEF Conns
      <4>2. y.close /\ y.error # 0
        BY <2>3, <1>7
      <4>3. /\ y \in Conns /\ y.state = conn.state /\ y.req = conn.req /\ y.vhost = conn.vhost
            /\ y.mode = conn.mode /\ y.size = conn.size
            /\ Len(conn.recv) <= Len(y.recv) /\ \A i \in 1..Len(conn.recv) : y.recv[i] = conn.recv[i]
        BY <4>1, <1>7
      <4>4. conn \in Conns
        BY <1>4
      <4> QED
        BY <3>1, <4>2, <4>3, <4>4, <2>2, RefusedStays
    <3>4. RunBefore(r)'
      BY <2>2, <1>8, DoneKept
    <3>3. Doomed(r)'
      BY <3>2, <3>4, <2>2, <2>4, <2>5, <2>8, <1>1, <1>8 DEF Doomed, Of, UpTo
    <3> QED
      BY <3>3, <2>6, <1>9, <1>10 DEF IInv, Phase
  <2> QED
    BY <2>7, <2>8
<1> QED
  BY <1>1, <1>4, <1>12, <1>13 DEF Phase, Idle, Receiving, Working

LEMMA NextInv == Plain /\ IInv /\ [Next]_vars => IInv'
<1> SUFFICES ASSUME Plain, IInv, [Next]_vars PROVE IInv'
  OBVIOUS
<1>1. CASE \E kind \in Kinds : Ask(kind)
  BY <1>1, AskInv
<1>2. CASE Send
  BY <1>2, SendInv
<1>3. CASE Read
  BY <1>3, ReadInv
<1>4. CASE CgiEnd
  BY <1>4, CgiEndInv
<1>5. CASE Write
  BY <1>5, WriteInv
<1>6. CASE OnTimeout
  BY <1>6, OnTimeoutInv
<1>7. CASE UNCHANGED vars
  BY <1>7 DEF vars, IInv, Typed, Phase, Idle, Receiving, Working, Answering, Doomed, Effects,
     ExecutedOnce, Told, Made, NothingToCome, GotBefore, RunBefore, Calm, Paid, Done
<1> QED
  BY <1>1, <1>2, <1>3, <1>4, <1>5, <1>6, <1>7 DEF Next

-----------------------------------------------------------------------------
(* Between any two steps the connection is at a place of a request that    *)
(* the bytes to come agree with, has answered all earlier requests in      *)
(* their order, and has executed each at most once. *)
THEOREM ConnectionInvariant == ASSUME Plain PROVE Spec => []IInv
<1>1. IInv /\ [Next]_vars => IInv'
  BY NextInv
<1> QED
  BY <1>1, InitInv, PTL DEF Spec

(* The bytes to come begin a request whenever the parser expects one:      *)
(* reset() is reached only when all of the request was taken, however it   *)
(* was cut into segments. *)
THEOREM StaysInSync == ASSUME Plain PROVE Spec => []InSync
<1>1. IInv => InSync
  <2> SUFFICES ASSUME IInv, open, conn.state = "line", conn.error = 0,
                      conn.recv \o wire \o toSend # <<>>
               PROVE  Head(conn.recv \o wire \o toSend).part = "line"
    BY DEF InSync
  <2>1. /\ Phase /\ wire \in Seq(Units) /\ toSend \in Seq(Units) /\ conn \in Conns
        /\ conn.recv \in Seq(Units)
    BY DEF IInv, Typed, Conns
  <2>2. CASE Idle
    <3>1. conn.recv = <<>> /\ wire = <<>> /\ toSend = <<>>
      BY <2>2 DEF Idle, Waits, NothingToCome
    <3> QED
      BY <3>1
  <2>3. CASE Receiving
    <3>1. /\ conn.recv = <<>> /\ Carries(wire, Made, asked[Made], 0)
          /\ Carries(toSend, Made, asked[Made], 0 + Len(wire))
      BY <2>3 DEF Receiving, Waits, Taken
    <3>2. UnitAt(Made, asked[Made], 0 + 1).part = "line"
      BY DEF UnitAt, PartAt
    <3>3. CASE wire # <<>>
      <4>1. 1 \in 1..Len(wire) /\ Head(conn.recv \o wire \o toSend) = wire[1]
        BY <2>1, <3>1, <3>3
      <4>2. wire[1] = UnitAt(Made, asked[Made], 0 + 1)
        BY <4>1, <3>1 DEF Carries
      <4> QED
        BY <4>1, <4>2, <3>2
    <3>4. CASE wire = <<>>
      <4>1. toSend # <<>> /\ Len(wire) = 0
        BY <2>1, <3>1, <3>4
      <4>2. 1 \in 1..Len(toSend) /\ Head(conn.recv \o wire \o toSend) = toSend[1]
        BY <2>1, <3>1, <3>4, <4>1
      <4>3. toSend[1] = UnitAt(Made, asked[Made], 0 + 1)
        BY <4>1, <4>2, <3>1 DEF Carries
      <4> QED
        BY <4>2, <4>3, <3>2
    <3> QED
      BY <3>3, <3>4
  <2>4. ~Working /\ ~Answering
    BY DEF Working, Answering, Decided
  <2>5. ~\E r \in 1..Made : Doomed(r)
    BY DEF Doomed, Refused
  <2> QED
    BY <2>1, <2>2, <2>3, <2>4, <2>5 DEF Phase
<1> QED
  BY <1>1, ConnectionInvariant, PTL

(* Each request has its effects at most once, whole, in order, within the  *)
(* limit and by the routes of the virtual host it names. *)
THEOREM EachIsExecutedOnce == ASSUME Plain PROVE Spec => []ExecutedOnce
<1>1. IInv => ExecutedOnce
  BY DEF IInv, Effects
<1> QED
  BY <1>1, ConnectionInvariant, PTL

(* A request with a body over the limit has no effects, not even with a    *)
(* part of it, although what was read stays and is read again: under Plain *)
(* every reading refuses it.                                               *)
THEOREM TooLongIsNotExecuted == ASSUME Plain PROVE Spec => []TooLongIsRefused
<1>1. IInv => TooLongIsRefused
  <2> SUFFICES ASSUME IInv, NEW r \in DOMAIN asked, asked[r].size > MaxBody[Select(asked[r].host)],
                      NEW i \in DOMAIN conn.runs, conn.runs[i].req = r
               PROVE  FALSE
    BY DEF TooLongIsRefused
  <2>1. asked[r] \in Executable
    BY DEF IInv, Effects
  <2>2. asked[r] \in Kinds /\ asked[r].size <= MaxBody[Select(asked[r].host)]
    BY <2>1 DEF Executable
  <2> QED
    BY <2>2, KindTypes
<1> QED
  BY <1>1, ConnectionInvariant, PTL

(* Answers are given in the order of the requests, and only refusals are   *)
(* repeated. *)
THEOREM AnswersComeInOrder == ASSUME Plain PROVE Spec => []AnswersInOrder
<1>1. IInv => AnswersInOrder
  <2> SUFFICES ASSUME IInv PROVE InOrder(got \o conn.out)
    BY DEF AnswersInOrder, Answers, InOrder
  <2>1. /\ Phase /\ InOrder(got) /\ got \in Seq(Results) /\ conn.out \in Seq(Results)
        /\ Made \in Nat /\ (~open => conn.out = <<>>)
    BY DEF IInv, Told, Typed, Conns, Made
  <2>2. CASE conn.out = <<>>
    <3>1. got \o conn.out = got
      BY <2>1, <2>2
    <3> QED
      BY <3>1, <2>1
  <2>3. CASE open /\ Answering
    <3> DEFINE answer == conn.out[1]
    <3>1. Len(conn.out) = 1 /\ answer.req = Made /\ \A i \in DOMAIN got : got[i].req < answer.req
      BY <2>3 DEF Answering, GotBefore
    <3>2. answer \in Results
      BY <2>1, <3>1
    <3>3. conn.out = <<answer>>
      BY <2>1, <3>1
    <3>4. got \o conn.out = Append(got, answer)
      <4> HIDE DEF answer
      <4>1. got \o <<answer>> = Append(got, answer)
        BY <2>1, <3>2
      <4> QED
        BY <4>1, <3>3
    <3> QED
      BY <2>1, <3>1, <3>2, <3>4, OneMore
  <2>4. CASE open /\ \E r \in 1..Made : Doomed(r)
    <3>1. PICK r \in 1..Made : Doomed(r)
      BY <2>4
    <3>2. r \in Nat /\ UpTo(got, r) /\ Of(conn.out, r)
      BY <3>1, <2>1 DEF Doomed, UpTo, Of
    <3> QED
      BY <3>2, <2>1, RefusalsInOrder
  <2> QED
    BY <2>1, <2>2, <2>3, <2>4 DEF Phase, Idle, Receiving, Working
<1> QED
  BY <1>1, ConnectionInvariant, PTL

(* What a step adds to the answers the client has. *)
LEMMA StepCloses ==
    ASSUME IInv, [Next]_vars, NEW i \in DOMAIN got' \ DOMAIN got,
           got'[i].code # 408, conn'.out = <<>>
    PROVE  LET code == got'[i].code
               kind == asked[got'[i].req]
               asks == kind.close /\ kind.target # "redirect"
           IN /\ asks \/ (code \in Closing /\ kind.target # "script") => ~open'
              /\ ~asks /\ code \notin Closing => open'
<1>1. /\ Phase /\ Told /\ conn \in Conns /\ got \in Seq(Results)
      /\ conn.out \in Seq(Results) /\ Made \in Nat
  BY DEF IInv, Typed, Conns, Made
<1>2. CASE OnTimeout
  <2>1. got' = Append(got, [req |-> About(conn), code |-> 408])
    BY <1>2 DEF OnTimeout
  <2>2. i = Len(got) + 1
    BY <1>1, <2>1
  <2>3. got'[i].code = 408
    BY <1>1, <2>1, <2>2
  <2> QED
    BY <2>3
<1>3. CASE Write
  <2>1. PICK n \in 1..Len(conn.out) :
        /\ got' = got \o SubSeq(conn.out, 1, n)
        /\ LET rest == SubSeq(conn.out, n + 1, Len(conn.out))
               y == [conn EXCEPT !.out = rest]
           IN /\ conn' = IF rest = <<>> /\ ~conn.close THEN Reset(y) ELSE y
              /\ open' = ~(rest = <<>> /\ conn.close)
    BY <1>3 DEF Write
  <2>2. open /\ conn.out # <<>>
    BY <1>3 DEF Write
  <2> DEFINE part == SubSeq(conn.out, 1, n)
             rest == SubSeq(conn.out, n + 1, Len(conn.out))
             y == [conn EXCEPT !.out = rest]
  <2>3. /\ got' = got \o part
        /\ conn' = IF rest = <<>> /\ ~conn.close THEN Reset(y) ELSE y
        /\ open' = ~(rest = <<>> /\ conn.close)
    BY <2>1
  <2>4. /\ part \in Seq(Results) /\ Len(part) = n /\ \A j \in 1..n : part[j] = conn.out[j]
        /\ rest \in Seq(Results) /\ Len(rest) = Len(conn.out) - n
    BY <1>1, Cut
  <2> HIDE DEF part, rest
  <2>5. y \in Conns /\ y.out = rest
    <3>1. conn \in Conns /\ rest \in Seq(Results)
      BY <1>1, <2>4
    <3> QED
      BY <3>1, OutOnly
  <2> HIDE DEF y
  <2>6. conn'.out = rest
    BY <2>3, <2>5, ResetIs
  <2>7. open' = ~conn.close
    BY <2>3, <2>6
  <2>8. i \in (Len(got) + 1)..(Len(got) + n) /\ got'[i] = part[i - Len(got)]
    <3>1. /\ Len(got \o part) = Len(got) + Len(part)
          /\ \A j \in (Len(got) + 1)..(Len(got) + Len(part)) : (got \o part)[j] = part[j - Len(got)]
          /\ got \o part \in Seq(Results)
      <4>1. got \in Seq(Results) /\ part \in Seq(Results)
        BY <1>1, <2>4
      <4> QED
        BY <4>1, Joined
    <3>2. i \in 1..(Len(got) + n) /\ i \notin 1..Len(got) /\ Len(got) \in Nat
      BY <1>1, <2>3, <2>4, <3>1
    <3> QED
      BY <2>3, <2>4, <3>1, <3>2
  <2> DEFINE j == i - Len(got)
  <2>9. j \in 1..n /\ j \in 1..Len(conn.out) /\ got'[i] = conn.out[j]
    <3>1. Len(got) \in Nat /\ Len(conn.out) \in Nat
      BY <1>1
    <3> QED
      BY <3>1, <2>8, <2>4
  <2> HIDE DEF j
  <2>10. CASE Answering
    <3>1. /\ Len(conn.out) = 1 /\ conn.out[1].req = Made
          /\ Decided(conn, Made, asked[Made], conn.out[1].code)
      BY <2>10 DEF Answering
    <3>2. j = 1
      BY <3>1, <2>9
    <3>3. got'[i].req = Made /\ got'[i].code = conn.out[1].code
      BY <3>1, <3>2, <2>9
    <3> DEFINE code == conn.out[1].code
    <3>4. Decided(conn, Made, asked[Made], code) /\ got'[i].code = code
      BY <3>1, <3>3
    <3> HIDE DEF code
    <3> DEFINE asks == asked[Made].close /\ asked[Made].target # "redirect"
    <3>5. /\ asks \/ (code \in Closing /\ asked[Made].target # "script") => conn.close
          /\ ~asks /\ code \notin Closing => ~conn.close
      BY <3>4 DEF Decided
    <3> QED
      BY <3>3, <3>4, <3>5, <2>7
  <2>11. CASE \E r \in 1..Made : Doomed(r)
    <3>1. conn.close /\ conn.out[j].code \in Closing
      <4>1. DOMAIN conn.out = 1..Len(conn.out)
        BY <1>1
      <4> QED
        BY <4>1, <2>9, <2>11 DEF Doomed, Refused
    <3> QED
      BY <3>1, <2>7, <2>9
  <2> QED
    BY <1>1, <2>2, <2>10, <2>11 DEF Phase, Idle, Receiving, Working
<1>4. got' # got
  OBVIOUS
<1> QED
  BY <1>2, <1>3, <1>4 DEF Next, vars, Ask, Send, Read, CgiEnd

(* The connection is closed after an answer exactly when the client asked  *)
(* for that or the error demands it. *)
THEOREM ClosesAsItIsAsked == ASSUME Plain PROVE Spec => ClosedAsAsked
<1>1. ASSUME IInv, [Next]_vars
      PROVE  [\A i \in DOMAIN got' \ DOMAIN got :
                LET code == got'[i].code
                    kind == asked[got'[i].req]
                    asks == kind.close /\ kind.target # "redirect"
                IN code # 408 /\ conn'.out = <<>> =>
                      /\ asks \/ (code \in Closing /\ kind.target # "script") => ~open'
                      /\ ~asks /\ code \notin Closing => open']_vars
  BY <1>1, StepCloses
<1> QED
  BY <1>1, ConnectionInvariant, PTL DEF Spec, ClosedAsAsked

-----------------------------------------------------------------------------
(* The connection keeps the promise of module Exchanges: each of its steps *)
(* is one that the client may rely on, or does not show.                   *)
LEMMA SameCalm == Calm => Promise!Calm
  BY DEF Calm, Promise!Calm

LEMMA SameAnswered == Answered = Promise!Answered
  BY DEF Answered, Promise!Answered

LEMMA PromisedInit == Init => Promise!Init
<1> SUFFICES ASSUME Init PROVE Promise!Init
  OBVIOUS
<1>1. asked = <<>> /\ conn = Fresh(Default) /\ got = <<>> /\ open = TRUE
  BY DEF Init
<1>2. conn.runs = <<>>
  BY <1>1, FreshIs, PipelineAssumption DEF PipelineAssumption
<1>3. Done = {}
  BY <1>2 DEF Done
<1> QED
  BY <1>1, <1>3 DEF Promise!Init

LEMMA AskPromised ==
    ASSUME Plain, IInv, NEW kind \in Kinds, Ask(kind)
    PROVE  Promise!Ask
<1>1. open /\ asked' = Append(asked, kind) /\ conn' = conn /\ open' = open /\ got' = got
  BY DEF Ask
<1>2. Typed /\ DOMAIN asked = 1..Made
  BY DEF IInv, Typed, Made
<1>3. DOMAIN asked \subseteq Promise!Answered
  <2>1. \A r \in 1..Made : \E i \in DOMAIN got : got[i].req = r
    BY <1>2, AllAnswered
  <2> QED
    BY <2>1, <1>2 DEF Promise!Answered
<1>4. Done' = Done
  BY <1>1, DoneKept
<1> QED
  BY <1>1, <1>3, <1>4 DEF Promise!Ask

(* A step that executes nothing and sends nothing does not show. *)
LEMMA Hidden ==
    ASSUME conn'.runs = conn.runs, asked' = asked, got' = got, open' = open
    PROVE  UNCHANGED Promise!vars
  BY DoneKept DEF Promise!vars

-----------------------------------------------------------------------------
(* Reading: what is executed is the request that was made last, once. *)
LEMMA ReadPromised ==
    ASSUME Plain, IInv, Read
    PROVE  UNCHANGED Promise!vars \/ \E r \in DOMAIN asked : Promise!Execute(r)
<1>1. open /\ asked' = asked /\ open' = open /\ got' = got
  BY DEF Read
<1>2. PICK n \in 1..Len(wire), outcome \in Outcomes :
        LET x == [conn EXCEPT !.recv = @ \o SubSeq(wire, 1, n)]
            y == HandleRequest(x, asked, outcome)
        IN conn' = [y EXCEPT !.isCgi = FALSE]
  BY DEF Read
<1> DEFINE x == [conn EXCEPT !.recv = @ \o SubSeq(wire, 1, n)]
           y == HandleRequest(x, asked, outcome)
<1>3. conn' = [y EXCEPT !.isCgi = FALSE]
  BY <1>2
<1>4. Phase /\ Made \in Nat /\ DOMAIN asked = 1..Made /\ wire \in Seq(Units) /\ wire # <<>>
  BY <1>2 DEF IInv, Typed, Made
<1>5. CASE Receiving
  <2> DEFINE k == asked[Made]
  <2>1. Made # 0 /\ GotBefore(Made) /\ RunBefore(Made) /\ Calm
    BY <1>5 DEF Receiving
  <2>2. x.runs = conn.runs /\ \E m : Left(y, x, Made, k, m)
    <3>1. x = [conn EXCEPT !.recv = @ \o SubSeq(wire, 1, n)] /\ y = HandleRequest(x, asked, outcome)
      OBVIOUS
    <3> HIDE DEF x, y
    <3> QED
      BY <3>1, <1>1, <1>5, ReadReceiving DEF k
  <2> HIDE DEF x, y
  <2>3. conn'.runs = y.runs /\ Ran(conn'.runs, conn.runs, Made, k)
    <3>1. y \in Conns /\ Ran(y.runs, x.runs, Made, k)
      BY <2>2 DEF Left, WaitsOn, Served, Rejected, Ran
    <3>2. conn'.runs = y.runs
      BY <3>1, <1>3 DEF Conns
    <3> QED
      BY <3>1, <3>2, <2>2
  <2>4. CASE conn'.runs = conn.runs
    BY <2>4, <1>1, Hidden
  <2>5. CASE conn'.runs # conn.runs
    <3>1. Made \in DOMAIN asked /\ k \in Executable
      <4>1. Made \in DOMAIN asked /\ k \in Kinds
        BY <2>1, <1>4 DEF IInv, Typed
      <4> QED
        BY <4>1, <2>3, <2>5, Zenon DEF Ran, Executable, Readable
    <3>2. Done' = Done \cup {Made}
      <4> DEFINE run == [req |-> Made, vhost |-> Select(k.host), size |-> k.size]
                 runs == conn.runs
      <4>1. conn'.runs = Append(runs, run) /\ run.req = Made /\ runs \in Seq(Runs)
        BY <2>3, <2>5 DEF Ran, IInv, Typed, Conns
      <4> HIDE DEF run, runs
      <4>2. /\ DOMAIN conn'.runs = 1..(Len(runs) + 1) /\ DOMAIN runs = 1..Len(runs)
            /\ Len(runs) \in Nat
            /\ \A i \in 1..Len(runs) : conn'.runs[i] = runs[i]
            /\ conn'.runs[Len(runs) + 1].req = Made
        BY <4>1
      <4>3. DOMAIN conn'.runs = DOMAIN runs \cup {Len(runs) + 1}
        BY <4>2
      <4> DEFINE more == conn'.runs
      <4>4. /\ Done' = {more[i].req : i \in DOMAIN more}
            /\ Done = {runs[i].req : i \in DOMAIN runs}
        BY DEF Done, runs
      <4>5. /\ \A i \in DOMAIN runs : i \in DOMAIN more /\ more[i].req = runs[i].req
            /\ \A i \in DOMAIN more : i \in DOMAIN runs \/ more[i].req = Made
            /\ \E i \in DOMAIN more : more[i].req = Made
        BY <4>2, <4>3
      <4> HIDE DEF more
      <4> QED
        BY <4>4, <4>5
    <3>3. Made \notin Done
      BY <2>1, <1>4 DEF RunBefore, Done
    <3>4. Promise!Pending(Made)
      BY <2>1, <1>4, <3>1 DEF GotBefore, Promise!Pending, Promise!Answered
    <3>5. Promise!Calm
      BY <2>1, SameCalm
    <3>6. Promise!Execute(Made)
      BY <1>1, <3>1, <3>2, <3>3, <3>4, <3>5 DEF Promise!Execute, k
    <3> QED
      BY <3>1, <3>6
  <2> QED
    BY <2>4, <2>5
<1>6. CASE \E r \in 1..Made : Doomed(r)
  <2>1. PICK r \in 1..Made : Doomed(r)
    BY <1>6
  <2>2. y \in Conns /\ y.runs = conn.runs
    BY <2>1, ReadRefused
  <2> HIDE DEF x, y
  <2>3. conn'.runs = conn.runs
    BY <2>2, <1>3 DEF Conns
  <2> QED
    BY <2>3, <1>1, Hidden
<1> QED
  BY <1>1, <1>4, <1>5, <1>6 DEF Phase, Idle, Working, Answering, NothingToCome
-----------------------------------------------------------------------------
(* Writing: the answers sent are some that were queued. *)
Continues(u, s, t, n) ==
    /\ u \in Seq(Results) /\ Len(u) = Len(s) + n
    /\ SubSeq(u, 1, Len(s)) = s
    /\ DOMAIN u \ DOMAIN s = (Len(s) + 1)..(Len(s) + n)
    /\ \A i \in DOMAIN u \ DOMAIN s : \E j \in DOMAIN t : u[i] = t[j]
LEMMA Sent ==
    ASSUME NEW s \in Seq(Results), NEW t \in Seq(Results), NEW n \in 1..Len(t)
    PROVE  Continues(s \o SubSeq(t, 1, n), s, t, n)
<1> DEFINE part == SubSeq(t, 1, n)
           u == s \o SubSeq(t, 1, n)
<1>1. part \in Seq(Results) /\ Len(part) = n /\ \A i \in 1..n : part[i] = t[i]
  BY Cut
<1>2. /\ s \in Seq(Results) /\ Len(s) \in Nat /\ DOMAIN s = 1..Len(s)
      /\ n \in Nat /\ \A i \in 1..n : i \in DOMAIN t
  OBVIOUS
<1>3. u = s \o part
  OBVIOUS
<1> HIDE DEF part, u
<1>4. /\ u \in Seq(Results) /\ Len(u) = Len(s) + n
      /\ \A i \in 1..Len(s) : u[i] = s[i]
      /\ \A i \in (Len(s) + 1)..(Len(s) + n) : u[i] = part[i - Len(s)]
  <2>1. /\ s \o part \in Seq(Results) /\ Len(s \o part) = Len(s) + Len(part)
        /\ \A i \in 1..Len(s) : (s \o part)[i] = s[i]
        /\ \A i \in (Len(s) + 1)..(Len(s) + Len(part)) : (s \o part)[i] = part[i - Len(s)]
    <3>1. s \in Seq(Results) /\ part \in Seq(Results)
      BY <1>1
    <3> QED
      BY <3>1, Joined
  <2> QED
    BY <2>1, <1>1, <1>3
<1>5. DOMAIN u = 1..(Len(s) + n)
  BY <1>4
<1>6. DOMAIN u \ DOMAIN s = (Len(s) + 1)..(Len(s) + n)
  BY <1>2, <1>5
<1>7. ASSUME NEW i \in (Len(s) + 1)..(Len(s) + n)
      PROVE  \E j \in DOMAIN t : u[i] = t[j]
  <2>1. i - Len(s) \in 1..n
    BY <1>2
  <2> QED
    BY <2>1, <1>1, <1>2, <1>4
<1>8. SubSeq(u, 1, Len(s)) = s
  BY <1>2, <1>4
<1> QED
  BY <1>4, <1>6, <1>7, <1>8 DEF Continues, u

LEMMA WriteIs ==
    ASSUME IInv, Write
    PROVE  /\ open /\ asked' = asked /\ Done' = Done
           /\ \E n \in 1..Len(conn.out) :
                 /\ got' = got \o SubSeq(conn.out, 1, n)
                 /\ open' = ~(n = Len(conn.out) /\ conn.close)
<1>1. PICK n \in 1..Len(conn.out) :
        /\ got' = got \o SubSeq(conn.out, 1, n)
        /\ LET rest == SubSeq(conn.out, n + 1, Len(conn.out))
               y == [conn EXCEPT !.out = rest]
           IN /\ conn' = IF rest = <<>> /\ ~conn.close THEN Reset(y) ELSE y
              /\ open' = ~(rest = <<>> /\ conn.close)
  BY DEF Write
<1> DEFINE rest == SubSeq(conn.out, n + 1, Len(conn.out))
           y == [conn EXCEPT !.out = rest]
<1>2. conn \in Conns /\ conn.out \in Seq(Results)
  BY DEF IInv, Typed, Conns
<1>3. rest \in Seq(Results) /\ Len(rest) = Len(conn.out) - n
  BY <1>2, Cut
<1>4. rest = <<>> <=> n = Len(conn.out)
  <2> HIDE DEF rest
  <2>1. rest = <<>> <=> Len(rest) = 0
    BY <1>3
  <2>2. Len(conn.out) \in Nat /\ n \in Nat
    BY <1>2
  <2> QED
    BY <2>1, <2>2, <1>3
<1>5. /\ conn' = IF rest = <<>> /\ ~conn.close THEN Reset(y) ELSE y
      /\ open' = ~(rest = <<>> /\ conn.close)
  BY <1>1
<1> HIDE DEF rest
<1>6. y \in Conns /\ y.runs = conn.runs
  BY <1>2, <1>3 DEF Conns
<1> HIDE DEF y
<1>7. conn'.runs = conn.runs
  BY <1>5, <1>6, ResetIs
<1>8. Done' = Done
  BY <1>7, DoneKept
<1> QED
  BY <1>1, <1>4, <1>5, <1>8 DEF Write

LEMMA WritePromised ==
    ASSUME IInv, Write
    PROVE  \E r \in DOMAIN asked : Promise!Answer(r) \/ Promise!Refuse(r)
<1>1. open /\ asked' = asked /\ Done' = Done
  BY WriteIs
<1>2. PICK n \in 1..Len(conn.out) :
        /\ got' = got \o SubSeq(conn.out, 1, n)
        /\ open' = ~(n = Len(conn.out) /\ conn.close)
  BY WriteIs
<1>3. /\ Phase /\ got \in Seq(Results) /\ conn.out \in Seq(Results)
      /\ Made \in Nat /\ DOMAIN asked = 1..Made /\ conn.out # <<>>
  BY DEF IInv, Typed, Conns, Made, Write
<1>4. /\ got' \in Seq(Results) /\ Len(got') = Len(got) + n
      /\ SubSeq(got', 1, Len(got)) = got
      /\ DOMAIN got' \ DOMAIN got = (Len(got) + 1)..(Len(got) + n)
      /\ \A i \in DOMAIN got' \ DOMAIN got : \E j \in DOMAIN conn.out : got'[i] = conn.out[j]
  <2>1. Continues(got \o SubSeq(conn.out, 1, n), got, conn.out, n)
    BY <1>3, Sent
  <2> QED
    BY <2>1, <1>2 DEF Continues
<1>5. Promise!New # {} /\ open' \in BOOLEAN
  <2>1. Len(got) + 1 \in (Len(got) + 1)..(Len(got) + n)
    BY <1>3
  <2> QED
    BY <2>1, <1>2, <1>4 DEF Promise!New
<1>6. CASE Answering
  <2> DEFINE k == asked[Made]
             asks == k.close /\ k.target # "redirect"
             code == conn.out[1].code
  <2>1. /\ Made # 0 /\ Len(conn.out) = 1 /\ conn.out[1].req = Made
        /\ Decided(conn, Made, k, code) /\ GotBefore(Made) /\ Calm
        /\ Paid(conn.out[1])
    BY <1>6 DEF Answering
  <2>2. Made \in DOMAIN asked /\ n = 1 /\ DOMAIN conn.out = {1}
    BY <2>1, <1>3
  <2>3. open' = ~conn.close /\ Len(got') = Len(got) + 1
    BY <2>1, <2>2, <1>2, <1>4
  <2>4. \A i \in Promise!New : got'[i].req = Made /\ got'[i].code = code
    BY <2>1, <2>2, <1>4 DEF Promise!New
  <2>5. /\ code = 200 => Made \in Done
        /\ asks \/ (code \in Closing /\ k.target # "script") => conn.close
        /\ code \in Closing /\ Made \notin Done => conn.close
        /\ ~asks /\ code \notin Closing => ~conn.close
    BY <2>1 DEF Decided, Paid
  <2>6. Promise!Pending(Made)
    BY <2>1, <2>2, <1>3 DEF GotBefore, Promise!Pending, Promise!Answered
  <2>7. Promise!Told(Made) /\ Promise!Calm
    BY <2>1, <2>4, <1>4, <1>5, SameCalm DEF Promise!Told
  <2> HIDE DEF code
  <2>8. Promise!Answer(Made)
    BY <1>1, <1>5, <2>3, <2>4, <2>5, <2>6, <2>7 DEF Promise!Answer
  <2> QED
    BY <2>2, <2>8
<1>7. CASE \E r \in 1..Made : Doomed(r)
  <2>1. PICK r \in 1..Made : Doomed(r)
    BY <1>7
  <2>2. /\ \A i \in DOMAIN conn.out : conn.out[i].req = r /\ conn.out[i].code \in Closing
        /\ \A i \in DOMAIN got :
              got[i].req < r \/ (got[i].req = r /\ got[i].code \in Closing)
        /\ RunBefore(r)
    BY <2>1 DEF Doomed
  <2>3. r \notin Done /\ r \in DOMAIN asked
    BY <2>2, <1>3 DEF RunBefore, Done
  <2>4. \A i \in Promise!New : got'[i].req = r /\ got'[i].code \in Closing
    BY <2>2, <1>4 DEF Promise!New
  <2>5. Promise!Told(r)
    BY <2>4, <1>4, <1>5 DEF Promise!Told
  <2>6. Promise!Refuse(r)
    BY <1>1, <1>5, <2>2, <2>3, <2>4, <2>5 DEF Promise!Refuse
  <2> QED
    BY <2>3, <2>6
<1> QED
  BY <1>1, <1>3, <1>6, <1>7 DEF Phase, Idle, Receiving, Working

-----------------------------------------------------------------------------
LEMMA OnTimeoutPromised ==
    ASSUME IInv, OnTimeout
    PROVE  Promise!GiveUp
<1> DEFINE about == About(conn)
<1>1. /\ open /\ open' = FALSE /\ asked' = asked
      /\ got' = got \/ got' = Append(got, [req |-> about, code |-> 408])
  BY DEF OnTimeout
<1>2. Done' = Done
  <2> DEFINE none == <<>>
             late == 408
  <2>1. conn' = [conn EXCEPT !.status = late, !.out = none]
    BY DEF OnTimeout
  <2>2. conn \in Conns
    BY DEF IInv, Typed
  <2> HIDE DEF none, late
  <2>3. conn'.runs = conn.runs
    BY <2>1, <2>2 DEF Conns
  <2> QED
    BY <2>3, DoneKept
<1>3. about = 0 \/ (about \in 1..Made /\ UpTo(got, about))
  BY <1>1, AboutLate
<1>4. DOMAIN asked = 1..Made
  BY DEF IInv, Typed, Made
<1> HIDE DEF about
<1>5. /\ about \in {0} \cup DOMAIN asked
      /\ about = 0 \/ \A i \in DOMAIN got :
             got[i].req < about \/ (got[i].req = about /\ got[i].code \in Closing)
  BY <1>3, <1>4 DEF UpTo
<1> QED
  BY <1>1, <1>2, <1>5 DEF Promise!GiveUp

LEMMA StepPromised ==
    ASSUME Plain, IInv, [Next]_vars
    PROVE  [Promise!Next]_(Promise!vars)
<1>1. CASE \E kind \in Kinds : Ask(kind)
  BY <1>1, AskPromised DEF Promise!Next
<1>2. CASE Send
  <2>1. conn'.runs = conn.runs /\ asked' = asked /\ got' = got /\ open' = open
    BY <1>2 DEF Send
  <2> QED
    BY <2>1, Hidden
<1>3. CASE Read
  BY <1>3, ReadPromised DEF Promise!Next
<1>4. CASE CgiEnd
  <2>1. asked' = asked /\ got' = got /\ open' = open
    BY <1>4 DEF CgiEnd
  <2>2. conn'.runs = conn.runs
    BY <1>4 DEF CgiEnd, IInv, Typed, Conns
  <2> QED
    BY <2>1, <2>2, Hidden
<1>5. CASE Write
  BY <1>5, WritePromised DEF Promise!Next
<1>6. CASE OnTimeout
  BY <1>6, OnTimeoutPromised DEF Promise!Next
<1>7. CASE UNCHANGED vars
  BY <1>7, Hidden DEF vars
<1> QED
  BY <1>1, <1>2, <1>3, <1>4, <1>5, <1>6, <1>7 DEF Next

(* What the parsers, the buffers and the middlewares do to the requests of *)
(* a client comes to this, whatever they are and however they are cut:     *)
(* they are answered one by one and in order, each is executed at most     *)
(* once and before it is answered with a success, none that is refused is, *)
(* and after a refusal there are only refusals until the connection is     *)
(* closed. *)
THEOREM RequestsImplementExchanges == ASSUME Plain PROVE Spec => ImplementsExchanges
<1>1. Init => Promise!Init
  BY PromisedInit
<1>2. IInv /\ [Next]_vars => [Promise!Next]_(Promise!vars)
  BY StepPromised
<1> QED
  BY <1>1, <1>2, ConnectionInvariant, PTL DEF Spec, ImplementsExchanges, Promise!Spec
=============================================================================
