-------------------------- MODULE RequestPipeline --------------------------
(***************************************************************************)
(* The middlewares a request goes through each time bytes of it arrive     *)
(* (src/src/Middleware, Http/Parser, the part of Server/Client/            *)
(* HttpConnection.cpp that calls them).  A value x of this module is the   *)
(* connection as they see it:                                              *)
(*   x.recv   : PipelineContext::recvBuffer, a sequence of units           *)
(*   x.state, x.error : RequestParser::_state and _errorCode               *)
(*   x.mode, x.left   : RequestBodyParser::_state, _contentLengthRemaining *)
(*   x.req    : the request whose line was parsed, 0 for none              *)
(*   x.size   : data units in its body                                     *)
(*   x.status, x.close : the response: its code, "Connection: close"       *)
(*   x.vhost  : Client::_activeVhost (and with it PipelineContext::conf)   *)
(*   x.isCgi  : PipelineContext::isCgi                                     *)
(*   x.out    : the send buffer, a sequence of answers                     *)
(*   x.reading: EPOLLIN is in the interest of the socket                   *)
(*   x.runs   : ghost, what was executed                                   *)
(* A unit is a piece of a request that the parsers take whole: its line,   *)
(* its headers with the empty line, a piece of its body; of a chunked body *)
(* the line with the size of a chunk, the data of one (a unit of body with *)
(* its line end) or the end.  Bytes that do not complete a unit only make  *)
(* recvBuffer longer.  A middleware is an operator that ends in the one    *)
(* that proc->next() calls, or does not.                                   *)
(***************************************************************************)
EXTENDS Integers, Sequences, FiniteSets, SequencesExt

CONSTANTS
    Vhosts,   \* the virtual hosts of the listener
    Default,  \* the one for a Host header no virtual host has
    MaxBody   \* virtual host -> longest body, in units

ASSUME PipelineAssumption ==
    /\ Default \in Vhosts
    /\ MaxBody \in [Vhosts -> Nat]

Lines == {"good", "malformed", "version"}
Heads == {"good", "malformed"}
Framings == {"none", "length", "chunked", "refused"}  \* refused: another encoding
Targets == {"nowhere", "redirect", "static", "script"}
(* What the data of a chunk says if it is read where the size of one is    *)
(* due: nothing, a size over the limit, or that the body ends.  That it is *)
(* read as a chunk that fits, or as trailers, is left out.                 *)
Readings == {"text", "long", "end"}

(* The errors, and those after which ErrorHandlerMiddleware closes. *)
Errors == {400, 404, 405, 413, 431, 500, 501, 502, 503, 504, 505}

(* Mutant: 413 keeps the connection. *)
ClosingButSize == {400, 431, 500, 501, 502, 503, 504}
Closing == {400, 413, 431, 500, 501, 502, 503, 504}

(* Mutant: every error closes the connection. *)
ErrorHandlerCloses(x) == [x EXCEPT !.close = @ \/ x.status \in Errors]

ErrorHandler(x) == [x EXCEPT !.close = @ \/ x.status \in Closing]

SetError(x, code) == [x EXCEPT !.status = code, !.error = code]
Fail(x, code) == ErrorHandler(SetError(x, code))

Fresh(vhost) ==
    [recv |-> <<>>, state |-> "line", error |-> 0, mode |-> "new", left |-> 0,
     req |-> 0, size |-> 0, status |-> 200, close |-> FALSE, vhost |-> vhost,
     isCgi |-> FALSE, out |-> <<>>, reading |-> TRUE, runs |-> <<>>]

(* Mutant: the parser stays where it is. *)
ResetKeepsParser(x) ==
    [Fresh(x.vhost) EXCEPT !.state = x.state, !.mode = x.mode, !.req = x.req,
                           !.out = x.out, !.runs = x.runs]

(* PipelineContext::reset(), what is left of recvBuffer included. *)
Reset(x) == [Fresh(x.vhost) EXCEPT !.out = x.out, !.runs = x.runs]

-----------------------------------------------------------------------------
(* The request x.req is asked[x.req]; outcome is the code that the end of  *)
(* the chain comes to if it is reached; proc is the virtual host whose     *)
(* chain this is.                                                          *)
Executed(x, proc, outcome) ==
    [x EXCEPT !.status = outcome,
              !.runs = Append(@, [req |-> x.req, vhost |-> proc, size |-> x.size])]

(* HandlerMiddleware: 405 and 501 mean that there is no handler; one that  *)
(* there is may have had effects whatever it comes to. *)
Handler(x, proc, outcome) ==
    IF outcome \in {405, 501} THEN SetError(x, outcome) ELSE Executed(x, proc, outcome)

(* CgiRouterMiddleware: with an error no process was started.  Otherwise   *)
(* the answer is left to the CGI. *)
CgiRouter(x, proc, outcome) ==
    IF outcome = 405 THEN SetError(x, 405)
    ELSE IF outcome >= 400 THEN [x EXCEPT !.status = outcome]
    ELSE [Executed(x, proc, outcome) EXCEPT !.isCgi = TRUE]

(* PipelineRouterMiddleware, and ErrorHandlerMiddleware behind it. *)
Router(x, proc, asked, outcome) ==
    LET target == asked[x.req].target
    IN CASE target = "nowhere" -> Fail(x, 404)
         [] target = "script" -> ErrorHandler(CgiRouter(x, proc, outcome))
         [] OTHER -> ErrorHandler(Handler(x, proc, outcome))

(* The header is never taken back: reset() clears it. *)
ConnectionHeader(x, proc, asked, outcome) ==
    Router([x EXCEPT !.close = @ \/ asked[x.req].close], proc, asked, outcome)

(* A redirection ends the chain, before ConnectionHeaderMiddleware. *)
Redirect(x, proc, asked, outcome) ==
    IF asked[x.req].target = "redirect" THEN [x EXCEPT !.status = 301]
    ELSE ConnectionHeader(x, proc, asked, outcome)

-----------------------------------------------------------------------------
(* RequestBodyParser.  Both parsers take what there is, and leave what     *)
(* follows the body. *)
InitBody(x, asked) ==
    LET r == asked[x.req]
    IN CASE r.framing = "chunked" -> [x EXCEPT !.mode = "size"]
         [] r.framing = "length" ->
               [x EXCEPT !.mode = IF r.size = 0 THEN "complete" ELSE "identity",
                         !.left = r.size]
         [] OTHER -> [x EXCEPT !.error = 501]

ParseIdentity(x) ==
    LET taken == Min({Len(x.recv), x.left})
    IN [x EXCEPT !.recv = SubSeq(@, taken + 1, Len(@)),
                 !.size = @ + taken,
                 !.left = @ - taken,
                 !.mode = IF taken = x.left THEN "complete" ELSE @]

(* How many sizes and data of chunks the buffer begins with. *)
Chunks(x) ==
    Min({n \in 0..Len(x.recv) :
           n = Len(x.recv)
             \/ x.recv[n + 1] \notin [req : {x.req}, part : {"size", "data"}]})

(* How many were read of the body, a size being half a chunk. *)
Halves(x) == 2 * x.size + (IF x.mode = "data" THEN 1 ELSE 0)

(* CHUNKED_SIZE and CHUNKED_DATA take turns until a size is over the       *)
(* limit.  What was read then is in the body and stays in the buffer too.  *)
ReadChunks(x) ==
    LET read == Min({Chunks(x), 2 * MaxBody[x.vhost] - Halves(x)})
        halves == Halves(x) + read
        ends == read < Len(x.recv)
        y == [x EXCEPT !.size = halves \div 2,
                       !.mode = IF halves % 2 = 1 THEN "data" ELSE "size"]
    IN IF read < Chunks(x) THEN [y EXCEPT !.error = 413]
       ELSE [y EXCEPT !.recv = SubSeq(@, IF ends THEN read + 2 ELSE read + 1, Len(@)),
                      !.mode = IF ends THEN "complete" ELSE @]

(* Data that stayed is read again where a size is due.                     *)
Misread(x, reading) ==
    CASE reading = "text" -> [x EXCEPT !.error = 400]
      [] reading = "long" -> [x EXCEPT !.error = 413]
      [] reading = "end" -> [x EXCEPT !.recv = Tail(@), !.mode = "complete"]

ParseChunked(x, asked) ==
    IF x.mode = "size" /\ x.recv # <<>> /\ Head(x.recv).part = "data"
    THEN Misread(x, asked[x.req].reads)
    ELSE ReadChunks(x)

ParseBody(x, asked) ==
    LET y == IF x.mode = "new" THEN InitBody(x, asked) ELSE x
    IN CASE y.mode = "identity" -> ParseIdentity(y)
         [] y.mode \in {"size", "data"} -> ParseChunked(y, asked)
         [] OTHER -> y

(* RequestBodyParserMiddleware: nothing may follow a body in the buffer.   *)
(* It goes by the result of this call; the code of an earlier error stays. *)
Body(x, proc, asked, outcome) ==
    LET y == ParseBody([x EXCEPT !.error = 0], asked)
        z == [y EXCEPT !.error = x.error]
        done == [z EXCEPT !.state = "complete"]
    IN IF x.state # "body" THEN Redirect(x, proc, asked, outcome)
       ELSE IF y.error # 0 THEN Fail(y, y.error)
       ELSE IF y.mode # "complete" THEN z
       ELSE IF y.recv # <<>> THEN Fail(done, 400)
       ELSE Redirect(done, proc, asked, outcome)

(* RequestLimitsMiddleware, of which the sizes of headers are left out. *)
Limits(x, proc, asked, outcome) ==
    IF asked[x.req].framing = "length" /\ asked[x.req].size > MaxBody[x.vhost]
    THEN Fail(x, 413)
    ELSE Body(x, proc, asked, outcome)

-----------------------------------------------------------------------------
Select(host) == IF host \in Vhosts THEN host ELSE Default

(* Mutant: the chain goes on with the routes of the former virtual host. *)
VHostSelectGoesOn(x, proc, asked, outcome) ==
    Limits([x EXCEPT !.vhost = Select(asked[x.req].host)], proc, asked, outcome)

(* VHostSelectMiddleware.  Another virtual host than the active one gets   *)
(* the request from the start of its own chain; there the parsed line and  *)
(* headers are passed over, and here it is the active one.                 *)
VHostSelect(x, proc, asked, outcome) ==
    LET selected == Select(asked[x.req].host)
    IN IF selected = x.vhost THEN Limits(x, proc, asked, outcome)
       ELSE Limits([x EXCEPT !.vhost = selected], selected, asked, outcome)

(* RequestHeadParserMiddleware; without a body the request is complete. *)
RequestHead(x, proc, asked, outcome) ==
    LET r == asked[x.req]
        y == [x EXCEPT !.recv = Tail(@),
                       !.state = IF r.framing = "none" THEN "complete" ELSE "body"]
    IN IF x.state # "head" THEN VHostSelect(x, proc, asked, outcome)
       ELSE IF x.recv = <<>> THEN x
       ELSE IF Head(x.recv).part # "head" \/ r.head = "malformed" THEN Fail(x, 400)
       ELSE VHostSelect(y, proc, asked, outcome)

(* RequestLineParserMiddleware; what is refused stays in the buffer. *)
RequestLine(x, proc, asked, outcome) ==
    LET u == Head(x.recv)
        y == [x EXCEPT !.recv = Tail(@), !.state = "head", !.req = u.req]
    IN IF x.state # "line" THEN RequestHead(x, proc, asked, outcome)
       ELSE IF x.recv = <<>> THEN x
       ELSE IF u.part # "line" \/ asked[u.req].line = "malformed" THEN Fail(x, 400)
       ELSE IF asked[u.req].line = "version" THEN Fail(x, 505)
       ELSE RequestHead(y, proc, asked, outcome)

-----------------------------------------------------------------------------
(* The request an answer is about: a line that is refused was not taken    *)
(* out of the buffer.                                                      *)
About(x) == IF x.req = 0 /\ x.recv # <<>> THEN Head(x.recv).req ELSE x.req

(* generateResponse() queues what the response says now. *)
GenerateResponse(x) ==
    [x EXCEPT !.out = Append(@, [req |-> About(x), code |-> x.status])]

(* Mutant: only a complete request is answered. *)
HandleRequestIfComplete(x, asked, outcome) ==
    LET y == RequestLine(x, x.vhost, asked, outcome)
    IN IF y.isCgi \/ y.state # "complete" THEN y ELSE GenerateResponse(y)

(* HttpConnection::handleRequest(), but for the test and reset of isCgi.   *)
HandleRequest(x, asked, outcome) ==
    LET y == RequestLine(x, x.vhost, asked, outcome)
    IN IF y.isCgi \/ (y.state # "complete" /\ y.error = 0) THEN y
       ELSE GenerateResponse(y)
=============================================================================
