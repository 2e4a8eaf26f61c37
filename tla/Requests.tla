------------------------------ MODULE Requests ------------------------------
(***************************************************************************)
(* One keep-alive connection: a client that sends requests piece by piece, *)
(* in segments cut anywhere, and the connection that runs them through the *)
(* middlewares of module RequestPipeline, answers and goes back to the     *)
(* start (src/src/Server/Client/HttpConnection.cpp, Client.cpp).           *)
(***************************************************************************)
EXTENDS RequestPipeline

CONSTANTS
    Kinds,        \* the requests a client may make
    MaxRequests,  \* how many (bound)
    Ahead,        \* how many it makes before it has the answer to the first
    Outcomes      \* what a handler can come to

ASSUME RequestsAssumption ==
    /\ \A k \in Kinds :
          /\ k.line \in Lines /\ k.head \in Heads /\ k.framing \in Framings
          /\ k.size \in Nat /\ k.close \in BOOLEAN /\ k.target \in Targets
          /\ k.reads \in Readings
    /\ MaxRequests \in Nat
    /\ Ahead \in Nat \ {0}
    /\ Outcomes \subseteq {200} \cup Errors

VARIABLES asked,   \* the requests made
          toSend,  \* units the client has still to send
          wire,    \* units sent and not received
          conn,    \* the connection, see RequestPipeline
          cgi,     \* a CGI is at work on the request
          open,    \* the server has not closed the connection
          got      \* answers the client has received whole

vars == <<asked, toSend, wire, conn, cgi, open, got>>

Init ==
    /\ asked = <<>>
    /\ toSend = <<>>
    /\ wire = <<>>
    /\ conn = Fresh(Default)
    /\ cgi = FALSE
    /\ open = TRUE
    /\ got = <<>>

-----------------------------------------------------------------------------
(* The client. *)
Answered == {got[i].req : i \in DOMAIN got}

Stream(r, kind) ==
    LET unit(part) == [req |-> r, part |-> part]
    IN <<unit("line"), unit("head")>>
          \o (IF kind.framing = "chunked"
              THEN [i \in 1..2 * kind.size |-> unit(IF i % 2 = 1 THEN "size" ELSE "data")]
                     \o <<unit("last")>>
              ELSE [i \in 1..kind.size |-> unit("data")])

Ask(kind) ==
    /\ open
    /\ toSend = <<>>
    /\ Len(asked) < MaxRequests
    /\ Cardinality(DOMAIN asked \ Answered) < Ahead
    /\ asked' = Append(asked, kind)
    /\ toSend' = Stream(Len(asked'), kind)
    /\ UNCHANGED <<wire, conn, cgi, open, got>>

Send ==
    /\ toSend # <<>>
    /\ \E n \in 1..Len(toSend) :
          /\ wire' = wire \o SubSeq(toSend, 1, n)
          /\ toSend' = SubSeq(toSend, n + 1, Len(toSend))
    /\ UNCHANGED <<asked, conn, cgi, open, got>>

-----------------------------------------------------------------------------
(* The server. *)

(* handleReadEvent(): recv() returns some of what has come. *)
Read ==
    /\ open
    /\ conn.reading
    /\ \E n \in 1..Len(wire), outcome \in Outcomes :
          LET x == [conn EXCEPT !.recv = @ \o SubSeq(wire, 1, n)]
              y == HandleRequest(x, asked, outcome)
          IN /\ wire' = SubSeq(wire, n + 1, Len(wire))
             /\ conn' = [y EXCEPT !.isCgi = FALSE]
             /\ cgi' = (cgi \/ y.isCgi)
    /\ UNCHANGED <<asked, toSend, open, got>>

(* CgiEndEvent::process(): the answer of the CGI is a response of its own, *)
(* and until it is sent the socket is only watched for writing.            *)
CgiEnd ==
    /\ open
    /\ cgi
    /\ cgi' = FALSE
    /\ \E code \in {200, 500} :
          conn' = [conn EXCEPT !.out = Append(@, [req |-> conn.req, code |-> code]),
                               !.reading = FALSE]
    /\ UNCHANGED <<asked, toSend, wire, open, got>>

(* handleWriteEvent(): the last byte of the buffer ends the exchange.      *)
(* Bytes sent of an answer that is not sent whole do not show.             *)
Write ==
    /\ open
    /\ conn.out # <<>>
    /\ \E n \in 1..Len(conn.out) :
          /\ got' = got \o SubSeq(conn.out, 1, n)
          /\ LET rest == SubSeq(conn.out, n + 1, Len(conn.out))
                 y == [conn EXCEPT !.out = rest]
             IN /\ conn' = IF rest = <<>> /\ ~conn.close THEN Reset(y) ELSE y
                /\ open' = ~(rest = <<>> /\ conn.close)
    /\ cgi' = (cgi /\ open')
    /\ UNCHANGED <<asked, toSend, wire>>

(* Client::onTimeout(): a 408 instead of what is in the buffer, sent if it *)
(* can be, and the connection is closed.                                   *)
OnTimeout ==
    /\ open
    /\ open' = FALSE
    /\ cgi' = FALSE
    /\ conn' = [conn EXCEPT !.status = 408, !.out = <<>>]
    /\ got' \in {got, Append(got, [req |-> About(conn), code |-> 408])}
    /\ UNCHANGED <<asked, toSend, wire>>

Next ==
    \/ \E kind \in Kinds : Ask(kind)
    \/ Send
    \/ Read
    \/ CgiEnd
    \/ Write
    \/ OnTimeout

Spec == Init /\ [][Next]_vars

(* The client goes on sending what it has begun, the handlers of events    *)
(* that stay ready are called, a CGI ends.  WF_vars(Read) is written out:  *)
(* what makes Read possible is CanRead, and TLC is slow to find it out.   *)
CanRead == open /\ conn.reading /\ wire # <<>>
FairSpec ==
    /\ Spec
    /\ WF_vars(Send) /\ WF_vars(CgiEnd) /\ WF_vars(Write)
    /\ <>[]CanRead => []<><<Read>>_vars

-----------------------------------------------------------------------------
Answers == got \o conn.out

(* Whenever the connection is at the start of a request, so are the bytes  *)
(* to come: no answer that keeps the connection is given, and the context  *)
(* reset, while the rest of the request is still on its way, however it    *)
(* was cut into segments.                                                  *)
InSync ==
    LET ahead == conn.recv \o wire \o toSend
    IN open /\ conn.state = "line" /\ conn.error = 0 /\ ahead # <<>>
          => Head(ahead).part = "line"

(* A handler has effects (POST makes a file): each request is executed at  *)
(* most once, whole, in order, within the limit and by the routes of the   *)
(* virtual host its Host header names, whichever one the connection used   *)
(* before.  Not if data of a body that is too long reads as its end, see   *)
(* TooLongIsRefused.                                                       *)
ExecutedOnce ==
    /\ \A i, j \in DOMAIN conn.runs : i < j => conn.runs[i].req < conn.runs[j].req
    /\ \A i \in DOMAIN conn.runs :
          LET run == conn.runs[i]
              kind == asked[run.req]
          IN /\ run.size = kind.size
             /\ run.vhost = Select(kind.host)
             /\ run.size <= MaxBody[run.vhost]

(* Answers come in the order of the requests, and only errors of a request *)
(* that is given up are repeated when more of it arrives.  The 408 of an   *)
(* idle connection is about no request.                                    *)
AnswersInOrder ==
    \A i, j \in DOMAIN Answers :
       i < j /\ Answers[j].req # 0 =>
          \/ Answers[i].req < Answers[j].req
          \/ /\ Answers[i].req = Answers[j].req
             /\ Answers[i].code \in Closing
             /\ Answers[j].code \in Closing \cup {408}

(* After the last byte of an answer the connection is closed if the client *)
(* asked for that or the error demands it, and kept otherwise, also after  *)
(* a 404.  A redirected client is not heard (see Redirect), and a 500 of a *)
(* CGI closes if the server could not start it and not if the script fails.*)
ClosedAsAsked ==
    [][\A i \in DOMAIN got' \ DOMAIN got :
          LET code == got'[i].code
              kind == asked[got'[i].req]
              asks == kind.close /\ kind.target # "redirect"
          IN code # 408 /\ conn'.out = <<>> =>
                /\ asks \/ (code \in Closing /\ kind.target # "script") => ~open'
                /\ ~asks /\ code \notin Closing => open']_vars

(* A request with a body over the limit has no effects; it is answered 413 *)
(* and makes no file (test_post.py:40 and :47).  The code executes one, cut *)
(* short, when the data of an earlier chunk, kept in the buffer as a later *)
(* one is refused, reads as the end of a body where a size is due: the     *)
(* parser is complete, and the next bytes take the request past it.        *)
TooLongIsRefused ==
    \A r \in DOMAIN asked :
       asked[r].size > MaxBody[Select(asked[r].host)] =>
          \A i \in DOMAIN conn.runs : conn.runs[i].req # r

(* What of it a client may rely on, see module Exchanges, if no data of a  *)
(* body that is too long reads as its end.                                 *)
Done == {conn.runs[i].req : i \in DOMAIN conn.runs}
Executable ==
    {k \in Kinds :
       /\ k.line = "good" /\ k.head = "good" /\ k.framing # "refused"
       /\ k.size <= MaxBody[Select(k.host)]
       /\ k.target \in {"static", "script"}}
Promise == INSTANCE Exchanges
              WITH executed <- Done,
                   Refusals <- Closing
ImplementsExchanges == Promise!Spec

(* A request that is sent is answered, if the connection does not time out.*)
EachAnswered ==
    \A r \in 1..MaxRequests : (r \in DOMAIN asked) ~> (r \in Answered \/ ~open)
=============================================================================
