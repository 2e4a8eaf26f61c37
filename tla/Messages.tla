------------------------------ MODULE Messages ------------------------------
(***************************************************************************)
(* How a request is read, character by character, out of the segments it   *)
(* comes in (src/src/Http/Parser, Http/URI, Middleware/RequestParser,      *)
(* RequestLimitsMiddleware).  Module RequestPipeline takes the parts of a  *)
(* request as units and follows a connection from request to request; here *)
(* is one request, and how its parts are found.                            *)
(*                                                                         *)
(* A character is a token: separators, digits and line ends are tokens of  *)
(* their own, a word that no parser looks into is one.  " " is a space or  *)
(* a tab.  A value x of this module is what the parsers keep:              *)
(*   x.buffer : PipelineContext::recvBuffer                                *)
(*   x.state, x.error, x.limit, x.headerBytes : RequestParser::_state,     *)
(*              _errorCode, _maxHeaderBytes, _lastHeaderBytes              *)
(*   x.mode, x.left, x.chunk : RequestBodyParser::_state,                  *)
(*              _contentLengthRemaining, _chunkSize                        *)
(*   x.req    : the HttpRequest                                            *)
(***************************************************************************)
EXTENDS Maps, Numbers

CONSTANTS
    Sent,       \* the requests: [text, good, body]; good if it is written
                \* well, with that body
    Chars,      \* byte -> character
    MaxHeader,  \* ServerConfig::maxRequestHeaderSize
    MaxBody     \* maxRequestBodySize of the location

ASSUME MessagesAssumption ==
    /\ \A m \in Sent : m.text \in Seq(STRING) /\ Len(m.text) <= SizeMax
    /\ MaxHeader \in Nat
    /\ MaxBody \in Nat /\ MaxBody + 2 <= SizeMax  \* a chunk and its line end

VARIABLES sent,      \* the request under way
          received,  \* how much of it has come
          conn       \* see above

vars == <<sent, received, conn>>

CRLF == <<"\r", "\n">>
Length == <<"content-length">>
Encoding == <<"transfer-encoding">>
Thrown == -1  \* in the place of a status: an exception nobody catches

(* std::string::find: the first place of a word in a text, 0 for none. *)
Find(text, word) ==
    LET there == {i \in 1..(Len(text) - Len(word) + 1) :
                     SubSeq(text, i, i + Len(word) - 1) = word}
    IN IF there = {} THEN 0 ELSE CHOOSE i \in there : \A j \in there : i <= j
From(text, i) == SubSeq(text, i, Len(text))
UpTo(text, i) == SubSeq(text, 1, i - 1)

(* The pieces between separators; a last one that is empty does not count. *)
Pieces(text, separator) ==
    LET next(pieces, c) ==
            IF c = separator THEN Append(pieces, <<>>)
            ELSE [pieces EXCEPT ![Len(pieces)] = Append(@, c)]
        all == FoldLeft(next, <<<<>>>>, text)
    IN IF Last(all) = <<>> THEN Front(all) ELSE all

Fail(x, code) == [x EXCEPT !.error = code]

-----------------------------------------------------------------------------
(* URI::decodeURI.  What follows a "%" are bytes of one character in UTF-8,*)
(* reserved characters stay encoded.                                       *)
Malformed == [ok |-> FALSE, value |-> <<>>]
Reserved == {";", ",", "/", "?", ":", "@", "&", "=", "+", "$", "#"}

IsByte(s, i) ==
    /\ i + 2 <= Len(s) /\ s[i] = "%"
    /\ Contains(HexDigits, s[i + 1]) /\ Contains(HexDigits, s[i + 2])
ByteAt(s, i) == 16 * Digit(s[i + 1]) + Digit(s[i + 2])

(* How many bytes follow the first one; more than there are for a byte     *)
(* that is never the first.                                                *)
Following(byte, none) ==
    CASE byte < 128 -> 0
      [] byte \in 192..223 -> 1
      [] byte \in 224..239 -> 2
      [] byte \in 240..247 -> 3
      [] OTHER -> none

Decode(s) ==
    LET after(text, r) == [r EXCEPT !.value = text \o @]
        from[i \in 1..(Len(s) + 1)] ==
            IF i > Len(s) THEN [ok |-> TRUE, value |-> <<>>]
            ELSE IF s[i] # "%" THEN after(<<s[i]>>, from[i + 1])
            ELSE IF ~IsByte(s, i) THEN Malformed
            ELSE LET n == Following(ByteAt(s, i), Len(s))
                     bytes == [k \in 1..(n + 1) |-> ByteAt(s, i + 3 * (k - 1))]
                     whole == \A k \in 1..n : /\ IsByte(s, i + 3 * k)
                                              /\ bytes[k + 1] \in 128..191
                 IN IF ~whole THEN Malformed
                    ELSE IF n = 0 /\ Chars[bytes[1]] \in Reserved
                         THEN after(SubSeq(s, i, i + 2), from[i + 3])
                    ELSE after([k \in 1..(n + 1) |-> Chars[bytes[k]]],
                               from[i + 3 * (n + 1)])
    IN from[1]

(* A map that is filled pair by pair until one is refused. *)
Empty == [ok |-> TRUE, map |-> <<>>]
Refused(m) == [m EXCEPT !.ok = FALSE]
With(m, key, value) == [m EXCEPT !.map = Put(@, key, value)]

(* A pair of a query, without "=" a key only. *)
AddQuery(m, pair) ==
    LET eq == Find(pair, <<"=">>)
        key == Decode(IF eq = 0 THEN pair ELSE UpTo(pair, eq))
        value == Decode(IF eq = 0 THEN <<>> ELSE From(pair, eq + 1))
    IN IF ~m.ok THEN m
       ELSE IF key.ok /\ value.ok THEN With(m, key.value, value.value)
       ELSE Refused(m)

-----------------------------------------------------------------------------
(* RequestLineParser: method, target and version, the version last.  The   *)
(* target is what is asked, which may be refused, and the path.            *)
WithTarget(x, path, pairs) ==
    LET y == [x EXCEPT !.req.query = pairs.map]
    IN IF ~pairs.ok THEN Fail(y, Thrown) ELSE [y EXCEPT !.req.path = path]

ParseLine(x, line) ==
    LET methodEnd == Find(line, <<" ">>)
        rest == From(line, methodEnd + 1)
        uriEnd == Find(rest, <<" ">>)
        uri == UpTo(rest, uriEnd)
        version == From(rest, uriEnd + 1)
        mark == Find(uri, <<"?">>)
        path == IF mark = 0 THEN uri ELSE UpTo(uri, mark)
        query == IF mark = 0 THEN <<>> ELSE From(uri, mark + 1)
        pairs == FoldLeft(AddQuery, Empty, Pieces(query, "&"))
        y == [x EXCEPT !.req.method = UpTo(line, methodEnd), !.req.version = version]
    IN IF methodEnd = 0 \/ uriEnd = 0 THEN Fail(x, 400)
       ELSE IF version \notin {<<"HTTP/1.1">>, <<"HTTP/1.0">>} THEN Fail(y, 505)
       ELSE WithTarget(y, path, pairs)

ParseRequestLine(x) ==
    LET end == Find(x.buffer, CRLF)
        y == ParseLine(x, UpTo(x.buffer, end))
    IN IF Len(x.buffer) > x.limit THEN Fail(x, 431)
       ELSE IF end = 0 THEN x
       ELSE IF end = 1 THEN Fail(x, 400)
       ELSE IF y.error # 0 THEN y
       ELSE [y EXCEPT !.buffer = From(@, end + 2), !.state = "head"]

(* RequestHeadParser.  A line ends at "\n", with or without "\r" before;   *)
(* the same name twice is refused.                                         *)
AddHeader(m, whole) ==
    LET line == IF whole # <<>> /\ Last(whole) = "\r" THEN Front(whole) ELSE whole
        colon == Find(line, <<":">>)
        key == Trim(UpTo(line, colon))
    IN IF line = <<>> \/ ~m.ok THEN m
       ELSE IF colon = 0 \/ key = <<>> \/ key \in DOMAIN m.map THEN Refused(m)
       ELSE With(m, key, Trim(From(line, colon + 1)))

ParseHeaders(x) ==
    LET end == Find(x.buffer, CRLF \o CRLF)
        fields == FoldLeft(AddHeader, Empty, Pieces(UpTo(x.buffer, end), "\n"))
        hasBody == {Length, Encoding} \cap DOMAIN fields.map # {}
        y == [x EXCEPT !.req.headers = fields.map]
    IN IF end = 0 THEN IF Len(x.buffer) > x.limit THEN Fail(x, 431) ELSE x
       ELSE IF ~fields.ok THEN Fail(y, 400)
       ELSE [y EXCEPT !.buffer = From(@, end + 4), !.headerBytes = end + 3,
                      !.state = IF hasBody THEN "body" ELSE "complete"]

-----------------------------------------------------------------------------
(* RequestBodyParser.  What is consumed leaves the buffer at once, which   *)
(* after an error makes no difference.                                     *)
ContentLength(x) == DecStrToSize(x.req.headers[Length])

InitBody(x) ==
    LET n == ContentLength(x)
    IN IF Encoding \in DOMAIN x.req.headers
       THEN IF x.req.headers[Encoding] # <<"chunked">> THEN Fail(x, 501)
            ELSE IF Length \in DOMAIN x.req.headers THEN Fail(x, 400)
            ELSE [x EXCEPT !.mode = "size"]
       ELSE IF ~n.ok THEN Fail(x, 400)
       ELSE [x EXCEPT !.left = n.value,
                      !.mode = IF n.value = 0 THEN "complete" ELSE "identity"]

(* Mutant: what is still to come of a body is not counted down. *)
LeftStays(x) ==
    LET n == IF Len(x.buffer) < x.left THEN Len(x.buffer) ELSE x.left
    IN [x EXCEPT !.buffer = From(@, n + 1),
                 !.req.body = @ \o SubSeq(x.buffer, 1, n),
                 !.mode = IF n = x.left THEN "complete" ELSE @]

ParseIdentity(x) ==
    LET n == IF Len(x.buffer) < x.left THEN Len(x.buffer) ELSE x.left
    IN [x EXCEPT !.buffer = From(@, n + 1),
                 !.req.body = @ \o SubSeq(x.buffer, 1, n),
                 !.left = @ - n,
                 !.mode = IF n = x.left THEN "complete" ELSE @]

ChunkSize(x) ==
    LET end == Find(x.buffer, CRLF)
        line == UpTo(x.buffer, end)
        semi == Find(line, <<";">>)
        n == HexStrToSize(IF semi = 0 THEN line ELSE UpTo(line, semi))
        y == [x EXCEPT !.chunk = n.value]
        has == Len(x.req.body)
    IN IF end = 0 THEN x
       ELSE IF ~n.ok THEN Fail(x, 400)
       ELSE IF has > MaxBody \/ n.value > MaxBody - has THEN Fail(y, 413)
       ELSE [y EXCEPT !.buffer = From(@, end + 2),
                      !.mode = IF n.value = 0 THEN "crlf" ELSE "data"]

(* Mutant: a chunk is taken when its data are there, and its line end      *)
(* only if that is there too.                                              *)
ChunkDataAlone(x) ==
    LET y == [x EXCEPT !.req.body = @ \o SubSeq(x.buffer, 1, x.chunk)]
        end == SubSeq(x.buffer, x.chunk + 1, x.chunk + 2)
    IN IF Len(x.buffer) < x.chunk THEN x
       ELSE IF Len(x.buffer) >= x.chunk + 2 /\ end # CRLF THEN Fail(y, 400)
       ELSE [y EXCEPT !.buffer = From(@, x.chunk + 3), !.mode = "size"]

(* A chunk is taken when the line end behind it is there. *)
ChunkData(x) ==
    LET y == [x EXCEPT !.req.body = @ \o SubSeq(x.buffer, 1, x.chunk)]
    IN IF Len(x.buffer) < x.chunk + 2 THEN x
       ELSE IF SubSeq(x.buffer, x.chunk + 1, x.chunk + 2) # CRLF THEN Fail(y, 400)
       ELSE [y EXCEPT !.buffer = From(@, x.chunk + 3), !.mode = "size"]

(* Lines up to an empty one are passed over, again from the first each     *)
(* time more of them comes.                                                *)
Trailer(x) ==
    LET end == Find(x.buffer, CRLF \o CRLF)
        none == IsPrefix(CRLF, x.buffer)
    IN IF none \/ end # 0
       THEN [x EXCEPT !.buffer = From(@, IF none THEN 3 ELSE end + 4), !.mode = "complete"]
       ELSE x

(* parseChunked().  A step that does something takes a character at least, *)
(* so there are no more of them than characters.  Its timeout never fires: *)
(* the time of the last data was taken on entry.                           *)
ChunkStep(x) ==
    IF x.error # 0 \/ x.buffer = <<>> THEN x
    ELSE CASE x.mode = "size" -> ChunkSize(x)
           [] x.mode = "data" -> ChunkData(x)
           [] x.mode = "crlf" -> Trailer(x)
           [] OTHER -> x

ParseChunked(x) == FoldLeft(LAMBDA y, c : ChunkStep(y), x, x.buffer)

ParseBody(x) ==
    LET y == IF x.mode = "uninitialized" THEN InitBody(x) ELSE x
    IN IF y.error # 0 THEN y
       ELSE CASE y.mode = "identity" -> ParseIdentity(y)
              [] y.mode \in {"size", "data", "crlf"} -> ParseChunked(y)
              [] OTHER -> y

-----------------------------------------------------------------------------
(* The middlewares, each calling the next. *)

(* Nothing may follow a body in the buffer, nor be missing. *)
CheckBody(x) ==
    IF Len(x.req.body) > MaxBody THEN Fail(x, 413)
    ELSE IF x.buffer # <<>> THEN Fail(x, 400)
    ELSE IF /\ Length \in DOMAIN x.req.headers
            /\ ContentLength(x) # Some(Len(x.req.body)) THEN Fail(x, 400)
    ELSE x

EndBody(x) ==
    IF x.error # 0 \/ x.mode # "complete" THEN x
    ELSE CheckBody([x EXCEPT !.state = "complete"])

Body(x) == IF x.state = "body" THEN EndBody(ParseBody(x)) ELSE x

Limits(x) ==
    LET n == ContentLength(x)
        bounded == Length \in DOMAIN x.req.headers
    IN IF x.headerBytes > MaxHeader THEN Fail(x, 431)
       ELSE IF bounded /\ ~n.ok THEN Fail(x, 400)
       ELSE IF bounded /\ n.value > MaxBody THEN Fail(x, 413)
       ELSE Body(x)

RequestHead(x) ==
    LET y == IF x.state = "head" THEN ParseHeaders(x) ELSE x
    IN IF y.error # 0 \/ y.state = "head" THEN y ELSE Limits(y)

RequestLine(x) ==
    LET y == IF x.state = "line" THEN ParseRequestLine(x) ELSE x
    IN IF y.error # 0 \/ y.state = "line" THEN y ELSE RequestHead(y)

New(limit) ==
    [buffer |-> <<>>, state |-> "line", error |-> 0, limit |-> limit, headerBytes |-> 0,
     mode |-> "uninitialized", left |-> 0, chunk |-> 0,
     req |-> [method |-> <<>>, path |-> <<>>, version |-> <<>>, query |-> <<>>,
              headers |-> <<>>, body |-> <<>>]]

Init ==
    /\ sent \in Sent
    /\ received = 0
    /\ conn = New(MaxHeader)

(* One recv(), of any length, and the chain.  Once the request is complete *)
(* or refused it is answered, see Requests. *)
Receive ==
    /\ conn.error = 0
    /\ conn.state # "complete"
    /\ \E n \in 1..(Len(sent.text) - received) :
          /\ received' = received + n
          /\ conn' = RequestLine([conn EXCEPT
                        !.buffer = @ \o SubSeq(sent.text, received + 1, received + n)])
    /\ UNCHANGED sent

Next == Receive

Spec == Init /\ [][Next]_vars

-----------------------------------------------------------------------------
(* What a client means by its request: how a body is written. *)
Hex(n) == <<HexDigits[n + 1]>>
Chunk(data) == Hex(Len(data)) \o CRLF \o data \o CRLF
Chunked(chunks, trailer) ==
    FlattenSeq([i \in DOMAIN chunks |-> Chunk(chunks[i])])
       \o <<"0">> \o CRLF \o trailer \o CRLF

(* The first line and the headers count for the limit, and what of the     *)
(* body comes along with the line.                                         *)
MayBeTooLong == received > MaxHeader

(* However a request is cut into segments, the parsers come to what they   *)
(* would make of the same characters in one piece without a limit: the     *)
(* same request, error and need of more.  Only a 431 depends on the cuts,  *)
(* and it takes more characters than are allowed.                          *)
AsIfWhole ==
    LET text == SubSeq(sent.text, 1, received)
        whole == RequestLine([New(SizeMax) EXCEPT !.buffer = text])
    IN \/ conn = [whole EXCEPT !.limit = conn.limit]
       \/ conn.error = 431 /\ MayBeTooLong

(* A request that is written well is complete with its last character and  *)
(* not before, with the body that was sent, if it keeps the limits; if the *)
(* body alone does not, it is refused.                                     *)
SentIsReceived ==
    sent.good =>
       /\ conn.error \in {0, 413, 431}
       /\ conn.error = 431 => MayBeTooLong
       /\ conn.error = 413 => Len(sent.body) > MaxBody
       /\ conn.state = "complete" => /\ received = Len(sent.text)
                                     /\ conn.req.body = sent.body
                                     /\ conn.buffer = <<>>
       /\ received = Len(sent.text) => conn.state = "complete" \/ conn.error # 0

(* The same of a request that comes in one piece and has no limit.         *)
WrittenWell(m) ==
    LET whole == RequestLine([New(SizeMax) EXCEPT !.buffer = m.text])
    IN /\ whole.error \in {0, 413, 431}
       /\ whole.error = 0 => whole.state = "complete"
       /\ whole.error = 413 => Len(m.body) > MaxBody
       /\ whole.state = "complete" => whole.req.body = m.body /\ whole.buffer = <<>>
=============================================================================
