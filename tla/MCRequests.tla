----------------------------- MODULE MCRequests -----------------------------
(* Requests with two virtual hosts, one of them with a shorter limit, and  *)
(* a request of each sort: with and without a body, in pieces, too long    *)
(* for one host or both, malformed, redirected, for a CGI, for no route.   *)
EXTENDS Requests

Kind(framing, size, host, close, target) ==
    [line |-> "good", head |-> "good", framing |-> framing, size |-> size,
     host |-> host, close |-> close, target |-> target, reads |-> "text"]

MCVhosts == {"a", "b"}
MCMaxBody == [v \in MCVhosts |-> IF v = "a" THEN 2 ELSE 1]
MCKinds ==
    {Kind("none", 0, "a", FALSE, "static"),
     Kind("none", 0, "b", TRUE, "redirect"),
     Kind("length", 2, "a", TRUE, "static"),
     Kind("length", 2, "b", FALSE, "static"),
     Kind("length", 0, "other", FALSE, "nowhere"),
     Kind("chunked", 2, "b", FALSE, "static"),
     [Kind("chunked", 2, "b", FALSE, "static") EXCEPT !.reads = "long"],
     [Kind("chunked", 1, "b", FALSE, "script") EXCEPT !.reads = "end"],
     Kind("refused", 1, "b", FALSE, "static"),
     [Kind("none", 0, "a", FALSE, "static") EXCEPT !.line = "malformed"],
     [Kind("none", 0, "b", FALSE, "static") EXCEPT !.head = "malformed"]}
(* Not in the run: too long, with data that ends the body if it is read as *)
(* a size.  With these Kinds TooLongIsRefused is violated.                 *)
MCMisread == {[Kind("chunked", 2, "b", FALSE, "static") EXCEPT !.reads = "end"]}
MCOutcomes == {200, 404, 405, 500}
=============================================================================
