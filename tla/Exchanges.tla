----------------------------- MODULE Exchanges -----------------------------
(***************************************************************************)
(* What a client may rely on that sends one request after the other on a   *)
(* connection, without any parser, buffer or middleware: its requests are  *)
(* answered one by one and in order, each has its effects at most once and *)
(* before it is answered, none that is refused has any, and after a        *)
(* refusal the connection does nothing else but to refuse until it is      *)
(* closed.                                                                 *)
(***************************************************************************)
EXTENDS Naturals, Sequences

CONSTANTS Kinds,      \* the requests: close, asks to close; target, what for
          Executable, \* those that may have effects
          Refusals    \* codes after which the connection is closed, unless a
                      \* script that was run comes to one

VARIABLES asked,    \* the requests made
          executed, \* those that have had their effects
          got,      \* the answers received
          open      \* the connection is not closed

vars == <<asked, executed, got, open>>

Init == asked = <<>> /\ executed = {} /\ got = <<>> /\ open = TRUE

Answered == {got[i].req : i \in DOMAIN got}
Pending(r) == r \in DOMAIN asked \ Answered

(* Nothing was refused: an error came of what was executed. *)
Calm == \A i \in DOMAIN got : got[i].code \in Refusals => got[i].req \in executed

Ask ==
    /\ open
    /\ DOMAIN asked \subseteq Answered
    /\ \E kind \in Kinds : asked' = Append(asked, kind)
    /\ UNCHANGED <<executed, got, open>>

Execute(r) ==
    /\ open
    /\ Calm
    /\ Pending(r)
    /\ r \notin executed
    /\ asked[r] \in Executable
    /\ executed' = executed \cup {r}
    /\ UNCHANGED <<asked, got, open>>

(* Answers that the client gets, about r. *)
New == DOMAIN got' \ DOMAIN got
Told(r) ==
    /\ New # {}
    /\ SubSeq(got', 1, Len(got)) = got
    /\ \A i \in New : got'[i].req = r

(* The answer to a request.  The connection is kept if the client wants    *)
(* that and the answer allows it. *)
Answer(r) ==
    LET asks == asked[r].close /\ asked[r].target # "redirect"
    IN /\ open
       /\ Calm
       /\ Pending(r)
       /\ Told(r)
       /\ Len(got') = Len(got) + 1
       /\ \A i \in New :
             LET code == got'[i].code
             IN /\ code = 200 => r \in executed
                /\ asks \/ (code \in Refusals /\ asked[r].target # "script") => ~open'
                /\ code \in Refusals /\ r \notin executed => ~open'
                /\ ~asks /\ code \notin Refusals => open'
       /\ open' \in BOOLEAN
       /\ UNCHANGED <<asked, executed>>

(* The client may go on with a request that is refused, and even with the  *)
(* next, and is told so again. *)
Refuse(r) ==
    /\ open
    /\ r \notin executed
    /\ \A i \in DOMAIN got :
          got[i].req < r \/ (got[i].req = r /\ got[i].code \in Refusals)
    /\ Told(r)
    /\ \A i \in New : got'[i].code \in Refusals
    /\ open' \in BOOLEAN
    /\ UNCHANGED <<asked, executed>>

(* The timer, which may tell the client what it has given up: a request,   *)
(* or none. *)
GiveUp ==
    /\ open
    /\ open' = FALSE
    /\ \/ got' = got
       \/ \E r \in {0} \cup DOMAIN asked :
             /\ r = 0 \/ \A i \in DOMAIN got :
                   got[i].req < r \/ (got[i].req = r /\ got[i].code \in Refusals)
             /\ got' = Append(got, [req |-> r, code |-> 408])
    /\ UNCHANGED <<asked, executed>>

Next ==
    \/ Ask
    \/ \E r \in DOMAIN asked : Execute(r) \/ Answer(r) \/ Refuse(r)
    \/ GiveUp

Spec == Init /\ [][Next]_vars
=============================================================================
