----------------------------- MODULE MCMessages -----------------------------
(* Requests without a body, with a length and in chunks, and every request *)
(* that differs from one of some of them in one character: one left out,   *)
(* one more, or another.                                                   *)
EXTENDS Messages, TLC

MCChars == [n \in 0..255 |-> CASE n = 38 -> "&" [] n = 97 -> "a" [] OTHER -> ToString(n)]

Line(uri) == <<"POST", " ">> \o uri \o <<" ", "HTTP/1.1">> \o CRLF
Field(key, value) == key \o <<":">> \o value \o CRLF
Good(uri, fields, text, body) ==
    [text |-> Line(uri) \o fields \o CRLF \o text, good |-> TRUE, body |-> body]

(* Bodies, of which some look like what is around them. *)
Texts == {<<>>, <<"a">>, <<"a", "b">>, CRLF, <<"0">> \o CRLF, <<"0">> \o CRLF \o CRLF}
Cuts(s) ==
    {c \in UNION {[1..n -> {SubSeq(s, i, j) : i \in DOMAIN s, j \in DOMAIN s} \ {<<>>}]
                     : n \in 0..3} : FlattenSeq(c) = s}
Dec(n) == <<Digits[n + 1]>>
ByLength == {Good(<<"/">>, Field(Length, <<" ">> \o Dec(Len(t))), t, t) : t \in Texts}
ByChunks ==
    UNION {{Good(<<"/">>, Field(Encoding, <<"chunked">>), Chunked(c, trailer), t)
               : c \in Cuts(t), trailer \in {<<>>, <<"a">> \o CRLF}} : t \in Texts}
Short == Good(<<"/">>, Field(Encoding, <<"chunked">>),
              <<"1", ";", "a">> \o CRLF \o <<"a">> \o CRLF \o <<"0">> \o CRLF \o CRLF, <<"a">>)
Long == Good(<<"/">>, Field(Encoding, <<"chunked">>),
             Chunked(<<<<"a", "b">>, <<"a">>>>, <<"a">> \o CRLF), <<"a", "b", "a">>)
Plain == Good(<<"/", "?", "a", "=", "%", "6", "1", "&", "%", "2", "6">>,
              Field(<<"host">>, <<"a", " ">>), <<>>, <<>>)
Two == Good(<<"/">>, Field(<<"host">>, <<"a">>) \o Field(Length, <<"1">>), <<"a">>, <<"a">>)

Big == Good(<<"/">>, FlattenSeq([i \in 1..5 |-> Field(<<Digits[i]>>, <<"a">>)]), <<>>, <<>>)

Noise == {"\r", "\n", "0", "1", "2", "c", " ", ":", ";", "%"}
Edits(m) ==
    LET s == m.text
        texts == {RemoveAt(s, i) : i \in DOMAIN s}
                    \cup {InsertAt(s, i, c) : i \in DOMAIN s, c \in Noise}
                    \cup {ReplaceAt(s, i, c) : i \in DOMAIN s, c \in Noise}
    IN {[text |-> t, good |-> FALSE, body |-> <<>>] : t \in texts}

MCSent ==
    ByLength \cup ByChunks \cup {Short, Long, Plain, Two, Big}
       \cup Edits(Short) \cup Edits(Long) \cup Edits(Plain) \cup Edits(Two)

(* What the theorem about the requests written well takes for granted.     *)
ASSUME SentWrittenWell == \A m \in MCSent : m.good => WrittenWell(m)
=============================================================================
