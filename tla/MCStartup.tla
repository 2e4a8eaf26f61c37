----------------------------- MODULE MCStartup -----------------------------
(* Startup with every short file, to try the parser, and with files of one *)
(* or two server blocks that vary in their listens, their options or their *)
(* locations, to try the rest.                                             *)
EXTENDS Startup, TLC

-----------------------------------------------------------------------------
(* Lines.  In(n, lines) moves lines n blanks to the right. *)
Line(mark, key, value) == [indent |-> 0, mark |-> mark, key |-> key, value |-> value]
Pair(key, value) == <<Line("map", key, value)>>
Item(value) == <<Line("seq", "", value)>>
Remark == <<Line("comment", "", "")>>
In(n, lines) == [i \in DOMAIN lines |-> [lines[i] EXCEPT !.indent = @ + n]]
Block(key, lines) == Pair(key, "") \o In(2, lines)
Items2(key, lines) == <<Line("seq", key, "")>> \o In(2, lines)
Row(seqs) == FlattenSeq(seqs)
Maybe(key, value) == IF value = "" THEN <<>> ELSE Pair(key, value)

-----------------------------------------------------------------------------
(* Every file of up to four lines, at three depths; a line that opens a    *)
(* block is followed by no comment and no empty line.                      *)
Names == <<"a", "b", "c", "d">>
ShortLines(i) ==
    [indent : 0..2, mark : {"map"}, key : {Names[i], "a"}, value : {"", "v"}]
       \cup [indent : 0..2, mark : {"seq"}, key : {""}, value : {"v"}]
       \cup [indent : 0..2, mark : {"seq"}, key : {Names[i]}, value : {""}]
       \cup [indent : 0..2, mark : {"comment"}, key : {""}, value : {""}]

Opens(line) == line.key # "" /\ line.value = ""
Plausible(lines, line) ==
    /\ lines # <<>> /\ Opens(Last(lines)) => line.mark # "comment"
    /\ lines # <<>> /\ ~Opens(Last(lines)) => line.indent <= Last(lines).indent

Grown(files, i) ==
    {Append(f[1], f[2]) : f \in {g \in files \X ShortLines(i) : Plausible(g[1], g[2])}}
Short1 == {<<line>> : line \in ShortLines(1)}
Short2 == Grown(Short1, 2)
Short3 == Grown(Short2, 3)
ShortFiles == {<<>>} \cup Short1 \cup Short2 \cup Short3 \cup Grown(Short3, 4)

-----------------------------------------------------------------------------
(* Server blocks. *)
ListenBlock(l) ==
    Items2("listen", Maybe("host", l[1]) \o Maybe("interface", l[2]) \o Pair("port", l[3]))
ListensBlock(ls) == Block("listens", Row([i \in DOMAIN ls |-> ListenBlock(ls[i])]))
Server(options, listens, blocks) ==
    Items2("server", In(0, options) \o ListensBlock(listens) \o blocks)
File(servers) == Block("servers", Row(servers))

One == <<"", "10.0.0.1", "80">>
SomeListens ==
    {One, <<"a", "10.0.0.1", "80">>, <<"A", "10.0.0.1", "80">>, <<"", "", "80">>,
     <<"", "127.0.0.1", "8080">>, <<"b", "127.1", "8080">>, <<"", "nowhere", "80">>,
     <<"", "10.0.0.1", "70000">>}
ListenFiles ==
    {File(<<Server(<<>>, ls, <<>>)>>) : ls \in UNION {[1..n -> SomeListens] : n \in 1..2}}
       \cup {File(<<Server(<<>>, <<l, m>>, <<>>), Server(<<>>, <<n>>, <<>>)>>) :
                l, m, n \in SomeListens}
       \cup {File(<<Server(<<>>, <<l>>, <<>>), Server(<<>>, <<m>>, <<>>),
                    Server(<<>>, <<n>>, <<>>)>>) : l, m, n \in SomeListens}

-----------------------------------------------------------------------------
(* Locations in any order, with and without a block for "/". *)
Location1(path, index, cgi) ==
    Items2("location", Pair("path", path) \o Maybe("index", index)
        \o (IF cgi = "" THEN <<>> ELSE Block("interpreterPath", Pair(cgi, "/bin/i"))))
SomeLocations ==
    {Location1(path, index, cgi) :
        path \in {"/", "/a"}, index \in {"", "i.py", "i.html"}, cgi \in {"", ".py"}}
LocationFiles ==
    {File(<<Server(options, <<One>>, Block("locations", l \o m))>>) :
        options \in {<<>>, Block("interpreterPath", Pair(".py", "/bin/i")),
                     Pair("index", "i.py")},
        l, m \in SomeLocations}

-----------------------------------------------------------------------------
(* One option at a time, good and bad, first in the server block. *)
Log(key, pairs) == Items2(key, Row([i \in DOMAIN pairs |-> Pair(pairs[i][1], pairs[i][2])]))
SomeOptions ==
    {Pair(key, text) : key \in Sizes \cup Timeouts \cup {"maxEvents"},
                       text \in {"8", "8KB", "99999", "-1", "", "x"}}
       \cup {Pair(key, "true") : key \in {"autoindex", "session", "unknown"}}
       \cup {Block("allowedMethods", Item("GET")), Block("allowedMethods", Item("COPY")),
             Pair("root", "./r"), Pair("uploadStore", "./u"),
             Block("interpreterPath", Pair("py", "/bin/i")),
             Block("error_pages", Pair("404", "/404.html")),
             Block("error_pages", Pair("200", "/200.html")),
             Block("locations", Items2("location", Pair("root", "./r"))),
             Block("locations", Items2("location", Pair("path", "/a") \o Pair("color", "x"))),
             Block("locations", Items2("location", Remark \o Pair("path", "/a")
                 \o Pair("return", "301 /b") \o Pair("autoindex", "on")
                 \o Pair("maxRequestBodySize", "8KB") \o Pair("chunkedTimeoutSec", "8"))),
             Block("locations", Items2("location", Pair("path", "/a") \o Pair("return", "200 /b")))}
       \cup {Block("access_logs", l \o m) :
                l, m \in {<<>>, Log("access_log", <<<<"disable", "true">>>>),
                          Log("access_log", <<<<"sink", "file">>, <<"maxSize", "8KB">>>>),
                          Log("access_log", <<<<"sink", "console">>>>)}}
       \cup {Block("error_logs", l) :
                l \in {Log("error_log", <<<<"sink", "file">>, <<"level", "info">>>>),
                       Log("error_log", <<<<"sink", "console">>, <<"level", "all">>>>),
                       Log("error_log", <<<<"sink", "console">>, <<"filename", "f">>>>),
                       Log("access_log", <<<<"sink", "console">>>>)}}
OptionFiles ==
    {File(<<Server(o, <<One>>, <<>>), Server(<<>>, <<<<"a", "10.0.0.1", "80">>>>, <<>>)>>) :
        o \in SomeOptions}

MCFiles == ShortFiles \cup ListenFiles \cup LocationFiles \cup OptionFiles
MCFds == 5..8
MCHeaders == {"", "a", "A", "b"}

MCLexicon ==
    [chars |-> ("80" :> <<"8", "0">>) @@ ("8080" :> <<"8", "0", "8", "0">>)
               @@ ("70000" :> <<"7", "0", "0", "0", "0">>) @@ ("8" :> <<"8">>)
               @@ ("8KB" :> <<"8", "K", "B">>) @@ ("99999" :> <<"9", "9", "9", "9", "9">>)
               @@ ("-1" :> <<"-", "1">>) @@ ("" :> <<>>) @@ ("301" :> <<"3", "0", "1">>)
               @@ ("200" :> <<"2", "0", "0">>) @@ ("404" :> <<"4", "0", "4">>),
     words |-> ("301 /b" :> <<"301", "/b">>) @@ ("200 /b" :> <<"200", "/b">>),
     suffixes |-> {<<"i.py", ".py">>},
     extensions |-> {".py"},
     address |-> ("0.0.0.0" :> "any") @@ ("10.0.0.1" :> "10.0.0.1")
                 @@ ("127.0.0.1" :> "127.0.0.1") @@ ("127.1" :> "127.0.0.1"),
     host |-> ("" :> <<"", "">>) @@ ("a" :> <<"a", "">>) @@ ("A" :> <<"a", "">>)
              @@ ("b" :> <<"b", "">>)]
=============================================================================
