------------------------------- MODULE Config -------------------------------
(***************************************************************************)
(* What the tree of a configuration file means (src/src/Config): which     *)
(* server blocks ConfigParser refuses, and the Config that ConfigBuilder   *)
(* makes of the others.  Any exception ends the start of the program in    *)
(* the same way, so that their order does not matter.  Texts are values;   *)
(* Lexicon gives what the code finds in them:                              *)
(*   .chars      : text -> its characters, for texts read as numbers       *)
(*   .words      : text -> the words of a "return"                         *)
(*   .suffixes   : pairs <<text, suffix>>                                  *)
(*   .extensions : texts that begin with a dot                             *)
(*   .address    : interface -> address, for those getaddrinfo() knows     *)
(*   .host       : host -> its name and port, trimmed and in lower case    *)
(* Words whose case the code ignores are written in lower case.            *)
(***************************************************************************)
EXTENDS MyYAML, Numbers

CONSTANT Lexicon

(* The texts of a table that has no entry for all. *)
Look(table, text, default) == IF text \in DOMAIN table THEN table[text] ELSE default
Chars(text) == Look(Lexicon.chars, text, <<"?">>)
IntOf(text) == StringToInt(Chars(text))
Seconds(text) == ToSizeT(Chars(text))
Bytes(text) == SizeByteStrToSizeT(Chars(text))
EndsWith(text, suffix) == <<text, suffix>> \in Lexicon.suffixes

ServerKeys ==
    {"listens", "locations", "access_logs", "error_logs", "error_pages",
     "maxRequestBodySize", "timeoutSec", "requestHeaderTimeoutSec",
     "requestBodyTimeoutSec", "maxEvents", "root", "allowedMethods", "autoindex",
     "index", "uploadStore", "interpreterPath", "session", "sessionTimeoutSec",
     "maxRequestHeaderSize", "chunkedTimeoutSec"}
ListenKeys == {"host", "interface", "port"}
LocationKeys ==
    {"path", "root", "allowedMethods", "autoindex", "index", "noIndex", "uploadStore",
     "interpreterPath", "return", "session", "maxRequestBodySize", "directoryError",
     "chunkedTimeoutSec"}
FileKeys == {"filename", "logDir", "maxSize", "maxBackup"}
AccessLogKeys == {"disable", "sink", "format"} \cup FileKeys
ErrorLogKeys == AccessLogKeys \cup {"level", "mode"}
AllMethods == {"GET", "HEAD", "POST", "PUT", "DELETE"}
Yes == {"true", "on", "yes"}
Bools == Yes \cup {"false", "off", "no"}

StatusCodes ==
    {100, 200, 201, 202, 204, 301, 302, 303, 307, 308, 400, 401, 403, 404, 405, 408,
     413, 414, 415, 431, 500, 501, 502, 503, 504, 505}
IsStatus(r, left, right) ==
    r.ok /\ r.value \in StatusCodes /\ left <= r.value /\ r.value < right

(* What a key is refused for, when it is there. *)
Checked(t, n, key, Test(_)) ==
    key \in Keys(t, n) => Test(Value(t, Child(t, n, key)))

Methods(t, n) == {Value(t, k) : k \in Kids(t, Child(t, n, "allowedMethods"))}
MethodsOK(t, n) ==
    "allowedMethods" \in Keys(t, n) =>
        IsSeq(t, Child(t, n, "allowedMethods")) /\ Methods(t, n) \subseteq AllMethods

(* extension -> interpreter; a value instead of a map gives none *)
Interpreters(t, n) ==
    IF "interpreterPath" \notin Keys(t, n) THEN <<>>
    ELSE LET map == Child(t, n, "interpreterPath")
         IN [ext \in Keys(t, map) |-> Text(t, map, ext, "")]
InterpretersOK(t, n) == DOMAIN Interpreters(t, n) \subseteq Lexicon.extensions

-----------------------------------------------------------------------------
(* parseListens() *)
Port(t, l) == IntOf(Text(t, l, "port", ""))
Interface(t, l) == Text(t, l, "interface", "0.0.0.0")

ListenOK(t, l) ==
    /\ Key(t, l) = "listen"
    /\ IsMap(t, l) /\ Keys(t, l) \subseteq ListenKeys
    /\ "port" \in Keys(t, l) /\ Port(t, l).ok /\ Port(t, l).value \in 1..65535
    /\ Interface(t, l) \in DOMAIN Lexicon.address

Listen(t, l) ==
    [host |-> Text(t, l, "host", ""), interface |-> Interface(t, l),
     port |-> Port(t, l).value]

(* parseErrorPages(): a page whose URI is a block has the empty URI. *)
ErrorPagesOK(t, n) == \A code \in Keys(t, n) : IsStatus(IntOf(code), 400, 600)
ErrorPages(t, n) ==
    [code \in {IntOf(k).value : k \in Keys(t, n)} |->
        Text(t, n, CHOOSE k \in Keys(t, n) : IntOf(k).value = code, "")]

-----------------------------------------------------------------------------
(* parseLogs() *)
Disabled(t, l) == Text(t, l, "disable", "") = "true"

LogOK(t, l, name, keys) ==
    LET sink == Text(t, l, "sink", "")
        oneOf(key, texts) == Checked(t, l, key, LAMBDA text : text \in texts)
    IN /\ Key(t, l) = name
       /\ IsMap(t, l)
       /\ IF Disabled(t, l) THEN Keys(t, l) = {"disable"}
          ELSE /\ Keys(t, l) \subseteq keys
               /\ sink \in {"file", "console"}
               /\ oneOf("format", {"json", "elf"})
               /\ sink = "console" => Keys(t, l) \cap FileKeys = {}
               /\ Checked(t, l, "maxSize", LAMBDA text : Bytes(text).ok)
               /\ Checked(t, l, "maxBackup", LAMBDA text : Seconds(text).ok)
               /\ name = "error_log" =>
                     /\ oneOf("level", {"debug", "info", "warning", "error", "fatal"})
                     /\ oneOf("mode", {"greater_or_equal", "exact"})

LogsOK(t, n, name, keys) ==
    /\ IsSeq(t, n)
    /\ \A l \in Kids(t, n) : LogOK(t, l, name, keys)
    /\ \A l, m \in Kids(t, n) : Disabled(t, l) = Disabled(t, m)

DefaultLog(filename) ==
    [disabled |-> FALSE, sink |-> "file", filename |-> filename, level |-> "warning",
     mode |-> "greater_or_equal"]

Logs(t, n, filename) ==
    LET log(l) ==
            IF Disabled(t, l) THEN [DefaultLog(filename) EXCEPT !.disabled = TRUE]
            ELSE [disabled |-> FALSE, sink |-> Text(t, l, "sink", ""),
                  filename |-> Text(t, l, "filename", filename),
                  level |-> Text(t, l, "level", "warning"),
                  mode |-> Text(t, l, "mode", "greater_or_equal")]
    IN [i \in DOMAIN Items(t, n) |-> log(Items(t, n)[i])]

-----------------------------------------------------------------------------
(* ConfigLocationParser.  The size of "None" stands for a limit that the   *)
(* location does not have.                                                 *)
LocationOK(t, l) ==
    LET isBool(text) == text \in Bools
        redirect(text) == /\ text \in DOMAIN Lexicon.words
                          /\ Len(Lexicon.words[text]) >= 2
                          /\ IsStatus(IntOf(Lexicon.words[text][1]), 300, 400)
    IN /\ Keys(t, l) \subseteq LocationKeys
       /\ IsMap(t, l) /\ "path" \in Keys(t, l)
       /\ Checked(t, l, "noIndex", isBool)
       /\ Checked(t, l, "autoindex", isBool)
       /\ Checked(t, l, "session", isBool)
       /\ Checked(t, l, "return", redirect)
       /\ Checked(t, l, "maxRequestBodySize", LAMBDA text : Bytes(text).ok)
       /\ MethodsOK(t, l)
       /\ InterpretersOK(t, l)
       /\ Checked(t, l, "chunkedTimeoutSec", LAMBDA text : Seconds(text).ok)

Location(t, l) ==
    LET text(key) == Text(t, l, key, "")
    IN [path |-> text("path"), root |-> text("root"), uploadStore |-> text("uploadStore"),
        index |-> text("index"), noIndex |-> text("noIndex") \in Yes,
        directoryError |-> text("directoryError"),
        autoindex |-> text("autoindex") \in Yes, session |-> text("session") \in Yes,
        redirect |-> IF "return" \in Keys(t, l)
                     THEN <<IntOf(Lexicon.words[text("return")][1]).value,
                            Lexicon.words[text("return")][2]>>
                     ELSE <<>>,
        maxBody |-> IF "maxRequestBodySize" \in Keys(t, l)
                    THEN Bytes(text("maxRequestBodySize")) ELSE None,
        methods |-> IF "allowedMethods" \in Keys(t, l) THEN Methods(t, l) ELSE AllMethods,
        cgi |-> Interpreters(t, l),
        chunked |-> IF "chunkedTimeoutSec" \in Keys(t, l)
                    THEN Seconds(text("chunkedTimeoutSec")) ELSE None]

(* setLocation(): a location takes what it does not say from the one that  *)
(* is "/" at that moment, the defaults of the server or a location block   *)
(* that came before.                                                       *)
Or(text, default) == IF text = "" THEN default ELSE text

Inherit(location, default) ==
    [location EXCEPT
        !.root = Or(@, default.root),
        !.index = Or(@, default.index),
        !.methods = IF @ = {} THEN default.methods ELSE @,
        !.cgi = [ext \in DOMAIN @ \cup DOMAIN default.cgi |->
                    Or(Look(location.cgi, ext, ""), Look(default.cgi, ext, ""))],
        !.chunked = IF @.ok THEN @ ELSE Some(default.chunked.value)]

(* Mutant: only the interpreters of the location itself are looked at. *)
IndexForgetsDefault(new, location, default) ==
    \A ext \in DOMAIN location.cgi : ~EndsWith(new.index, ext)

(* Scripts are no index files: neither of the location's own interpreters, *)
(* nor of those it gets from the default.                                  *)
IndexOK(new, location, default) ==
    \A ext \in DOMAIN location.cgi \cup DOMAIN default.cgi : ~EndsWith(new.index, ext)

SetLocation(b, location) ==
    LET default == b.locations["/"]
        new == Inherit(location, default)
    IN [b EXCEPT !.ok = @ /\ IndexOK(new, location, default),
                 !.locations = Put(@, new.path, new)]

(* parseLocations(): items that are not called "location" are skipped, the *)
(* others taken in the order of their lines.                               *)
LocationBlocks(t, n) == {l \in Kids(t, n) : Key(t, l) = "location"}

SetLocations(t, n, b) ==
    MapThenFoldSet(LAMBDA l, c : SetLocation(c, Location(t, l)), b,
                   LAMBDA l : l, LAMBDA s : Max(s), LocationBlocks(t, n))

Biggest(t, n) ==
    LET sizes == {Location(t, l).maxBody : l \in LocationBlocks(t, n)} \ {None}
    IN IF sizes = {} THEN None
       ELSE CHOOSE s \in sizes : \A o \in sizes : o.value <= s.value

-----------------------------------------------------------------------------
(* initDefaults(), and what parseServer() writes over the default location *)
DefaultLocation ==
    [path |-> "/", root |-> "./www", uploadStore |-> "./www/uploads",
     index |-> "index.html", noIndex |-> FALSE, directoryError |-> "",
     autoindex |-> TRUE, session |-> TRUE, redirect |-> <<>>, maxBody |-> None,
     methods |-> {"GET", "HEAD", "POST", "DELETE"}, cgi |-> <<>>, chunked |-> Some(10)]

ServerLocation(t, s) ==
    LET text(key, default) == Text(t, s, key, default)
        flag(key, default) == IF key \in Keys(t, s) THEN text(key, "") = "true" ELSE default
    IN [DefaultLocation EXCEPT
        !.root = text("root", @), !.index = text("index", @),
        !.uploadStore = text("uploadStore", @),
        !.autoindex = flag("autoindex", @), !.session = flag("session", @),
        !.methods = IF "allowedMethods" \in Keys(t, s) THEN Methods(t, s) ELSE @,
        !.cgi = Interpreters(t, s),
        !.chunked = IF "chunkedTimeoutSec" \in Keys(t, s)
                    THEN Seconds(text("chunkedTimeoutSec", "")) ELSE @]

(* parseServer(): the exceptions. *)
Sizes == {"maxRequestBodySize", "maxRequestHeaderSize"}
Timeouts ==
    {"timeoutSec", "requestHeaderTimeoutSec", "requestBodyTimeoutSec",
     "sessionTimeoutSec", "chunkedTimeoutSec"}

ServerOK(t, s) ==
    LET block(key, OK(_)) == key \in Keys(t, s) => OK(Child(t, s, key))
        listens == Child(t, s, "listens")
    IN /\ Key(t, s) = "server"
       /\ Keys(t, s) \subseteq ServerKeys
       /\ IsMap(t, s)
       /\ "listens" \in Keys(t, s) /\ IsSeq(t, listens)
       /\ \A l \in Kids(t, listens) : ListenOK(t, l)
       /\ block("error_pages", LAMBDA n : ErrorPagesOK(t, n))
       /\ block("access_logs", LAMBDA n : LogsOK(t, n, "access_log", AccessLogKeys))
       /\ block("error_logs", LAMBDA n : LogsOK(t, n, "error_log", ErrorLogKeys))
       /\ MethodsOK(t, s)
       /\ InterpretersOK(t, s)
       /\ \A key \in Sizes : Checked(t, s, key, LAMBDA text : Bytes(text).ok)
       /\ \A key \in Timeouts : Checked(t, s, key, LAMBDA text : Seconds(text).ok)
       /\ Checked(t, s, "maxEvents", LAMBDA text : IntOf(text).ok)
       /\ block("locations", LAMBDA n : /\ IsSeq(t, n)
                                        /\ \A l \in LocationBlocks(t, n) : LocationOK(t, l))

(* A negative number of events becomes a very large size_t. *)
Config(t, s) ==
    LET sub(key) == Child(t, s, key)
        has(key) == key \in Keys(t, s)
        number(key, Read(_), default) ==
            IF has(key) THEN Read(Text(t, s, key, "")).value ELSE default
        start == [ok |-> TRUE, locations |-> [path \in {"/"} |-> ServerLocation(t, s)]]
        built == IF has("locations") THEN SetLocations(t, sub("locations"), start) ELSE start
        listens == Items(t, sub("listens"))
    IN [ok |-> built.ok,
        listens |-> [i \in DOMAIN listens |-> Listen(t, listens[i])],
        locations |-> built.locations,
        accessLogs |-> IF has("access_logs") THEN Logs(t, sub("access_logs"), "access.log")
                       ELSE <<DefaultLog("access.log")>>,
        errorLogs |-> IF has("error_logs") THEN Logs(t, sub("error_logs"), "error.log")
                      ELSE <<DefaultLog("error.log")>>,
        errorPages |-> IF has("error_pages") THEN ErrorPages(t, sub("error_pages")) ELSE <<>>,
        maxBody |-> number("maxRequestBodySize", Bytes, Kilo * Kilo),
        biggest |-> IF has("locations") THEN Biggest(t, sub("locations")) ELSE None,
        timeout |-> number("timeoutSec", Seconds, 60),
        headerTimeout |-> number("requestHeaderTimeoutSec", Seconds, 20),
        bodyTimeout |-> number("requestBodyTimeoutSec", Seconds, 30),
        sessionTimeout |-> number("sessionTimeoutSec", Seconds, 1800),
        maxHeader |-> number("maxRequestHeaderSize", Bytes, 8192),
        maxEvents |-> number("maxEvents", IntOf, 1024)]

(* import(): the server blocks of a file, or a refusal. *)
Servers(t) == Items(t, Child(t, t.root, "servers"))
ServersOK(t) ==
    /\ IsMap(t, t.root)
    /\ "servers" \in Keys(t, t.root)
    /\ IsSeq(t, Child(t, t.root, "servers"))
=============================================================================
