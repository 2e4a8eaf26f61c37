------------------------------ MODULE Startup ------------------------------
(***************************************************************************)
(* The start of the program and its end: the configuration file is read    *)
(* line by line (MyYAML), its server blocks become virtual hosts (Config), *)
(* the logs and then the listeners are opened (Listening), and the server  *)
(* runs (src/src/main.cpp, Server/Server.cpp, Server/Bootstrap,            *)
(* Server/Logging, Server/VHost).  Every call that can fail may.           *)
(***************************************************************************)
EXTENDS Config

CONSTANTS
    Files,        \* the files the program may be started with, sequences of lines
    Fds,          \* the descriptors left for listeners
    Headers,      \* the Host headers a client may send
    CgiMinWorkers, CgiMaxWorkers,
    EventsMax     \* the longest array of events that can be allocated

Lines == [indent : Nat, mark : {"map", "seq", "comment"}, key : STRING, value : STRING]

ASSUME StartupAssumption ==
    /\ Fds \subseteq Nat
    /\ \A lines \in Files : lines \in Seq(Lines)
    /\ "" \in DOMAIN Lexicon.host
    /\ \A lines \in Files : \A i \in DOMAIN lines :
          lines[i].key = "host" => lines[i].value \in DOMAIN Lexicon.host

INSTANCE Listening WITH Address <- Lexicon.address

VARIABLES
    file,     \* the lines of the file
    parser,   \* see MyYAML
    phase,    \* how far main() is
    configs,  \* the configurations built so far
    limits,   \* the limits the constructor computes
    logs,     \* the log files that are open
    net       \* see Listening

vars == <<file, parser, phase, configs, limits, logs, net>>

Init ==
    /\ file \in Files
    /\ parser = Start
    /\ phase = "reading"
    /\ configs = <<>>
    /\ limits = <<>>
    /\ logs = <<>>
    /\ net = Nothing

-----------------------------------------------------------------------------
(* ConfigBuilder::import() *)
Read ==
    /\ phase = "reading"
    /\ Reading(parser)
    /\ parser' = IF parser.at <= Len(file) THEN ReadLine(parser, file)
                 ELSE EndOfFile(parser)
    /\ phase' = CASE parser'.outcome = "reading" -> "reading"
                  [] parser'.outcome = "accepted" -> "building"
                  [] parser'.outcome = "refused" -> "failed"
                  [] OTHER -> "fault"
    /\ UNCHANGED <<file, configs, limits, logs, net>>

(* The file is read again for each server block; it is taken not to change.*)
BuildConfig ==
    /\ phase = "building"
    /\ IF ServersOK(parser) /\ ServerOK(parser, Servers(parser)[Len(configs) + 1])
       THEN LET config == Config(parser, Servers(parser)[Len(configs) + 1])
            IN IF config.ok
               THEN /\ configs' = Append(configs, config)
                    /\ phase' = IF Len(configs') = Len(Servers(parser))
                                THEN "constructing" ELSE "building"
               ELSE phase' = "failed" /\ UNCHANGED configs
       ELSE phase' = "failed" /\ UNCHANGED configs
    /\ UNCHANGED <<file, parser, limits, logs, net>>

-----------------------------------------------------------------------------
(* The constructor of the server. *)
Greatest(f) == CHOOSE n \in {f[i] : i \in DOMAIN f} : \A i \in DOMAIN f : f[i] <= n
AtLeast(n, m) == IF n < m THEN m ELSE n
AtMost(n, m) == IF m < n THEN m ELSE n

AllListens == UNION {{KeyOf(l) : l \in ToSet(configs[i].listens)} : i \in DOMAIN configs}
On(key) == {i \in DOMAIN configs : ListensOn(configs[i], key) # {}}

(* A negative number has become a size_t that is greater than any other.   *)
Unsigned(n) == IF n < 0 THEN SizeMax + 1 + n ELSE n
MaxEvents == [i \in DOMAIN configs |-> Unsigned(configs[i].maxEvents)]

(* resolveCgiMaxWorkers(), resolveMaxEvents(), resolveListenHeaderMax(),   *)
(* and the array of events that is allocated first.                        *)
Resolve ==
    /\ phase = "constructing"
    /\ limits' = [workers |-> Greatest([i \in DOMAIN configs |->
                      AtLeast(CgiMinWorkers, AtMost(MaxEvents[i], CgiMaxWorkers))]),
                  events |-> Greatest(MaxEvents),
                  header |-> [key \in AllListens |->
                      Greatest([i \in On(key) |->
                                   configs[i].maxHeader])]]
    /\ phase' \in {"failed"} \cup (IF limits'.events <= EventsMax THEN {"logging"} ELSE {})
    /\ UNCHANGED <<file, parser, configs, logs, net>>

(* setupLoggers(configs[0]): the access logs, then the error logs, unless  *)
(* they are disabled; a file that cannot be opened ends the start, and the *)
(* loggers keep the sinks they have.                                       *)
Sinks ==
    LET enabled(list) == IF \E i \in DOMAIN list : list[i].disabled THEN <<>> ELSE list
    IN enabled(configs[1].accessLogs) \o enabled(configs[1].errorLogs)
LogFiles == SelectSeq(Sinks, LAMBDA log : log.sink = "file")

SetupLoggers ==
    /\ phase = "logging"
    /\ \E n \in 0..Len(LogFiles) :
          /\ logs' = SubSeq(LogFiles, 1, n)
          /\ phase' = IF n = Len(LogFiles) THEN "validating" ELSE "failed"
    /\ UNCHANGED <<file, parser, configs, limits, net>>

(* normalizeListenHost() *)
SameHost(host, other) == Lexicon.host[host] = Lexicon.host[other]

(* validateListenCompatibility(): no host twice on one key, and no port    *)
(* both on all interfaces, written as such, and on one of them.            *)
Places == UNION {{i} \X DOMAIN configs[i].listens : i \in DOMAIN configs}

Compatible ==
    \A p, q \in Places :
       LET l == configs[p[1]].listens[p[2]]
           m == configs[q[1]].listens[q[2]]
       IN p # q /\ l.port = m.port =>
             /\ (l.interface = "0.0.0.0") <=> (m.interface = "0.0.0.0")
             /\ l.interface = m.interface => ~SameHost(l.host, m.host)

Validate ==
    /\ phase = "validating"
    /\ IF Compatible
       THEN phase' = "opening" /\ net' = Build(configs)
       ELSE phase' = "failed" /\ UNCHANGED net
    /\ UNCHANGED <<file, parser, configs, limits, logs>>

(* The map is walked in the order of its keys, any order here; the kernel  *)
(* gives the lowest descriptor that is free.                               *)
Unopened == {key \in DOMAIN net.listeners : net.listeners[key].fd = -1}
FreeFds == Fds \ DOMAIN net.sockets

OpenListener ==
    /\ phase = "opening"
    /\ \E key \in Unopened :
          \/ /\ net' = Rollback(net, {})
             /\ phase' = "failed"
          \/ \E fd \in FreeFds :
                /\ \A other \in FreeFds : fd <= other
                /\ \/ /\ ~InUse(net, key)
                      /\ net' = After(net, AllCalls, key, fd)
                      /\ phase' = IF Unopened = {key} THEN "running" ELSE "opening"
                   \/ /\ \E n \in 1..(IF InUse(net, key) THEN 1 ELSE AllCalls - 1) :
                            net' = Rollback(After(net, n, key, fd), {fd})
                      /\ phase' = "failed"
    /\ UNCHANGED <<file, parser, configs, limits, logs>>

(* An exception leaves run(): of a handler, or of epoll_wait(), which      *)
(* refuses an array of no events, and the destructor closes the listeners. *)
Stop ==
    /\ phase = "running"
    /\ phase' = "stopped"
    /\ net' = ForgetAll(net)
    /\ UNCHANGED <<file, parser, configs, limits, logs>>

Next ==
    \/ Read
    \/ BuildConfig
    \/ Resolve
    \/ SetupLoggers
    \/ Validate
    \/ OpenListener
    \/ Stop

Spec == Init /\ [][Next]_vars

-----------------------------------------------------------------------------
(* Mutant: a virtual host without a name is the default only as the first. *)
FindsFirst(key, header) ==
    LET name == Lexicon.host[header][1]
        on == On(key)
        names(i) == {Lexicon.host[l.host][1] : l \in ListensOn(configs[i], key)}
        named == {i \in on : name # "" /\ name \in names(i)}
        least(set) == CHOOSE i \in set : \A j \in set : i <= j
    IN IF named # {} THEN least(named) ELSE least(on)

(* VHostResolver::find(): the first virtual host of the listener with that *)
(* name, or the last without a name, or the first of all.                  *)
Find(key, header) ==
    LET name == Lexicon.host[header][1]
        on == On(key)
        names(i) == {Lexicon.host[l.host][1] : l \in ListensOn(configs[i], key)}
        named == {i \in on : name # "" /\ name \in names(i)}
        nameless == {i \in on : "" \in names(i)}
        least(set) == CHOOSE i \in set : \A j \in set : i <= j
        greatest(set) == CHOOSE i \in set : \A j \in set : j <= i
    IN IF named # {} THEN least(named)
       ELSE IF nameless # {} THEN greatest(nameless)
       ELSE least(on)

(* A file that is accepted has been read as its indentation says, and no   *)
(* stack is popped that is empty; for files in which the line right after  *)
(* one that says something is further in only if the next that says        *)
(* something is, and the other way round.                                  *)
NeverMisread ==
    /\ phase # "fault"
    /\ parser.outcome = "accepted" => IsTreeOf(parser, file)

(* No location block serves as its index a file that one of its            *)
(* interpreters, its own or an inherited one, would run, whichever order   *)
(* the blocks come in.                                                     *)
NoScriptAsIndex ==
    \A i \in DOMAIN configs :
       LET t == parser
           s == Servers(t)[i]
           blocks == IF "locations" \in Keys(t, s)
                     THEN LocationBlocks(t, Child(t, s, "locations")) ELSE {}
       IN \A l \in blocks :
             LET location == configs[i].locations[Text(t, l, "path", "")]
             IN \A ext \in DOMAIN location.cgi : ~EndsWith(location.index, ext)

(* The listeners are opened all or not at all, whichever call fails at     *)
(* which of them: nothing is left in a table or in the kernel after a      *)
(* failed start or the end of the server, while they are opened the tables *)
(* agree on those that are, and a server that runs listens once on every   *)
(* address of its configuration.                                           *)
AllOrNothing ==
    /\ phase \in {"failed", "stopped"} => Closed(net)
    /\ Agree(net) \/ phase \in {"failed", "stopped"}
    /\ phase = "running" =>
          /\ {net.byFd[fd] : fd \in DOMAIN net.byFd} = AllListens
          /\ \A key \in AllListens : net.listeners[key].vhosts = On(key)

(* Every virtual host can be reached on each of its listens: there is a    *)
(* Host header that selects it and no other.                               *)
VhostsReachable ==
    phase = "running" =>
       \A i \in DOMAIN configs : \A l \in ToSet(configs[i].listens) :
          \E header \in Headers : Find(KeyOf(l), header) = i
=============================================================================
