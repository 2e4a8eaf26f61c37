# Webserv in TLA+

TLA+ modules, TLC configurations and TLAPS proofs about the event loop, the
connections, the requests, the timers, the CGI workers and the sessions of this
server, and about what comes before and around them: the configuration file, the
start with its listeners, the parsing of a request and the handling of files.
Paths are relative to the root of the repository; the sources are under
`src/src/` when the repository is mounted as `src/`, and are written here from
`src/` of the repository on (`src/Server/Server.cpp`).

## 1. The system

One process, one thread, one loop (`Server::run`). In each turn it computes how
long `epoll_wait` may sleep, sleeps, calls back the connections whose deadline
has come, collects CGI children that have ended, kills CGI workers that were
inactive for too long, handles the events `epoll_wait` returned one by one, and
deletes expired sessions. Nothing runs in parallel inside the process, so every
handler is one step (but for those of files, see `Files`). What is concurrent is everything around it: peers that
connect, send, close and reset at any moment, also between two events of one
batch; CGI children that write, close and exit at any moment; other programs that
change the files the server works on; time.

| Component | State it keeps | Operations | Talks to | What is hard | Correct when |
|---|---|---|---|---|---|
| Timeouts (`src/Lib/Timeout`) | time -> objects, object -> time, a counter | add, remove, check and call back, next interval | called by Client and Server; calls `Client::onTimeout` | callbacks that close connections; raw pointers; sleeping too long or not at all | maps are inverse, one deadline per connection, no deadline slept past, no pointer to a closed connection |
| Server loop and tables (`src/Server`) | `_clients`, `_clientTable`, `_eventsTable`, epoll set | accept, close, dispatch, remove, clear, forget | everything | descriptors reused inside a batch; half-failed accepts; closing from inside a handler or a callback | all tables know the same descriptors and refer to live objects |
| HTTP connection (`HttpConnection`, `Socket`) | receive and send buffers, the context | read, write, answer | middlewares, epoll | resets and half-closes, partial sends, keep-alive | no answer waits unwatched, a gone peer is closed |
| CGI workers (`src/Cgi`, `Cgi*Event`) | list, index by client, index by pid; per worker five socket pairs and a state | create, write input, read output, collect, time out, abort, answer | event tables, Client, children | output, exit and input end in any order; three ways to kill; failures half-way | indexes agree, each request answered once, with what the script deserves |
| Sessions (`src/Session`) | id -> session, time of the next cleanup | create, get, cleanup | SessionMiddleware, access log | one cached time for all expiries; pointers kept in contexts | expired sessions go in time, others stay |
| Middleware chain (`src/Middleware`) | none of its own; the context of the connection | request line, head, virtual host, limits, body, redirect, connection header, session, CGI, handler, error handler | parsers, handlers, CGI, sessions | re-entry with more bytes, errors in the middle, pipelining | exactly one answer per request |
| Request parsers (`src/Http/Parser`) | parser state, remaining length | line, head, body (length or chunked) | context | arbitrary segmentation, number boundaries | result independent of segmentation |
| Listeners, bootstrap (`src/Server/Listen`, `Bootstrap`, `VHost`) | listeners by key and by descriptor | open all, accept, find the virtual host, forget all | event tables, epoll, configuration | a call failing for the n-th listener, which is then in some of the tables | all or nothing, every virtual host reachable |
| Resolvers, URI, paths (`src/Http/Resolver`, `URI`) | none | location of a path, file of a path, script on a path, decoding | handlers, CGI | the longest match, in the middle of a name; encoded and malformed characters | the handlers read a path alike |
| Handlers (`src/Handler`) | the file system | GET, HEAD, POST, PUT, DELETE, redirect, error page | resolvers | files that change between two calls; one call of several failing | an answer was true at some moment of the request; what is stored is served |
| Configuration, YAML (`src/Config`, `src/Lib/MyYAML`) | the tree of the file, the configurations | parse, check, inherit | bootstrap, resolvers | three stacks popped together, blocks that inherit from blocks before them | refused or read as indented; an inherited setting is checked like a written one |
| Logging (`src/Lib/Logger`) | a file and its backups | open, log, rotate | everything | rotation failing half-way | no backup lost |
| HTTP messages, CGI environment, utilities | - | format, convert | - | - | - |

The hazards, each at its line and with the properties that look at it, are the
`hazards` of `PROJECT.json`.

## 2. The modules

| Module | What it is | Code |
|---|---|---|
| `Maps` | `std::map` as a function: erase, insert | - |
| `TimerMaps` | the two maps of the TimeoutManager, a method per operator | `TimeoutManager.cpp` |
| `TimeoutManager` | the timers inside the loop | `Server::run`, `Client::onTimeout`, `updateTimeout`, `closeConnection` |
| `Deadlines` | abstract specification: one deadline per object | the promise of `TimeoutManager.hpp` |
| `TimeoutManager_proofs` | theorems | |
| `ServerTables` | epoll set, event tables, clients, a method or handler per operator | `Server.cpp`, `EventManager.cpp`, `Client.cpp`, `HttpConnection.cpp`, `SocketsManager.cpp`, `CgiEndEvent.cpp` |
| `Connections` | the loop over `ServerTables`, with peers and batches | `Server::run`, epoll |
| `Connections_proofs` | theorems | |
| `WorkerTables` | the worker list, its indexes, the children, a method per operator | `CgiManager.cpp`, `CgiWorker.cpp`, `CgiEndEvent.cpp` |
| `CgiWorkers` | the CGI handlers in any order, with children and clients | the `Cgi*Event` classes, `CgiRouterMiddleware` |
| `CgiWorkers_proofs` | theorems | |
| `SessionManager` | the session store, the cleanup, the pointer in a context | `SessionManager.cpp`, `SessionMiddleware.cpp` |
| `SessionManager_proofs` | theorems | |
| `RequestPipeline` | the middlewares a request goes through, a `handle` or parser method per operator | `src/Middleware`, `src/Http/Parser`, `HttpConnection::handleRequest` |
| `Requests` | one connection: a client, segments, the chain, answers, keep-alive | `HttpConnection.cpp`, `Client::onTimeout`, `CgiEndEvent.cpp` |
| `Exchanges` | abstract specification: what a client that waits for its answers may rely on | the promise of `HttpConnection` |
| `Requests_proofs` | theorems, of the refinement of `Exchanges` too | |
| `Numbers` | numbers, sizes and white space as the code reads them, in their width | `StringOps.cpp`, `src/Utils` |
| `MyYAML` | `parseYaml()` line by line, and the tree a file should give | `src/Lib/MyYAML` |
| `Config` | what the tree means: checks, defaults, inheritance | `ConfigParser.cpp`, `ConfigLocationParser.cpp`, `ConfigBuilder.cpp` |
| `Listening` | the listeners, the event tables, epoll and the kernel, a call per operator | `src/Server/Listen` |
| `Startup` | the start and the end of the program over these four | `main.cpp`, `Server.cpp`, `src/Server/Bootstrap`, `Logging`, `VHost` |
| `Startup_proofs` | theorems | |
| `Messages` | a request character by character, out of any segments | `src/Http/Parser`, `src/Http/URI`, `RequestLimitsMiddleware` |
| `Messages_proofs` | theorems | |
| `Files` | the handlers of a route call by call, with other programs between | `src/Handler`, `src/Http/Resolver`, the routers |
| `Files_proofs` | theorems | |
| `MC*` | constants for TLC | |

`TimerMaps`, `ServerTables`, `WorkerTables`, `RequestPipeline`, `MyYAML`, `Config` and
`Listening` hold the data: a record stands for the tables and a C++ method is an operator from the record to the record,
so that methods that call one another in C++ compose in the same order
(`CloseConnection` calls `AbortClient`, `Unregister`, `ForgetFd`, and so on).
The modules that extend them hold the actors: one action per handler or step of
the loop, with the inputs chosen by `\E`.

How state and actions correspond:

* **TimeoutManager.** `timers` is `_timeoutMap`, `_reverseMap` and
  `_activeConnections`; `open` the Client objects; `pc` the place in
  `Server::run`; `expired` the vector that `checkAndHandleTimeouts` fills before
  it calls anybody back. Accepting, receiving and closing are
  `OpenConnection`, `RenewConnection` and `CloseConnection`. Time may pass
  between any two steps.
* **Connections.** `srv` is all tables (see the head of `ServerTables`), `batch`
  the events returned and not yet handled, with the mask they were returned
  with, so that an event can be out of date when it is handled. `peer` is what
  the kernel holds for a socket: nothing, bytes, end of stream, a reset that is
  still to be reported (with or without bytes before it), or one that has been.
  `EventManager::handle` is `Peek`, `Effective` and `Matching`: only the first
  matching event is handled. A timer is armed or not: when it fires is any
  check, which `Deadlines` allows and `TimeoutManager` refines. A worker is its
  completion pair only.
* **CgiWorkers.** `heap` has the worker objects, `list`, `byClient`, `byPid` the
  manager's containers, `proc` the children: `forked` until exec, then `running`
  or `failed` (it reports an errno), then `zombie` until collected. Headers and a
  `Status` header of the output are `hdr`, chosen when the child starts. The
  completion pair is `bytes` and `done`. `owed` and `last` are ghosts: the
  requests without an answer, and the answer given by the last step.
* **SessionManager.** `sessions` and `nextCleanupTime` as in the code,
  `context[c]` the pointer in the context of connection `c`. `swept` is a ghost:
  the last step was `cleanup()`.
* **Requests.** `conn` is the connection as the middlewares see it (the fields are
  listed at the head of `RequestPipeline`): the receive buffer, the state and error
  of `RequestParser`, the mode of `RequestBodyParser`, status and `Connection`
  header of the response, the active virtual host, the send buffer as a sequence
  of answers. A middleware is an operator that ends in the operator its
  `proc->next()` calls, in the order of `PipelineRouteBuilder.cpp:78`, or in a
  result. `Read` takes any part of what has come and runs the whole chain on it,
  as `handleReadEvent` does; `Write` sends any number of whole answers, and with the
  last one closes or resets; `CgiEnd` and `OnTimeout` are the two answers that do not
  come from the chain. A request is a sequence of units that the parsers take whole
  (line, headers, a piece of a body; of a chunked one the size of a chunk, its data, the
  end); a segment ends between any two. `ReadChunks` takes sizes and data in turn
  (`CHUNKED_SIZE`, `CHUNKED_DATA`) until a size is over the limit: what was read then is in
  the body, and the state has moved, but the buffer keeps it, as `parseBody()` returns before it
  erases anything (`RequestParser.cpp:114`). When more bytes come, the buffer is read again
  from its start in that state. If it starts with a size, that is refused again; if it
  starts with data, what happens depends on what the data says (`Misread`, `Readings`). What a handler comes to is chosen among `Outcomes`. `asked`,
  `toSend` and `got` belong to the client; `conn.runs` is a ghost: what was executed,
  for which virtual host, with how much of its body. `Exchanges` knows neither parsers nor
  buffers, only `asked`, `got`, whether the connection is `open` and which requests are
  `executed`, which `Promise` maps to the numbers in `conn.runs` (`Done`).

* **Startup.** `file` is the lines of the configuration file, `parser` the three
  stacks and the nodes of `parseYaml()` between two lines, `configs` what
  `ConfigBuilder` has made so far, `limits` what the constructor of `Server`
  computes from them, `logs` the log files that are open, `net` the tables of the
  listeners with epoll and the kernel. `phase` is the place in `main()`, and
  `"fault"` is a `pop()` of an empty stack. `Read` is one turn of the loop over the
  lines or its end, `BuildConfig` the parser and builder of one server block,
  `Resolve`, `SetupLoggers` and `Validate` the steps of the constructor and of
  `run()`, `OpenListener` one turn of `openAndRegisterListeners()`, in which nine calls
  follow one another and the exception of each ends in the same handler
  (`Rollback`), `Stop` the destructor.
* **Files.** `fs` is the files by name, `job` the request with the name of the next
  call of its handler in `job.at` and its answer when it is `"done"`. Each call
  (`stat`, `open`, `read`, `remove`, ...) is an action, and `Outside` may change a file
  between any two. `moments`, `mine` and `stored` are ghosts: the files as they were
  since the request began, those it changed itself, what a client that put or
  deleted something can expect.
* **Messages.** `conn` is the buffer, the states of the three parsers and the
  `HttpRequest`. `Receive` is one `recv()` of any length with the whole chain of
  middlewares up to the body. A character is a token and a word no parser looks
  into is one character. `sent` is the request a client is sending; `sent.good`
  says that it is written well, with the body `sent.body`.

## 3. The runs

| Run | Module, configuration | Question |
|---|---|---|
| timeouts | `MCTimeoutManager` | do the maps stay consistent, implement `Deadlines`, wake in time and reach every overdue connection |
| connections | `MCConnections` | do all tables agree whatever is closed, reset, accepted and reused |
| connections_close | `MCConnections`, `MCConnectionsLiveness.cfg` | is a connection whose peer is gone closed in the end |
| cgi_workers | `MCCgiWorkers` | do list, indexes and children agree with bad scripts, kills and closes |
| cgi_answers | `MCCgiWorkers`, `MCCgiAnswers.cfg` | is every request answered once, rightly and in the end |
| sessions | `MCSessionManager` | does the cached cleanup time miss nothing and delete nothing too early |
| requests | `MCRequests` | does the connection stay in step with its client, run each request once and answer it, and does it implement `Exchanges` |
| startup | `MCStartup` | is a file refused or read as it is indented, are listeners opened all or none, is no script an index and every virtual host reachable |
| files | `MCFiles` | are the answers true and is what is stored served, whatever others do to the files meanwhile |
| messages | `MCMessages` | is a request read the same however it is cut, and a well written one received |
| survives_disconnection | `MCSurvivesDisconnection.cfg` | violated, see 5 |
| no_use_after_free | `MCNoUseAfterFree.cfg` | violated, see 5 |

**Bounds.** *timeouts*: three connections, so that two can share a list that a
third is added to or removed from; timeouts 0, 1 and 3, and a longest sleep
shorter than 3 so that the clamp to `INT_MAX` is taken; a clock up to
`MaxTime`. *connections*: two Client addresses and descriptors 3 to 6, the
listener among them; with two clients and a worker each the descriptors run
out, and every number is soon used again by an object of another kind; batches
of up to three events, which is more than an event and two stale ones;
every proper subset of the ready descriptors can be a full batch. The liveness
run and the two violations of *connections* have one descriptor or one client less.
*cgi_workers*: two workers and the limit of two, so that the limit is met and
a killed child can wait for its collection while another runs; *cgi_answers*:
one slot for two clients, so that a request can be refused. *sessions*: three
sessions, timeouts 1 and 3 as in `test/confs/valid/config_vhost_session_timeout.yaml`
and a clock up to 4, so that both the short and the long one expire.
*requests*: three requests, so that one can follow the reset after another and
move to a second virtual host and back; eleven kinds that take every way through the
chain (no body, identity, chunked, an encoding that is refused; too long for one
host or for both, with data that is refused again as a malformed size or as one over the
limit; a malformed line or header; redirection, no route, static, CGI;
`Connection: close`); limits of 2 and 1 units, so that a body may fit one host only.
*startup*: every file of up to four lines at three depths, enough to open two levels
and go back over both, with a key used twice, items, values and comments; files with
one, two and three server blocks of up to two listens, good, equal, overlapping and
unknown; two location blocks in every order; one option at a time; descriptors 5
to 8, more than the three listens of a file need; `SizeMax` and `IntMax` of 16 bits, so
that a port, a size with a unit and a negative number reach them. *files*: two
requests of a client with two changes by others, or any other four of the two
(`MaxCount`), so that a file may disappear between two calls and come back; two
locations of which one begins with the other, and a redirection; eight paths, with and
without a slash at the end, one in the middle of a name. *messages*: bodies of up to
five characters, some of which look like the end of a line or of a chunked body, in
every cut into up to three chunks, with and without a trailer; and every text that
differs from one of four requests in one character, left out, added or replaced by one of
ten that mean something somewhere, which reaches the errors; `SizeMax` of 45, `MaxHeader`
of 24 and `MaxBody` of 4, so that lengths, headers and bodies pass them.

**Deadlock.** `CHECK_DEADLOCK FALSE` stands where the modelled process may end
(SIGPIPE, an exception nobody catches: `pc = "down"`, `~Up`), or where a bounded
clock and the peers may have nothing left to do, or the connection of *requests*
is closed or has made its last request, or, in *startup*, the process has ended, in
*files* the bound on changes is reached and in *messages* the request is complete or
refused; *sessions* has no such state
and checks it.

**Fairness.** `TimeoutManager!FairSpec`: the loop takes its next step and time
passes; nothing of the peers. `Connections!FairSpec`: the loop goes on, and a
connection whose peer is gone is, again and again, found due by a check until it
is handled: nothing such a peer does can renew its timer, so this is what
`OverdueIsHandled` of *timeouts* gives. `CgiWorkers!FairSpec`: epoll is level
triggered, so a handler whose descriptor stays ready is called; `SIGCHLD` is not
used, the loop collects children in every turn; and a script that has read its
input ends. The last is an assumption on scripts, not on the server.
`Requests!FairSpec`: a client goes on sending the request it began, ready handlers
are called, a CGI ends; making requests and the timer are not fair, so
`EachAnswered` says that an answer comes or the connection ends. Weak fairness of `Read`
is written with `CanRead`, which says when a read is possible if `Outcomes` is not empty,
because TLC would evaluate the whole chain for every state to find that out.

**Mutants.** For each property of a passing run `PROJECT.json` names an operator
of the modules, marked *Mutant* where it is defined, which changes a definition
the way a slip in that code would; under it the run finds the property violated.

### What the passing runs leave out

These are restrictions under which the properties hold. Those that name a
constant are constants, and without them TLC finds a violation; the others say what the
code does where a property does not look, or what a model leaves out.

*Connections, workers, sessions, requests*

* `PeersWait` in *connections* and no `"pipelining"` in `Faults`: a client sends
  nothing while its CGI answer is outstanding. If it does, the middlewares run
  again on the same complete request, a second worker replaces the first in
  `_clientFdToWorker`, and the completion of the first sends an empty 200.
* `FreshFds`: a new worker gets no descriptor that the current batch still
  mentions. Without it a stale completion event can meet a new worker.
* no `"spawn"` and no `"register"` in `Faults`: when creating the pairs or the
  child fails, the worker stays in `_workers` and takes a slot for good; when
  registering it throws, pointers to the deleted worker stay behind.
* no `"unreadBody"`: a script that ends before it has read its body makes the
  next write raise SIGPIPE.
* no `"oversize"` in *cgi_answers*: an output that passes its limit after the child
  was collected notifies nobody, since a worker is told complete only once
  (`CgiManager.hpp:61`; `EndedIsNotified`).
* no `"outputFirst"` in *cgi_answers*: when a script closes its output before it has
  read its input, the last write of the body overwrites `CGI_COMPLETE`
  (`CgiWorker.cpp:288`), and a good answer becomes 500 (`AnswerDependsOnScript`).
* no run of *sessions* checks `NoDanglingSession`: `PipelineContext::reset`
  (`PipelineContext.cpp:33`) keeps the session pointer between the requests of a
  connection, and the session may be deleted before the next.
* no `"timeout"` in the runs about answers: a worker that is timed out is killed
  and marked, and nobody tells its client, whose own timer sends a 408.
* no 0 among the timeouts of *sessions*: `_nextCleanupTime = 0` means both "now"
  and "unset". A session with timeout 0 asks for a sweep at the end of the turn;
  another one created in the same turn on a virtual host with a longer timeout
  overwrites the 0 by its own expiry.
* `Ahead = 1` in *requests*: a client makes the next request when it has the whole
  answer to the last. With `Ahead = 2`, a client that pipelines, `reset()` throws away
  bytes of the next request, a complete parser answers the same request again for
  every segment, and `InSync` and `ExecutedOnce` are violated.
* no kind with `line = "version"`: an unsupported version is answered with a 505,
  which does not close; the answer may be sent and the context reset while the
  headers of that request are still on their way, and they are then read as the
  next request (`InSync`).
* no chunked body over the limit whose data reads as its end, in *requests*. After the 413
  the data is in the buffer, and more bytes that come before the answer is written make the
  parser read it as the size of a chunk. What it says is a choice of the kind of request
  (`Readings`): no size, so that a 400 follows, each time; a size over the limit, so that a 413
  follows, each time; or a 0 and the empty line after it, so that the body is complete, a
  400 follows, and the next bytes take the request to its handler. The last violates
  `ExecutedOnce`, `ClosedAsAsked` and `ImplementsExchanges` (`Kinds <- MCMisread` in
  `MCRequests.cfg`; one request is enough, `MaxRequests = 1`), see 5. The connection closes even then, since the `Connection: close` of the 413 stays
  in the response, and `InSync` and `EachAnswered` are not touched. Data that reads as a chunk that fits, or
  begins trailers that end later, is not among the readings: it may come to any of the three in
  more steps. The properties and theorems of *requests* are not about such bodies.
* a redirected request in `ClosedAsAsked`: `RedirectMiddleware` ends the chain before
  `ConnectionHeaderMiddleware`, so its `Connection: close` is not honoured, other than
  `test_keepalive.py:40` expects of requests in general.
* the 408 of the chunked parser (`RequestBodyParser.cpp:117`): the time of the last
  byte is set at the start of the same call, so it never fires.
* `RenewConnection` and the answers know no bytes, so that a partial send that
  is replaced by a 408 is not visible.

*Startup*
* no comment (unless indented like the block) and no empty line between a line and a line
  further in, of its block or not. `parseYaml()` looks at the indentation of the next line,
  whatever it is: after a comment that is not indented the lines of the block are read as
  those of another, or a stack that is empty is popped (`NeverMisread`; `CommentsInLine` in
  `Startup_proofs` says it exactly). Comments anywhere else are in the model.
* hosts are written without a port: `validateListenCompatibility()` compares the host
  with its port, the resolver without it, so that two virtual hosts that differ in the
  port only are both accepted and one of them is never found (`VhostsReachable`).
* a virtual host or a location that is not in the file takes nothing from one that
  is: `uploadStore`, `session` and `autoindex` are not inherited from "/", other than
  `root`, `index`, interpreters and the timeout of chunks. `NoScriptAsIndex` is about the locations
  of the file: the index of the server block is not checked against its
  interpreters when there is no block for "/".
* the file does not change while it is read again for each server block; words whose
  case the code ignores are written in lower case; `std::map`'s order of the listeners
  is any order.
* `maxEvents` may be 0, and `epoll_wait` then fails (`Stop`); a negative one becomes a
  large `size_t`. The check in `validateConvertTimeout` is vacuous and left out.

*Files*
* no symbolic links and no ".."; every root is non-empty, and every location allows
  some method; the names `PostHandler` makes up are fresh; one bit for all permissions.
* nobody checks that all of a body was written: a full disk gives a partial file with
  a 201 or 204, and `StoredIsServed` then says nothing of it. A file that has grown
  between `stat()` and `read()` is served with its beginning, which `AnswersTrue` allows.
* `std::remove` also deletes an empty directory that replaced the file after it was
  looked at; `AnswersTrue` asks only that the path was a file before.
* PUT on a path that ends with "/" or is a location is a 500 (`WriteTarget`); the 400
  of `PutHandler` is never reached. The error page of a HEAD request has a body, as has
  the 204 of PUT: the model has no bytes on the wire.

*Messages*
* one request at a time, and a client that waits for its answer, as in *requests*;
  one of a space and a tab, one case of header names and hexadecimal digits.
* a request without a header line never becomes complete: the parser looks for an
  empty line after a line end that the request line has taken.
* the limit of headers counts what has come of the body along with the line, so that
  a 431 depends on the cuts (`MayBeTooLong`).
* a malformed `%` in a query throws `std::invalid_argument`, which nobody catches before
  `main()`: `Thrown`, an outcome like a status, and it does not depend on the cuts.

## 4. What is proved

`tlapm` checks these for every value of the constants, under the assumptions
`TimeoutAssumption`, `SessionAssumption`, `StartupAssumption`, `CgiAssumption`,
`ConnectionsAssumption`, `PipelineAssumption`, `RequestsAssumption`, `FilesAssumption`,
`NumbersAssumption` and `MessagesAssumption` of
the modules (finite sets of connections, workers or sessions, timeouts and limits that are
natural numbers, a longest sleep of at least one second, descriptors that are natural numbers,
a location for "/", files that are in directories; a configuration file is a finite sequence of
lines whose hosts the lexicon knows, a request a finite sequence of characters, not longer than
a `size_t` can say). Some theorems
assume more, named below: nearly all of these hypotheses are restrictions of section 3, under
which the run that checks the same property runs, and without which TLC finds properties of
that component violated.

* **`TimeoutManager_proofs`**: `TypeCorrect`, `MapsConsistent`,
  `ConnectionsTimed`, `NoOversleep` and `Refinement` (the maps and the loop
  implement `Deadlines`). The inductive invariant joins the type invariant,
  `TimersConsistent` and `EveryConnectionTimed`, and says in addition what
  `pc` implies: outside of the callbacks nothing is expired, and while the loop
  waits `wakeAt` is what the maps gave, since only the clock moves between
  computing the interval and waking. The consistency of the maps cannot be proved
  alone: `RemoveTimer` restores it because the list under a key and the reverse
  map agree before. Lemmas about `RemoveTimer`, `AddTimer`, `DropDueTimers` and
  `NextTimeoutInterval` carry the data, so that each action is a few steps.
* **`SessionManager_proofs`**: `TypeCorrect`, `CleanupInTime`, `CleanupComplete`
  and `NoEarlyLogout`. That the cleanup is in time is not inductive: a sweep that
  leaves `_nextCleanupTime` at 0 would be followed by a session whose creation
  sees 0. The missing fact is that 0 means an empty store (`OnTime`), which holds
  if every timeout is positive, and makes the early return of `cleanup()` safe; the two theorems that need it assume
  `0 \notin Timeouts`, the other two do not. `FirstExpiry` shows that the minimum
  over the remaining expiries is one of them and no later than any.

* **`Startup_proofs`**: `ListenersAllOrNothing`, for any files, whatever they are
  read as, and any descriptors. It follows from `StartupInvariant`, which ties `phase` to
  the tables: nothing is in them before the listeners are opened, they agree on the
  opened ones while it goes on, and nothing is left after a failure or the end. The
  agreement alone is not inductive across a failing call, where the tables do not
  agree: the lemmas say that after any of the nine calls each table has at most the
  descriptor at hand beyond the opened ones (`AfterFields`), so that what `Rollback`
  erases is all there is (`RollbackCloses`), and that after the last call they agree
  again (`OpenedAgrees`).

  `ConfigsInvariant` follows the file: the nodes of the parser have the numbers of its
  lines, so they are finitely many, and every host in them is one the lexicon knows;
  each configuration that is built is what the blocks in the file say. `ScriptsAreNoIndex` follows:
  the locations of a server are what a fold over its blocks makes of them, and a set of
  numbers is a value, so "after the blocks up to the n-th no location is harmful" can be
  proved for all n (`SetExists`). `VhostsAreReachable` needs that what `validateListenCompatibility()`
  has found stays true while the listeners open; then a name selects one virtual host and
  no other, and a nameless one is the only one on its key. It assumes that hosts are
  written without a port (`PlainHosts`) and that a client can send each name (`AnyHeader`).

  `FilesAreReadAsIndented` is about the three stacks of `parseYaml()`. The invariant
  (`Aligned`) says of the moment before a line what they have to do with the lines above: the
  levels grow, level *j* is that of the children of the *j*-th node on the chain, no
  line since that node was further out (`Stacked`), and the chain is as long as the levels
  if the last line opened a block and one shorter if not. The last is why one number may be
  popped from all three, and it is the only place where comments matter: whether the last line
  has opened a block is decided by the line after it, whatever it is, and the next line that
  is read is another one if that is a comment. `CommentsInLine` says that the two agree; without
  it the property is violated. From `Stacked` the top of the chain is the nearest line above that
  is less indented (`OwnerIs`), so each node gets the parent the reference gives it, and
  at the end every node is reached from the root, by the least line that would not
  be (`AllReached`).

* **`CgiWorkers_proofs`**: `TypeCorrect`, `IndexesStayInStep`, `RequestsKeepTheirWorker`,
  `NoAnswerIsEmpty`, `NothingFaults`, `EndIsTold`, `AnswerIsDeserved` and
  `NoOrphanEver`, for any set of workers and clients. `IndexesAgree` and
  `RequestHasWorker` need each other: that a worker without an entry in the index is
  being aborted depends on who is still owed an answer. `NoEmptyAnswer` looks at one event
  only, but depends on everything that happens between the byte in the completion pair
  and its reading. The invariant says that a byte is there only if the worker *will* be
  found finished (`Sane`), and this is stable because no handler takes back an end. For the
  answer it says what state, output and exit have to do with the script at each moment
  (`Right`), that a child that is gone has closed its output among others. The theorems assume
  of `Faults` what they need and no more: creating a worker does not fail half-way
  (`Ordinary`), and scripts read their input (`NothingFaults`), are not cut or
  timed out (`EndIsTold`, `AnswerIsDeserved`), and close their output after they have read
  (`AnswerIsDeserved`). `NoOrphanEver` holds with all faults and is proved from a weaker
  invariant of its own.
* **`Connections_proofs`**: `TypeCorrect`, `TablesStayInAgreement`, `AnswersAreWatched`,
  `NoExceptionEscapes`, `CompletionFindsItsWorker` and `StaleEventsCloseNothing`, for any
  number of descriptors, clients and events, under `Orderly`: peers wait for the answer of a
  CGI, and a worker's descriptors are not those just closed. The agreement of the tables is
  not inductive for three reasons, each a conjunct of `IInv`. A handler finds its Client
  through an event of the table, so every link of the five tables is in it (`Good`). The
  callbacks run one by one over a vector of pointers, each of which may close a connection, so
  it says what holds of those not yet called. And the events of a batch outlive what they were
  returned for (`BatchOK`): a completion event finds its byte and its worker, and an event
  that lost its owner meets, if the number has a new one, a connection on which nothing has
  come yet. The operators of `ServerTables` call one another up to four deep; the lemmas
  describe each by what it leaves alone (`Touched`, `Closed`, `Without`), so
  that the proof of an action speaks about the outermost only.
* **`Requests_proofs`**: `StaysInSync`, `EachIsExecutedOnce`, `TooLongIsNotExecuted`,
  `AnswersComeInOrder` and `ClosesAsItIsAsked`, for any kinds of requests, limits, virtual hosts and segments, from
  `ConnectionInvariant`. This ties the parsers to the bytes: the buffer, the wire and what the
  client has still to send are the units of one request from a position on (`Carries`), and the
  position is the one the states of the parsers imply (`Taken`). Each moment between two
  steps is one of five (`Phase`): nothing asked, receiving, waiting for a script, answering, and
  refused with the rest of the request still arriving. The last is the hard one: more bytes
  of a refused request run through the whole chain again, and the proof shows that an
  error comes out again, nothing is executed, and only refusals are repeated. For a chunked body
  that takes the state the refusal left behind (`Refused`): the parser is at a size, the body
  is as long as the limit, and the buffer begins with a size, which is too much, or with
  data, which is read as one; it is 413 or 400, and the state is the same (`ChunksRefused`). The lemmas go
  through the chain from its end to its start, as its operators do. They assume `Plain`: the
  client waits for the answers (`Ahead = 1`), asks for no unsupported version,
  announces the bodies it sends (a body without `Content-Length` or `Transfer-Encoding` is
  none for the server), and sends no chunked body over the limit with data that
  reads as its end (`NoFalseEnd`; without it the request may be executed, see 5). All these
  theorems and the next have this hypothesis. `AnswersComeInOrder` is also about the answers that are still to be
  sent; *requests* checks of it what `ImplementsExchanges` says of the received ones.
  `RequestsImplementExchanges`, under `Plain` again, is in the same module. Making a request is
  `Ask`; a segment that comes is `Execute` of the last request or shows nothing; the end of a
  script and what the handlers put into the send buffer show nothing; sending is `Answer`,
  or `Refuse` of a request none of whose effects took place; the timer is `GiveUp`. The
  invariant had to say more for it: that an answer promises what it has
  the right to (`Paid`, `Earned`: a 200 is of something that was executed), that nothing is
  executed after a refusal (`Calm`), and what has to close does. The order of
  the answers, that there is one of each request, that none comes after one that closes
  and that what is refused is never executed afterwards are then one statement, which does not
  mention how the connection works. It is about safety: that an answer comes is `EachAnswered`.
* **`Files_proofs`**: `AnswersAreTrue` and `ServedAsStored`, for any locations, paths, files and
  changes by other programs, from `FilesInvariant` and without a further hypothesis. Between
  two calls of a handler the files may become anything, so the invariant says nothing of
  the files now. It says what the handler has learned (`Knows`): each test it has made was true of
  the files at one of `moments`, and a moment stays one (`Grows`). An answer is then true
  because the last test before it was. That what is stored is served
  needs the files themselves: `There` says that the file is as it was put, with open
  directories on the way, and `Foreseen` what a GET of it has come to at each of its calls.
  They hold until somebody changes one of these names (`ThereKeeps`). The other half is that
  PutHandler, which splits a path at the last slash, and `resolvePath()`, which drops empty
  names, make the same name of a path (`PutIsResolved`). That is about what two folds
  compute for a sequence of any length. The induction theorems of the library take an operator,
  but a set of numbers is a value: `AllNumbers` says that a set with 0 and the successors of its members is
  `Nat`, and follows from the well-foundedness of `<`. What a fold has computed after `n`
  elements (`SplitParts`, `KeptParts`) is proved with it.
* **`Messages_proofs`**: `ReadAsIfWhole`, for any requests, limits and segments.
  The invariant compares the connection with a parser that is handed all that has come at once
  and has no limit (`MessagesInvariant`): they are the same but for the limit, or the
  connection has refused the request with a 431 and more characters than `MaxHeader` have
  come. It is inductive by one lemma per stage of the chain, from the last to the first
  (`ParseBody` to `RequestLine`): a stage that waits with some characters goes on
  with more as if they had been there from the start, and another limit changes nothing but
  the limit, unless the 431. That takes what the stages are made of: the first place of a word in a text is
  the same in a longer text; a number is read the same; the fold that reads chunks
  takes as many steps as there are characters in the buffer, so that two runs over buffers of
  different lengths have to be shown to reach the same state, in which a step changes
  nothing (`ChunkStep` takes a character or is done). What the folds over pieces and
  headers compute is never unfolded: that they are functions of the text is enough.

  `WellWrittenIsReceived` is about the requests that are read right when they come in one
  piece (`WrittenWell`, its hypothesis, which `MCMessages` assumes of its well written requests,
  so that TLC evaluates it): they are read right however they are cut. It
  takes the other half of the chain, stage by stage: what a stage has completed or refused stays as it is
  whatever follows, except that characters after a complete body make a 400 (`Final`). So a first
  part that were complete or refused too early would spoil the whole. And a 431 comes from a
  first line and headers longer than allowed and from nothing else (`TooLong`), for which
  the invariant has to add that what is refused for its length was not complete.

The inductive invariants of the last six and those of the parser of files were checked by TLC on
the instances of section 3, or smaller ones, before they were proved.

Only model-checked: that the requests of *messages* are read right in one piece
(`SentWrittenWell` of `MCMessages`: what the parsers make of a text that is written in a certain way takes
computing nested folds, an induction over data); and the liveness properties (temporal
reasoning under fairness and `ENABLED` are beyond the prover).

## 5. What the code does otherwise than its documents say

1. `SurvivesDisconnection`. `EventManager::handle` peeks at a hung-up socket,
   which takes the pending error; the write event that follows sends to a socket
   whose peer is gone and the process gets SIGPIPE, which nothing ignores.
   `test/README.md:80` says the server does not crash on a disconnection.
2. `NoUseAfterFree`. `Client::onTimeout` sends through `handleWriteEvent`, which
   deletes the Client when the connection closes after the answer, and then uses
   it. Same sentence of `test/README.md`.
3. `TooLongIsRefused`, which no run checks; TLC violates it with `Kinds <- MCMisread` and
   `MaxRequests = 1` and `INVARIANT TooLongIsRefused` in `MCRequests.cfg`. A chunked request
   whose second chunk passes the limit is sent as headers and the first size; the first data
   (`0`, an empty line) with its line end and the second size; and the rest in two segments that come before the answer is written. The second
   segment is answered 413, with the data in the body and, since `RequestParser.cpp:114` returns
   before it erases, in the buffer too. With the third the data is read as the size of
   the last chunk: the body is complete, something follows it, 400. With the
   fourth the body parser is passed (`RequestBodyParserMiddleware.cpp:11`) and the handler executes
   the request with the part of the body that was read. `test_post.py:40` and `:47` say of a
   body over the limit that it is answered 413 and that no file is made.

Section 3 names, among its restrictions, other states in which the code does not do what
one would expect of it.

## 6. What is not modelled, and the plan

Not modelled: the contents and formatting of answers, pages and logs, and the
environment of a CGI script (conversions without a state); what the CGI response
parser finds in an output, which is the field `hdr` of a child; the rotation of log
files; `Base64`, tokens and times; destructors that run only when the process ends;
allocation failures other than in accepting a connection, creating a worker and
starting the server.

In this order:

1. *(done)* timers, tables and loop, CGI workers, sessions, with the proofs above.
2. *(done)* `RequestPipeline` and `Requests`, and `Exchanges`, what a client may rely on,
   with its refinement.
3. *(done)* `Messages`: the parsers character by character.
4. *(done)* `Startup` with its four parts and its proof: the configuration file, the
   listeners, the virtual host of a request.
5. *(done)* `Files`: the handlers, the longest prefix of a location, paths.
6. `Server`: `Connections` and `CgiWorkers` composed, with all five descriptors of
   a worker, whose numbers are reused; `Workers` as what `Connections` assumes.
7. Rotation of the log file; the CGI response parser.
8. Proofs: *(done)* timers, sessions, listeners, CGI workers, server loop, requests
   with the refinement of 2, files, parsers of requests and of the configuration file, virtual
   hosts. Every invariant the runs check is stated by a theorem.
