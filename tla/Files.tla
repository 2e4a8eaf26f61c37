------------------------------- MODULE Files -------------------------------
(***************************************************************************)
(* What the handlers make of a request and of the files (src/src/Handler,  *)
(* Http/Resolver, the routers of Middleware).  The server answers one      *)
(* request at a time, but the files are not its own: scripts it has        *)
(* started and other programs change them between any two of its calls.    *)
(* So every call of a handler is a step.                                   *)
(*                                                                         *)
(* Paths of requests are sequences of tokens, of which "/" is one, so that *)
(* a location may match in the middle of a name as it does in the code.    *)
(* Files are named by the sequence of the names on the way to them.  There *)
(* are no symbolic links and no "..", so that a path has one name.         *)
(***************************************************************************)
EXTENDS Maps, FiniteSets, SequencesExt, FiniteSetsExt

CONSTANTS
    Locations,    \* path -> Location, see Config.hpp; root and uploadStore
                  \* are names of files
    ErrorPages,   \* status code -> path, <<>> for none
    Paths, Bodies, \* what the requests ask for and send
    Fresh,        \* the names that PostHandler makes up
    Initially,    \* the files there are: name -> node
    Others,       \* what other programs do: pairs of a file and what it becomes
    MaxCount      \* bound on the requests and the changes of others together

VARIABLES
    fs,       \* the files: name -> [kind, body, open]; open: may be read,
              \* written and, a directory, entered
    job,      \* the request in work and its answer
    count,    \* how many requests and changes of others there were
    moments,  \* ghost: the files as they were since the request began
    mine,     \* ghost: the files the request has changed
    stored    \* ghost: path -> the node that a client which put or deleted it
              \* can expect

vars == <<fs, job, count, moments, mine, stored>>

Slash == "/"
File(body) == [kind |-> "file", body |-> body, open |-> TRUE]
Absent == [kind |-> "none", body |-> <<>>, open |-> FALSE]
With(files, f, node) == IF node = Absent THEN Erase(files, {f}) ELSE Put(files, f, node)
Unknown == [Absent EXCEPT !.kind = "unknown"]

-----------------------------------------------------------------------------
(* The kernel's view. *)
Split(s) ==
    LET next(names, c) == IF c = Slash THEN Append(names, <<>>)
                          ELSE [names EXCEPT ![Len(names)] = Append(@, c)]
    IN FoldLeft(next, <<<<>>>>, s)
NonEmpty(names) ==
    LET next(kept, name) == IF name = <<>> THEN kept ELSE Append(kept, name)
    IN FoldLeft(next, <<>>, names)
Names(s) == NonEmpty(Split(s))

Above(f) == {SubSeq(f, 1, n) : n \in 1..(Len(f) - 1)}
Kind(files, f) ==
    IF f \in DOMAIN files /\ \A d \in Above(f) :
          d \in DOMAIN files /\ files[d].kind = "dir" /\ files[d].open
    THEN files[f].kind ELSE "none"
IsOpen(files, f) == Kind(files, f) # "none" /\ files[f].open
IsDenied(files, f) ==
    \E g \in Above(f) \cup {f} : Kind(files, g) # "none" /\ ~files[g].open
In(files, d) == {f \in DOMAIN files : Len(f) = Len(d) + 1 /\ IsPrefix(d, f)}

(* What is in something is in a directory. *)
IsTree(files) ==
    \A f \in DOMAIN files : \A d \in Above(f) :
       d \in DOMAIN files /\ files[d].kind = "dir"

IsSequence(s) == s \in Seq(Range(s))
IsNode(node) ==
    /\ node = [kind |-> node.kind, body |-> node.body, open |-> node.open]
    /\ node.kind \in {"file", "dir"} /\ node.open \in BOOLEAN /\ IsSequence(node.body)

(* ConfigBuilder.cpp:48 makes a location for "/", and an empty path is     *)
(* never the longest.                                                      *)
ASSUME FilesAssumption ==
    /\ <<Slash>> \in DOMAIN Locations /\ <<>> \notin DOMAIN Locations
    /\ \A l \in DOMAIN Locations :
          /\ IsSequence(l) /\ IsSequence(Locations[l].root)
          /\ IsSequence(Locations[l].index) /\ IsSequence(Locations[l].uploadStore)
          /\ Locations[l].redirect \in BOOLEAN
    /\ \A path \in Paths : IsSequence(path)
    /\ \A body \in Bodies : IsSequence(body)
    /\ \A f \in DOMAIN Initially : IsSequence(f) /\ IsNode(Initially[f])
    /\ IsTree(Initially)
    /\ \A change \in Others :
          IsSequence(change.name) /\ (IsNode(change.node) \/ change.node = Absent)

-----------------------------------------------------------------------------
(* PipelineRouterMiddleware, Config::getLocation() and resolvePath() each  *)
(* look for the longest path that the request's begins with. *)
Matches(path) == {l \in DOMAIN Locations : IsPrefix(l, path)}
Longest(paths) == CHOOSE l \in paths : \A m \in paths : Len(m) <= Len(l)
LocationPath(path) == IF Matches(path) = {} THEN <<Slash>> ELSE Longest(Matches(path))
GetLocation(path) == Locations[LocationPath(path)]

(* What follows the location, without the first slash. *)
Remaining(path) ==
    LET rest == SubSeq(path, Len(LocationPath(path)) + 1, Len(path))
    IN IF rest # <<>> /\ Head(rest) = Slash THEN Tail(rest) ELSE rest

(* resolvePath() without a look at the files, for a path some location     *)
(* matches, and whether what it names has to be a directory. *)
Resolved(path) == GetLocation(path).root \o Names(Remaining(path))
NamesDirectory(path) == Remaining(path) = <<>> \/ Last(Remaining(path)) = Slash

(* resolvePath() with a look at them: realpath(). *)
Exists(files, path) ==
    IF NamesDirectory(path) THEN Kind(files, Resolved(path)) = "dir"
    ELSE Kind(files, Resolved(path)) # "none"

(* extractCgiScript(): some name on the way has an extension that the      *)
(* location has an interpreter for. *)
IsCgiRequest(path) ==
    \E i \in DOMAIN Names(Remaining(path)) :
       Last(Names(Remaining(path))[i]) \in GetLocation(path).cgi

-----------------------------------------------------------------------------
Idle == [at |-> "idle", method |-> "GET", path |-> <<>>, type |-> "", body |-> <<>>,
         file |-> <<>>, size |-> 0, dir |-> FALSE, status |-> 200, what |-> "nothing",
         text |-> <<>>]

Init ==
    /\ fs = Initially
    /\ job = Idle
    /\ count = 0
    /\ moments = {}
    /\ mine = {}
    /\ stored = [path \in Paths |-> Unknown]

(* A step that only looks. *)
Look(job2) == job' = job2 /\ UNCHANGED <<fs, count, moments, mine, stored>>

(* A step that changes one file; what was known of it is known no more but *)
(* by the client itself. *)
Change(f, node, job2, told) ==
    /\ fs' = With(fs, f, node)
    /\ moments' = moments \cup {fs'}
    /\ mine' = mine \cup {f}
    /\ stored' = [path \in Paths |-> IF path = job.path THEN told
                                     ELSE IF Resolved(path) = f THEN Unknown
                                     ELSE stored[path]]
    /\ job' = job2
    /\ UNCHANGED count

Fail(code) == [job EXCEPT !.status = code, !.at = "page"]
Answer(code, what) == [job EXCEPT !.status = code, !.what = what, !.at = "done"]
On(step) == [job EXCEPT !.at = step]
At(step, methods) == job.at = step /\ job.method \in methods

(* RedirectMiddleware, PipelineRouterMiddleware, CgiRouterMiddleware and   *)
(* HandlerMiddleware; a script is left to CgiWorkers. *)
Dispatch(r) ==
    LET loc == GetLocation(r.path)
        fail(code) == [r EXCEPT !.status = code, !.at = "page"]
    IN CASE loc.redirect -> [r EXCEPT !.status = 301, !.at = "done"]
         [] ~loc.redirect /\ IsCgiRequest(r.path) ->
               IF r.method \in {"GET", "POST"} \cap loc.methods
               THEN [r EXCEPT !.what = "script", !.at = "done"] ELSE fail(405)
         [] ~loc.redirect /\ ~IsCgiRequest(r.path) ->
               IF r.method \in loc.methods THEN [r EXCEPT !.at = "handle"]
               ELSE fail(IF r.method = "COPY" THEN 501 ELSE 405)

Begin ==
    /\ job.at = "idle" /\ count < MaxCount
    /\ \E method \in {"GET", "HEAD", "POST", "PUT", "DELETE", "COPY"}, path \in Paths,
          body \in Bodies \cup {<<>>}, type \in {"", ".txt"} :
          /\ method \notin {"POST", "PUT"} => body = <<>>
          /\ method # "POST" => type = ""
          /\ job' = Dispatch([Idle EXCEPT !.method = method, !.path = path,
                                          !.body = body, !.type = type])
    /\ count' = count + 1
    /\ moments' = {fs}
    /\ mine' = {}
    /\ UNCHANGED <<fs, stored>>

-----------------------------------------------------------------------------
(* StaticFileHandler and DeleteHandler begin with resolvePath(). *)
Resolve ==
    /\ At("handle", {"GET", "HEAD", "DELETE"})
    /\ Look(IF Exists(fs, job.path)
            THEN [On("stat") EXCEPT !.file = Resolved(job.path)] ELSE Fail(404))

Stat ==
    /\ At("stat", {"GET", "HEAD"})
    /\ Look(CASE Kind(fs, job.file) = "none" -> Fail(404)
              [] Kind(fs, job.file) = "dir" -> [On("index") EXCEPT !.dir = TRUE]
              [] Kind(fs, job.file) = "file" ->
                    [On("read") EXCEPT !.size = Len(fs[job.file].body)])

(* The index is served for a directory that is asked for without a slash   *)
(* at the end, or where directories are not listed. *)
Index ==
    /\ At("index", {"GET", "HEAD"})
    /\ LET loc == GetLocation(job.path)
           index == job.file \o Names(loc.index)
           open == Last(job.path) # Slash
       IN Look(IF /\ ~loc.noIndex
                  /\ Kind(fs, index) = "file" /\ loc.index # <<>>
                  /\ open \/ job.path = <<Slash>> \/ ~loc.autoindex
               THEN [On("read") EXCEPT !.file = index, !.size = Len(fs[index].body)]
               ELSE IF open THEN Answer(301, "nothing")
               ELSE IF loc.autoindex THEN On("list")
               ELSE Fail(403))

(* generateDirectoryListing() *)
List ==
    /\ At("list", {"GET", "HEAD"})
    /\ Look(IF Kind(fs, job.file) = "dir" /\ fs[job.file].open
            THEN [Answer(200, "listing") EXCEPT
                     !.text = IF job.method = "HEAD" THEN <<>>
                              ELSE <<In(fs, job.file)>>]
            ELSE Fail(500))

(* Mutant: a file that has become shorter is filled up. *)
TryReadFilled(body, size) ==
    [ok |-> TRUE, text |-> [i \in 1..size |-> IF i <= Len(body) THEN body[i] ELSE 0]]

(* tryReadFile() reads as many bytes as stat() has found, or fails. *)
TryRead(body, size) ==
    IF Len(body) < size THEN [ok |-> FALSE, text |-> <<>>]
    ELSE [ok |-> TRUE, text |-> SubSeq(body, 1, size)]

Read ==
    /\ At("read", {"GET", "HEAD"})
    /\ Look(IF IsDenied(fs, job.file) THEN Fail(403)
            ELSE IF Kind(fs, job.file) # "file" \/ ~TryRead(fs[job.file].body, job.size).ok
            THEN Fail(500)
            ELSE [Answer(200, "file") EXCEPT
                     !.text = IF job.method = "HEAD" THEN <<>>
                              ELSE TryRead(fs[job.file].body, job.size).text])

-----------------------------------------------------------------------------
(* open() for writing. *)
MayWrite(files, f) ==
    \/ Kind(files, f) = "file" /\ IsOpen(files, f)
    \/ f \notin DOMAIN files /\ Kind(files, Front(f)) = "dir" /\ IsOpen(files, Front(f))

(* Mutant: what was there is not cut off. *)
OverwriteInPlace(old, new) == new \o SubSeq(old, Len(new) + 1, Len(old))

Overwrite(old, new) == new

(* Nobody checks that all of the body is written. *)
Write(f, job2, told) ==
    LET old == IF f \in DOMAIN fs THEN fs[f].body ELSE <<>>
    IN \E body \in Prefixes(job.body) :
          Change(f, File(Overwrite(old, body)), job2,
                 IF body = job.body THEN told ELSE Unknown)

(* PutHandler looks at the directory, then at the file, and opens it; that *)
(* fails where the path ends with a slash or with the location. *)
PutNames == Split(Remaining(job.path))
PutDirectory == GetLocation(job.path).root \o NonEmpty(Front(PutNames))

FindDirectory ==
    /\ At("handle", {"PUT"})
    /\ Look(IF Kind(fs, PutDirectory) # "dir" THEN Fail(500)
            ELSE [On("target") EXCEPT !.file = Append(PutDirectory, Last(PutNames))])

FindTarget ==
    /\ At("target", {"PUT"})
    /\ Look([On("write") EXCEPT !.status = IF Kind(fs, job.file) = "file" THEN 204
                                           ELSE 201])

WriteTarget ==
    /\ At("write", {"PUT"})
    /\ \/ Look(Fail(500))
       \/ /\ Last(job.file) # <<>> /\ MayWrite(fs, job.file)
          /\ Write(job.file, Answer(job.status, "page"), File(job.body))

-----------------------------------------------------------------------------
(* PostHandler: the path is the location's, there is a directory for what  *)
(* is uploaded, and the type is one that is known. *)
FindStore ==
    /\ At("handle", {"POST"})
    /\ LET loc == GetLocation(job.path)
       IN Look(IF job.path # LocationPath(job.path) THEN Fail(404)
               ELSE IF loc.uploadStore = <<>> \/ Kind(fs, loc.uploadStore) # "dir"
               THEN Fail(500)
               ELSE IF job.type = "" THEN Fail(403)
               ELSE [On("write") EXCEPT !.file = loc.uploadStore])

Unused(d) == {name \in Fresh : Append(d, <<name, job.type>>) \notin DOMAIN fs}
CreateFile ==
    /\ At("write", {"POST"})
    /\ \/ Look(Fail(500))
       \/ \E name \in Unused(job.file) :
             LET f == Append(job.file, <<name, job.type>>)
             IN /\ MayWrite(fs, f)
                /\ Write(f, [Answer(201, "page") EXCEPT !.file = f],
                         IF Resolved(job.path) = f THEN Unknown ELSE stored[job.path])

-----------------------------------------------------------------------------
(* tryDeleteFile() looks at the file, then at its directory, and removes   *)
(* it, which removes an empty directory too. *)
StatVictim ==
    /\ At("stat", {"DELETE"})
    /\ Look(CASE Kind(fs, job.file) = "none" -> Fail(404)
              [] Kind(fs, job.file) = "dir" -> Fail(403)
              [] Kind(fs, job.file) = "file" -> On("access"))

CheckAccess ==
    /\ At("access", {"DELETE"})
    /\ Look(IF Kind(fs, Front(job.file)) = "dir" /\ IsOpen(fs, Front(job.file))
            THEN On("remove") ELSE Fail(403))

RemoveFile ==
    /\ At("remove", {"DELETE"})
    /\ IF /\ Kind(fs, job.file) # "none" /\ In(fs, job.file) = {}
          /\ IsOpen(fs, Front(job.file))
       THEN Change(job.file, Absent, Answer(204, "nothing"), Absent)
       ELSE Look(Fail(500))

-----------------------------------------------------------------------------
(* ErrorHandlerMiddleware.  An error of a directory has the page of its    *)
(* location if that can be read; any other, and if it cannot, the page of  *)
(* the code or the default. *)
ReadsPage(files, path) ==
    /\ Matches(path) # {}
    /\ Kind(files, Resolved(path)) = "file" /\ IsOpen(files, Resolved(path))
ErrorPage(code) == IF code \in DOMAIN ErrorPages THEN ErrorPages[code] ELSE <<>>

ChoosePage ==
    /\ job.at = "page"
    /\ LET page == GetLocation(job.path).directoryError
           own == LocationPath(job.path) \o <<Slash>> \o page
       IN Look([On("serve") EXCEPT
                   !.text = IF job.dir /\ page # <<>> /\ ReadsPage(fs, own) THEN own
                            ELSE ErrorPage(job.status)])

ServePage ==
    /\ job.at = "serve"
    /\ Look(IF job.text # <<>> /\ ReadsPage(fs, job.text)
            THEN [Answer(job.status, "custom") EXCEPT !.text = fs[Resolved(job.text)].body]
            ELSE [Answer(job.status, "page") EXCEPT !.text = <<>>])

End == /\ job.at = "done"
       /\ job' = Idle
       /\ moments' = {}
       /\ mine' = {}
       /\ UNCHANGED <<fs, count, stored>>

(* Another program writes, makes, locks or removes something; nothing that *)
(* has something in it is removed or becomes a file. *)
Outside ==
    /\ count < MaxCount
    /\ count' = count + 1
    /\ \E change \in Others :
          LET f == change.name IN
          /\ fs' = With(fs, f, change.node)
          /\ fs' # fs
          /\ IsTree(fs')
          /\ stored' = [path \in Paths |-> IF IsPrefix(f, Resolved(path)) THEN Unknown
                                            ELSE stored[path]]
    /\ moments' = IF job.at = "idle" THEN {} ELSE moments \cup {fs'}
    /\ UNCHANGED <<job, mine>>

Next ==
    \/ Begin
    \/ Resolve \/ Stat \/ Index \/ List \/ Read
    \/ FindDirectory \/ FindTarget \/ WriteTarget
    \/ FindStore \/ CreateFile
    \/ StatVictim \/ CheckAccess \/ RemoveFile
    \/ ChoosePage \/ ServePage
    \/ End
    \/ Outside

Spec == Init /\ [][Next]_vars

-----------------------------------------------------------------------------
(* Whatever other programs do to the files between the calls of a handler, *)
(* what it answers was true at some moment since the request began: a file *)
(* is served with what was in it, or the beginning of that, as long as it  *)
(* was once, a directory as it was, what is not found was not there, what  *)
(* is created was not and what is replaced or deleted was.  A request has  *)
(* changed the file it names, or the new one, if it is answered 201 or     *)
(* 204, and nothing if not; and an error page that was there all the time  *)
(* is served. *)
AnswersTrue ==
    job.at = "done" /\ job.what # "script" /\ ~GetLocation(job.path).redirect =>
       LET f == Resolved(job.path)
           index == f \o Names(GetLocation(job.path).index)
           was(Test(_)) == \E files \in moments : Test(files)
           file(files) == Kind(files, f) = "file"
           dir(files) == Kind(files, f) = "dir"
       IN /\ mine = IF job.status \notin {201, 204} THEN {}
                    ELSE IF job.method = "POST" THEN {job.file} ELSE {f}
          /\ job.what = "file" =>
                /\ job.file = f \/ (job.file = index /\ was(dir))
                /\ job.method = "GET" =>
                      /\ was(LAMBDA files : /\ Kind(files, job.file) = "file"
                                            /\ IsPrefix(job.text, files[job.file].body))
                      /\ was(LAMBDA files : /\ Kind(files, job.file) = "file"
                                            /\ Len(job.text) = Len(files[job.file].body))
          /\ job.what = "listing" /\ job.method = "GET" =>
                was(LAMBDA files : dir(files) /\ job.text = <<In(files, f)>>)
          /\ job.status = 301 => was(dir)
          /\ job.status = 404 /\ job.method # "POST" =>
                was(LAMBDA files : ~Exists(files, job.path))
          /\ job.status = 201 => was(LAMBDA files : Kind(files, job.file) # "file")
          /\ job.status = 204 => was(file)
          /\ job.what = "page" /\ job.status >= 400 /\ ~job.dir =>
                was(LAMBDA files : ~ReadsPage(files, ErrorPage(job.status)))

(* What a client has put is what it is served under the same path, and     *)
(* what it has deleted is not found, until another program, or a request   *)
(* for another path of the same file, touches the file: the locations, the *)
(* directories and the names on the way are read alike by each handler. *)
StoredIsServed ==
    job.at = "done" /\ job.method = "GET" /\ job.status # 405
       /\ stored[job.path] # Unknown =>
       IF stored[job.path] = Absent THEN job.status = 404
       ELSE job.status = 200 /\ job.text = stored[job.path].body
=============================================================================
