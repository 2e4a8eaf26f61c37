------------------------------ MODULE MCFiles ------------------------------
(* Files with a location for all paths and one, on a directory of the      *)
(* first, that also matches names which only begin as it does.             *)
EXTENDS Files, TLC

Location ==
    [root |-> <<<<"w">>>>, methods |-> {"GET", "HEAD", "PUT", "DELETE"}, redirect |-> FALSE,
     index |-> <<"i">>, noIndex |-> FALSE, autoindex |-> FALSE, cgi |-> {},
     uploadStore |-> <<>>, directoryError |-> <<"e">>]
MCLocations ==
    (<<"/">> :> Location)
    @@ (<<"/", "a">> :>
          [Location EXCEPT !.root = <<<<"w">>, <<"d">>>>, !.autoindex = TRUE,
                           !.methods = {"GET", "HEAD", "POST", "PUT", "DELETE"},
                           !.cgi = {".py"}, !.uploadStore = <<<<"u">>>>,
                           !.directoryError = <<>>])
    @@ (<<"/", "o">> :> [Location EXCEPT !.redirect = TRUE])
MCErrorPages == 404 :> <<"/", "e">>

MCPaths == {<<"/">>, <<"/", "d", "/", "f">>, <<"/", "a">>, <<"/", "a", "/">>,
            <<"/", "a", "/", "f">>, <<"/", "a", "f">>, <<"/", "a", "/", "s", ".py">>,
            <<"/", "o">>}
MCBodies == {<<1, 2>>}
MCFresh == {"x"}

Dir == [kind |-> "dir", body |-> <<>>, open |-> TRUE]
W == <<<<"w">>>>
D == W \o <<<<"d">>>>
MCInitially ==
    (W :> Dir) @@ (D :> Dir) @@ (<<<<"u">>>> :> Dir)
    @@ (Append(D, <<"f">>) :> File(<<3, 3>>)) @@ (Append(D, <<"i">>) :> File(<<4>>))
    @@ (Append(W, <<"e">>) :> File(<<5>>))
F == Append(D, <<"f">>)
I == Append(D, <<"i">>)
E == Append(W, <<"e">>)
Becomes(f, node) == [name |-> f, node |-> node]
MCOthers ==
    {Becomes(D, [Dir EXCEPT !.open = FALSE]), Becomes(D, Dir), Becomes(F, File(<<6>>)),
     Becomes(F, Dir), Becomes(F, Absent), Becomes(I, Absent), Becomes(I, File(<<6, 6>>)),
     Becomes(E, Absent), Becomes(<<<<"u">>>>, Absent)}
=============================================================================
