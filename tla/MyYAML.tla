------------------------------- MODULE MyYAML -------------------------------
(***************************************************************************)
(* How a configuration file becomes a tree (src/src/Lib/MyYAML).  A line is *)
(* a record [indent, mark, key, value]: mark is "seq" after a dash, "map"  *)
(* otherwise, "comment" for a comment (indented anywhere) or an empty line *)
(* (indent 0); key or value is "" when extractKey or extractValue finds    *)
(* none.  A value y of this module is parseYaml() between two lines:       *)
(*   y.at      : idx, the next line                                        *)
(*   y.indents, y.marks : the stacks prevIndent and prevStates             *)
(*   y.chain   : the stack nodeChain                                       *)
(*   y.nodes   : id -> node; a node has the number of its line as its id,  *)
(*               a root minus the number of the line it was made for       *)
(*   y.root    : rootNode, 0 for none                                      *)
(*   y.outcome : "reading", "refused" (an exception), "accepted", or       *)
(*               "fault" (a stack is popped that is empty)                 *)
(***************************************************************************)
EXTENDS Integers, Sequences, FiniteSets, SequencesExt, Maps

Start ==
    [at |-> 1, indents |-> <<-1>>, marks |-> <<"none">>, chain |-> <<>>,
     nodes |-> <<>>, root |-> 0, outcome |-> "reading"]

Refuse(y) == [y EXCEPT !.outcome = "refused"]
Reading(y) == y.outcome = "reading"

NewNode(line, parent) ==
    [mark |-> line.mark, key |-> line.key, value |-> line.value,
     parent |-> parent, terminated |-> FALSE]

Kids(t, n) == {k \in DOMAIN t.nodes : t.nodes[k].parent = n}

(* _childNodeType *)
ChildType(t, n) ==
    IF t.nodes[n].terminated THEN "val"
    ELSE IF Kids(t, n) = {} THEN "null"
    ELSE t.nodes[CHOOSE k \in Kids(t, n) : TRUE].mark

(* What the constructor of a Node refuses. *)
Nameless(line) == line.key = "" /\ (line.mark = "map" \/ line.value = "")

(* terminateNode(): the children take no children any more. *)
Terminate(y, n) ==
    LET closed(node) == [node EXCEPT !.terminated = @ \/ node.parent = n]
    IN [y EXCEPT !.nodes = [k \in DOMAIN @ |-> closed(@[k])]]

(* Mutant: a line further out leaves one level, however many it closes. *)
PlacesOneOut(y, line) ==
    LET top == Last(y.indents)
    IN IF top = line.indent
       THEN IF Last(y.marks) = line.mark THEN y ELSE Refuse(y)
       ELSE IF top < line.indent
       THEN [y EXCEPT !.indents = Append(@, line.indent), !.marks = Append(@, line.mark)]
       ELSE [Terminate(y, Last(y.chain)) EXCEPT
                !.indents = Append(Front(Front(@)), line.indent), !.marks = Front(@),
                !.chain = Front(@)]

(* The indentation of a line against the stacks: a level of the same sort, *)
(* a level further in, or an outer level to go back to.  The three stacks  *)
(* are popped together although they are not pushed together.              *)
Place(y, line) ==
    LET top == Last(y.indents)
        deeper == Cardinality({j \in DOMAIN y.indents : y.indents[j] > line.indent})
        pop(stack) == SubSeq(stack, 1, Len(stack) - deeper)
        agrees(z) == Last(z.indents) = line.indent /\ Last(z.marks) = line.mark
    IN IF top < line.indent
       THEN [y EXCEPT !.indents = Append(@, line.indent), !.marks = Append(@, line.mark)]
       ELSE IF top = line.indent
       THEN IF agrees(y) THEN y ELSE Refuse(y)
       ELSE IF deeper > Len(y.chain)
       THEN [y EXCEPT !.outcome = "fault"]
       ELSE LET z == [Terminate(y, Last(y.chain)) EXCEPT
                         !.indents = pop(@), !.marks = pop(@), !.chain = pop(@)]
            IN IF agrees(z) THEN z ELSE Refuse(z)

(* The line becomes a child of the node on top of the chain, or of a new   *)
(* root when the chain is empty: an older root is forgotten with all it    *)
(* has.                                                                    *)
Attach(y, line) ==
    LET id == y.at
        fresh == y.chain = <<>>
        parent == IF fresh THEN -id ELSE Last(y.chain)
        rooted == IF fresh
                  THEN [y EXCEPT !.root = -id, !.chain = <<-id>>,
                                 !.nodes = Put(@, -id, [NewNode(line, 0) EXCEPT
                                              !.key = "root", !.value = ""])]
                  ELSE y
        takes == /\ ChildType(rooted, parent) \in {"null", line.mark}
                 /\ line.mark = "map" =>
                       \A k \in Kids(rooted, parent) : rooted.nodes[k].key # line.key
    IN IF Nameless(line) \/ ~takes THEN Refuse(y)
       ELSE [rooted EXCEPT !.nodes = Put(@, id, NewNode(line, parent))]

(* The node goes on the chain if the next line is further in, be that line *)
(* a comment or empty, and only a line that ends in its colon may do that. *)
Descend(y, lines) ==
    LET line == lines[y.at]
    IN IF y.at < Len(lines) /\ line.indent < lines[y.at + 1].indent
       THEN IF line.key # "" /\ line.value = ""
            THEN [y EXCEPT !.chain = Append(@, y.at)]
            ELSE Refuse(y)
       ELSE y

Advance(y) == IF Reading(y) THEN [y EXCEPT !.at = @ + 1] ELSE y

(* One turn of the loop over the lines. *)
ReadLine(y, lines) ==
    LET line == lines[y.at]
        placed == Place(y, line)
        attached == IF Reading(placed) THEN Attach(placed, line) ELSE placed
        opened == IF Reading(attached) THEN Descend(attached, lines) ELSE attached
    IN IF line.mark = "comment" THEN Advance(y) ELSE Advance(opened)

(* The nodes the tree consists of. *)
Reached(y) ==
    LET in[n \in DOMAIN y.nodes] == n = y.root \/ (n > 0 /\ in[y.nodes[n].parent])
    IN {n \in DOMAIN y.nodes : in[n]}

(* fixNode() makes a value of each leaf, isValidNode() wants a text in it; *)
(* a terminated node counts as a value even if it has children, which are  *)
(* never looked at.                                                        *)
IsValid(y) ==
    \A n \in Reached(y) :
       (Kids(y, n) = {} \/ y.nodes[n].terminated) => y.nodes[n].value # ""

(* The end of the file: getData() refuses a file without a node. *)
EndOfFile(y) ==
    IF y.root # 0 /\ IsValid(y) THEN [y EXCEPT !.outcome = "accepted"] ELSE Refuse(y)

-----------------------------------------------------------------------------
(* The reference: a line belongs to the nearest line above it that is less *)
(* indented, whatever comments and empty lines there are between.          *)
Content(lines) == {i \in DOMAIN lines : lines[i].mark # "comment"}

Owner(lines, i) ==
    LET above == {j \in Content(lines) : j < i /\ lines[j].indent < lines[i].indent}
    IN IF above = {} THEN 0 ELSE CHOOSE j \in above : \A k \in above : k <= j

IsTreeOf(y, lines) ==
    /\ Reached(y) = Content(lines) \cup {y.root}
    /\ \A i \in Content(lines) :
          /\ y.nodes[i].parent = IF Owner(lines, i) = 0 THEN y.root ELSE Owner(lines, i)
          /\ y.nodes[i].key = lines[i].key
          /\ y.nodes[i].value = lines[i].value
          /\ y.nodes[i].mark = lines[i].mark

-----------------------------------------------------------------------------
(* Reading the tree: getSeq(), getKeys(), getMapNode(), getValue(). *)
IsMap(t, n) == ChildType(t, n) = "map"
IsSeq(t, n) == ChildType(t, n) = "seq"
Items(t, n) == SetToSortSeq(Kids(t, n), <)
Key(t, n) == t.nodes[n].key
Value(t, n) == t.nodes[n].value
Keys(t, n) == IF IsMap(t, n) THEN {Key(t, k) : k \in Kids(t, n)} ELSE {}
Child(t, n, key) == CHOOSE k \in Kids(t, n) : Key(t, k) = key
Text(t, n, key, default) ==
    IF key \in Keys(t, n) THEN Value(t, Child(t, n, key)) ELSE default
=============================================================================
