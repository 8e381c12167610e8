---------------------------- MODULE JsonDocument ----------------------------
(***************************************************************************)
(* The JSON reader of bench/evaluator.cpp (JsonDocument): a recursive      *)
(* descent into three fixed tables (nodes, members of objects, elements of *)
(* arrays), and the look-ups that search those tables by parent.           *)
(*                                                                         *)
(* A document is a sequence of tokens: the six punctuation marks, a        *)
(* string <<"string", bytes>> (keys are compared by their bytes, escapes   *)
(* and all), a number, a literal (true, false, null), and "cut" for bytes  *)
(* that are no token: the front of one, a string with a control character  *)
(* or an unknown escape, a number with a leading zero or one that does not *)
(* fit its word.  White space is left out.                                 *)
(***************************************************************************)
EXTENDS Naturals, Sequences, SequencesExt, FiniteSets

CONSTANTS
    MaximumNodes,    \* maximum_json_nodes
    MaximumMembers,  \* maximum_json_members
    MaximumElements, \* maximum_json_elements
    MaximumDepth     \* nesting parse_value accepts

Mark(token) == <<"mark", token>>
Cut == <<"cut", 0>>

\* The reader: its cursor (tokens consumed), its tables and whether it has failed.
Reader(storage) ==
    [storage |-> storage, cursor |-> 0, ok |-> TRUE,
     nodes |-> << >>, members |-> << >>, elements |-> << >>]

Fail(r) == [r EXCEPT !.ok = FALSE]
AtEnd(r) == r.cursor >= Len(r.storage)
Peek(r) == IF AtEnd(r) THEN Mark("end") ELSE r.storage[r.cursor + 1]
Advance(r) == [r EXCEPT !.cursor = @ + 1]

AppendNode(r, type) ==
    IF Len(r.nodes) = MaximumNodes THEN Fail(r)
    ELSE [r EXCEPT !.nodes = Append(@, type)]

\* A string or a number: the token is taken when it is a whole one.
ParseString(r) == IF Peek(r)[1] = "string" THEN Advance(r) ELSE Fail(r)
ParseNumber(r) == IF Peek(r)[1] = "number" THEN Advance(r) ELSE Fail(r)

\* Variant that forgets to look for the key among the members of the object.
KnownNever(r, parent, key) == FALSE

\* The object already has a member of that name.
KnownKey(r, parent, key) ==
    \E i \in DOMAIN r.members : r.members[i].parent = parent /\ r.members[i].key = key

RECURSIVE ParseValue(_, _), ParseMembers(_, _, _), ParseElements(_, _, _)

\* A value; the node it gets is the next free one.  What begins like no other value
\* is taken for a number.
ParseValue(r, depth) ==
    LET token == Peek(r)
        node == Len(r.nodes) + 1
        type == CASE token = Mark("{") -> "object"
                  [] token = Mark("[") -> "array"
                  [] token[1] \in {"string", "literal"} -> token[1]
                  [] OTHER -> "number"
        opened == AppendNode(r, type)
        inside == Advance(opened)
    IN  IF depth > MaximumDepth \/ AtEnd(r) THEN Fail(r)
        ELSE IF ~opened.ok THEN opened
        ELSE CASE type = "object" ->
                    IF Peek(inside) = Mark("}") THEN Advance(inside)
                    ELSE ParseMembers(inside, node, depth)
               [] type = "array" ->
                    IF Peek(inside) = Mark("]") THEN Advance(inside)
                    ELSE ParseElements(inside, node, depth)
               [] type = "string" -> ParseString(opened)
               [] type = "literal" -> inside
               [] type = "number" -> ParseNumber(opened)

\* The members of an object, up to and including its closing brace.
ParseMembers(r, parent, depth) ==
    LET key == Peek(r)
        named == ParseString(r)
        value == Len(r.nodes) + 1
        read == ParseValue(Advance(named), depth + 1)
        added == [read EXCEPT !.members =
                    Append(@, [parent |-> parent, key |-> key[2], value |-> value])]
    IN  IF ~named.ok THEN named
        ELSE IF KnownKey(r, parent, key[2]) \/ Peek(named) # Mark(":") THEN Fail(r)
        ELSE IF ~read.ok \/ Len(read.members) = MaximumMembers THEN Fail(read)
        ELSE IF Peek(added) = Mark("}") THEN Advance(added)
        ELSE IF Peek(added) = Mark(",") THEN ParseMembers(Advance(added), parent, depth)
        ELSE Fail(added)

\* The elements of an array, up to and including its closing bracket.
ParseElements(r, parent, depth) ==
    LET value == Len(r.nodes) + 1
        read == ParseValue(r, depth + 1)
        added == [read EXCEPT !.elements = Append(@, [parent |-> parent, value |-> value])]
    IN  IF ~read.ok \/ Len(read.elements) = MaximumElements THEN Fail(read)
        ELSE IF Peek(added) = Mark("]") THEN Advance(added)
        ELSE IF Peek(added) = Mark(",") THEN ParseElements(Advance(added), parent, depth)
        ELSE Fail(added)

\* The whole of the storage is one value.
Load(storage) ==
    LET read == ParseValue(Reader(storage), 0)
    IN  IF storage # << >> /\ read.ok /\ AtEnd(read) THEN read ELSE Fail(read)

----------------------------------------------------------------------------
\* The first member of the object with that name, or 0.
Field(r, object, key) ==
    LET found == {i \in DOMAIN r.members :
                    r.members[i].parent = object /\ r.members[i].key = key}
    IN  IF r.nodes[object] # "object" \/ found = {} THEN 0
        ELSE r.members[Min(found)].value

\* The elements of an array in the order of the table.
ElementsOf(r, array) == SelectSeq(r.elements, LAMBDA e : e.parent = array)

ElementCount(r, array) == IF r.nodes[array] = "array" THEN Len(ElementsOf(r, array)) ELSE 0

\* The element of that ordinal, from 1, or 0.
Element(r, array, ordinal) ==
    IF ordinal \in 1..ElementCount(r, array) THEN ElementsOf(r, array)[ordinal].value ELSE 0

----------------------------------------------------------------------------
(***************************************************************************)
(* The reference: JSON values as trees, the text of a tree, and the tree   *)
(* the look-ups see in a table.                                            *)
(***************************************************************************)

Leaf(kind) == [kind |-> kind, keys |-> << >>, items |-> << >>]
Array(items) == [kind |-> "array", keys |-> << >>, items |-> items]
Object(keys, items) == [kind |-> "object", keys |-> keys, items |-> items]

\* Trees over a set of inner trees: these, and the containers of up to two of them.
Over(inner, keys) ==
    LET pairs == UNION {[1..n -> inner] : n \in 0..2}
    IN  inner \cup {Array(p) : p \in pairs}
          \cup UNION {{Object(k, p) : k \in [1..Len(p) -> keys]} : p \in pairs}

RECURSIVE Text(_), Height(_), Number(_, _), WellKeyed(_), View(_, _, _)

Joined(parts) ==
    FoldLeft(LAMBDA acc, part : IF acc = << >> THEN part ELSE acc \o <<Mark(",")>> \o part,
             << >>, parts)

Text(tree) ==
    CASE tree.kind = "array" ->
           <<Mark("[")>> \o Joined([i \in DOMAIN tree.items |-> Text(tree.items[i])])
             \o <<Mark("]")>>
      [] tree.kind = "object" ->
           <<Mark("{")>>
             \o Joined([i \in DOMAIN tree.items |->
                          << <<"string", tree.keys[i]>>, Mark(":")>> \o Text(tree.items[i])])
             \o <<Mark("}")>>
      [] OTHER -> << <<tree.kind, 0>> >>

Height(tree) ==
    IF tree.items = << >> THEN 0
    ELSE 1 + Max({Height(tree.items[i]) : i \in DOMAIN tree.items})

\* How many nodes, members or elements the tree needs.
Number(tree, what) ==
    (CASE what = "nodes" -> 1
       [] what = "members" -> Len(tree.keys)
       [] what = "elements" -> IF tree.kind = "array" THEN Len(tree.items) ELSE 0)
      + FoldLeft(LAMBDA acc, item : acc + Number(item, what), 0, tree.items)

WellKeyed(tree) ==
    /\ IsInjective(tree.keys)
    /\ \A i \in DOMAIN tree.items : WellKeyed(tree.items[i])

\* The tree with the shape of the given one that the look-ups find at a node.
View(r, node, tree) ==
    CASE node = 0 -> [kind |-> "missing"]
      [] r.nodes[node] = "object" ->
           Object(tree.keys, [i \in DOMAIN tree.items |->
                                View(r, Field(r, node, tree.keys[i]), tree.items[i])])
      [] r.nodes[node] = "array" ->
           Array([i \in 1..ElementCount(r, node) |->
                    View(r, Element(r, node, i), tree.items[i])])
      [] OTHER -> Leaf(r.nodes[node])

Representable(tree) ==
    /\ WellKeyed(tree) /\ Height(tree) <= MaximumDepth
    /\ Number(tree, "nodes") <= MaximumNodes
    /\ Number(tree, "members") <= MaximumMembers
    /\ Number(tree, "elements") <= MaximumElements
=============================================================================
