------------------------------ MODULE SchemaMap ------------------------------
(* Compiling a schema: definitions with members become select expressions, each      *)
(* with the operation to do when it matches an element of a document.                 *)
(*                                                                                   *)
(* A schema is a sequence of definitions [name, chld]; several with one name are      *)
(* alternatives. A member is [name, typnam, chld, array, attribute]: of an atomic     *)
(* type, of a type defined elsewhere, or, with typnam = NoType, a structure of its own. *)
EXTENDS Integers, Sequences, FiniteSets, SequencesExt

CONSTANT NoType

Atomic == {"integer", "number", "float", "boolean", "string"}

(* The nodes with a name, tree.nodemap as a set of positions instead of bits           *)
NodesNamed(tree, name) == {i \in DOMAIN tree : tree[i].name = name}

(* A step of a path is a child or, if any is set, a descendant with a name            *)
Child(name) == [any |-> FALSE, name |-> name]
Descendant(name) == [any |-> TRUE, name |-> name]

ValueId(typnam, attribute) ==
  [kind |-> IF attribute THEN "Attribute" ELSE "Value",
   of |-> CASE typnam = "number" -> "float" [] OTHER -> typnam]
Id(kind, array) == [kind |-> kind, of |-> IF array THEN "array" ELSE "single"]

Operation(path, on, id, set, mask) == [path |-> path, on |-> on, id |-> id, set |-> set, mask |-> mask]
Failed(code) == Operation(<<>>, "Error", code, {}, {})

(* buildSelectExpressionMap: the operations of the members of one structure. select is *)
(* the node they belong to, as a set of at most one, visited the nodes expanded around. *)
RECURSIVE Expressions(_, _, _, _, _)
Expressions(tree, path, members, select, visited) ==
  LET Key(nd) == Append(path, Child(nd.name))
      Refers(nd) == NodesNamed(tree, nd.typnam)
      Atom(nd) ==
        IF nd.attribute
        THEN {Operation(Key(nd), "AttributeValue", ValueId(nd.typnam, TRUE), {}, select)}
        ELSE {Operation(Key(nd), "Open", Id("Name", nd.array), {}, select),
              Operation(Key(nd), "Content", ValueId(nd.typnam, FALSE), {}, select)}
      Expanded(nd, i) ==
        IF tree[i].chld = <<>> THEN {Failed("StructureExpected")}
        ELSE Expressions(tree, Append(path, Descendant(nd.name)), tree[i].chld, {i}, visited \cup Refers(nd))
      Reference(nd) ==
        IF nd.attribute THEN {Failed("AttributeNotAtomic")}
        ELSE IF Refers(nd) = {} THEN {Failed("AddressedItemNotFound")}
        ELSE {Operation(Key(nd), "Open", Id("OpenNamed", nd.array), Refers(nd), select),
              Operation(Key(nd), "Close", Id("CloseNamed", nd.array), {}, select)}
             \cup UNION {Expanded(nd, i) : i \in Refers(nd) \ visited}
      Structure(nd) ==
        IF nd.chld = <<>> THEN {}
        ELSE {Operation(Key(nd), "Open", Id("Open", nd.array), {}, select),
              Operation(Key(nd), "Close", Id("Close", nd.array), {}, select)}
             \cup Expressions(tree, Key(nd), nd.chld, select, visited)
      Of(nd) == IF nd.typnam \in Atomic THEN Atom(nd)
                ELSE IF nd.typnam # NoType THEN Reference(nd) ELSE Structure(nd)
  IN UNION {Of(members[i]) : i \in DOMAIN members}

(* The root is a member of nothing                                                    *)
RootExpressions(tree, root) ==
  Expressions(tree, <<>>,
              <<[name |-> tree[root].name, typnam |-> NoType, chld |-> tree[root].chld,
                 array |-> FALSE, attribute |-> FALSE]>>, {}, {})

SameKey(x, y) == x.path = y.path /\ x.on = y.on

(* Why papuga_create_SchemaMap refuses a schema, addOperation included                *)
CompileErrors(tree, root) ==
  LET ops == RootExpressions(tree, root) IN
  {x.id : x \in {y \in ops : y.on = "Error"}}
    \cup (IF \E x, y \in ops : SameKey(x, y) /\ (x.id # y.id \/ x.set # y.set)
          THEN {"DuplicateDefinition"} ELSE {})

(* What could be wrong: the masks of one expression are not united                       *)
CompiledApart(tree, root) == RootExpressions(tree, root)

(* addOperation: one operation for each expression, with the masks of all of them       *)
Compiled(tree, root) ==
  LET ops == RootExpressions(tree, root) IN
  {[x EXCEPT !.mask = UNION {y.mask : y \in {z \in ops : SameKey(x, z)}}] : x \in ops}

(* The schema of a name, if it has one definition only (papuga_create_SchemaMap)        *)
RootsOf(tree) == {i \in DOMAIN tree : NodesNamed(tree, tree[i].name) = {i}}

(* An expression matches the path of open elements (textwolf): positions in the         *)
(* expression reached after each element                                               *)
Matches(steps, path) ==
  LET Reached(at, name) ==
        {i + 1 : i \in {j \in at : j < Len(steps) /\ steps[j + 1].name = name}}
          \cup {j \in at : j < Len(steps) /\ steps[j + 1].any}
  IN Len(steps) \in FoldLeft(Reached, {0}, path)
=============================================================================
