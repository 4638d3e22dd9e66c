---------------------------- MODULE SchemaMeaning ----------------------------
(* What a schema says of a document, read off the definitions and the tree of the      *)
(* document without select expressions, masks and stacks, and the properties of the      *)
(* mapping that follow from it.                                                         *)
EXTENDS SchemaMapping

(* The members an element with a given name can be, in one of several alternatives:        *)
(* sequences of members                                                                   *)
MembersOf(alts, name, attribute) ==
  {m \in UNION {Range(alt) : alt \in alts} : m.name = name /\ m.attribute = attribute}

IsAtomic(m) == m.typnam \in Atomic
IsNamed(m) == m.typnam \notin Atomic \cup {NoType}

(* The alternatives for the content of an element                                          *)
Content(members) ==
  UNION {IF IsNamed(m) THEN {tree[i].chld : i \in NodesNamed(tree, m.typnam)} ELSE {m.chld}
         : m \in {x \in members : ~IsAtomic(x)}}

TypeOfValue(m) == IF m.typnam = "number" THEN "float" ELSE m.typnam
RootAlternatives ==
  {<<[name |-> tree[root].name, typnam |-> NoType, chld |-> tree[root].chld,
      array |-> FALSE, attribute |-> FALSE]>>}

-----------------------------------------------------------------------------
(* Declared: element e is one of members. Strictly: the content is declared by one        *)
(* alternative, what is not an array occurs once, and every value has its type.             *)
RECURSIVE Declared(_, _, _)
Declared(e, members, strictly) ==
  LET TextDeclared ==
        \/ \E m \in members : IsAtomic(m) /\ IF e.text = NoText THEN TRUE ELSE e.text \in Accepts[TypeOfValue(m)]
        \/ e.text = NoText
      ByOne(alts) ==
        /\ \A i \in DOMAIN e.atts :
             \E m \in MembersOf(alts, e.atts[i].name, TRUE) : e.atts[i].v \in Accepts[TypeOfValue(m)]
        /\ \A i \in DOMAIN e.kids :
             LET found == MembersOf(alts, e.kids[i].name, FALSE) IN
             /\ found # {}
             /\ Declared(e.kids[i], found, strictly)
             /\ strictly => (\E m \in found : m.array)
                            \/ \A j \in DOMAIN e.kids : e.kids[j].name = e.kids[i].name => i = j
  IN /\ TextDeclared
     /\ IF strictly THEN IsLeaf(e) \/ \E alt \in Content(members) : ByOne({alt})
        ELSE ByOne(Content(members))

RootDeclared(strictly) ==
  LET found == MembersOf(RootAlternatives, doc.name, FALSE) IN
  found # {} /\ Declared(doc, found, strictly)

-----------------------------------------------------------------------------
(* Meaning: what the output should be. An element with atomic content is a name and a    *)
(* value, a structure a name and an open and closed list of members, an array is named    *)
(* once and opened and closed around its elements.                                        *)
NamedValue(name, type, text) == <<Name(name), Value(type, text)>>

RECURSIVE GroupMeaning(_, _)
BodyMeaning(e, alts) ==
  FlattenSeq([i \in DOMAIN e.atts |->
                LET m == CHOOSE m \in MembersOf(alts, e.atts[i].name, TRUE) : TRUE
                IN NamedValue(m.name, TypeOfValue(m), e.atts[i].v)])
    \o FlattenSeq([i \in DOMAIN Runs(e.kids) |->
                     GroupMeaning(Runs(e.kids)[i], MembersOf(alts, Runs(e.kids)[i][1].name, FALSE))])

(* Elements with one name that follow each other; all that members can be has one shape      *)
GroupMeaning(group, members) ==
  LET m == CHOOSE m \in members : TRUE
      Inner(e) == IF IsAtomic(m) THEN <<Value(TypeOfValue(m), e.text)>>
                  ELSE Enclosed(BodyMeaning(e, Content(members)))
  IN IF m.array
     THEN <<Name(m.name)>> \o Enclosed(FlattenSeq([i \in DOMAIN group |-> Inner(group[i])]))
     ELSE FlattenSeq([i \in DOMAIN group |-> <<Name(m.name)>> \o Inner(group[i])])

Meaning == GroupMeaning(<<doc>>, MembersOf(RootAlternatives, doc.name, FALSE))

-----------------------------------------------------------------------------
(* What the mapping is known to get wrong, as conditions on a declared document              *)

(* Atomic elements: repeated ones declared as array, empty ones, numbers below zero and        *)
(* truth values                                                                            *)
RECURSIVE AtomsPlain(_, _)
AtomsPlain(e, members) ==
  LET alts == Content(members) IN
  /\ \A m \in members : IsAtomic(m) =>
       ~m.array /\ e.text # NoText /\ m.typnam # "boolean" /\ ~(m.typnam = "integer" /\ e.text = "-1")
  /\ \A i \in DOMAIN e.atts : \A m \in MembersOf(alts, e.atts[i].name, TRUE) :
       m.typnam # "boolean" /\ ~(m.typnam = "integer" /\ e.atts[i].v = "-1")
  /\ \A i \in DOMAIN e.kids : AtomsPlain(e.kids[i], MembersOf(alts, e.kids[i].name, FALSE))

(* The elements of a document, each with the elements around it: a level is an element with       *)
(* the members it can be                                                                     *)
RECURSIVE Chains(_, _, _, _)
Chains(e, again, members, above) ==
  LET chain == Append(above, [name |-> e.name, members |-> members, again |-> again]) IN
  {chain} \cup UNION {Chains(e.kids[i], i > 1 /\ e.kids[i - 1].name = e.kids[i].name,
                            MembersOf(Content(members), e.kids[i].name, FALSE), chain) : i \in DOMAIN e.kids}
DocChains == Chains(doc, FALSE, MembersOf(RootAlternatives, doc.name, FALSE), <<>>)

IsStructure(level) == \E m \in level.members : ~IsAtomic(m)
TypesAt(level) == {m.typnam : m \in {x \in level.members : IsNamed(x)}}
NamedLevels(levels) == SelectSeq(levels, LAMBDA level : TypesAt(level) # {})

(* A type that is open already under another name                                          *)
Renamed(level, above) ==
  \E l \in Range(above) : l.name # level.name /\ TypesAt(l) \cap TypesAt(level) # {}

(* A structure with a name that an outer structure gives to a named structure of its own          *)
Shadowing(level, above) ==
  /\ IsStructure(level)
  /\ \A l \in Range(above) : TypesAt(l) \cap TypesAt(level) = {}
  /\ \E k \in 1 .. Len(above) - 1 : \E m \in MembersOf(Content(above[k].members), level.name, FALSE) : IsNamed(m)

(* The next element of an array of structures of one type in a structure of another          *)
Continued(level, above) ==
  /\ level.again /\ TypesAt(level) # {}
  /\ NamedLevels(above) # <<>> /\ TypesAt(Last(NamedLevels(above))) # TypesAt(level)

Refusable ==
  \E chain \in DocChains :
    LET level == Last(chain)
        above == Front(chain)
    IN Renamed(level, above) \/ Shadowing(level, above) \/ Continued(level, above)

(* A value or a structure of its own with the name of a named structure around it: its         *)
(* content is matched as content of the named structure                                      *)
Misleading ==
  \E chain \in DocChains :
    LET level == Last(chain) IN
    /\ level.members # {} /\ TypesAt(level) = {}
    /\ \E l \in Range(Front(chain)) : l.name = level.name /\ TypesAt(l) # {}

-----------------------------------------------------------------------------
(* What the parsers give to the mapping is the whole document, the same for both forms:       *)
(* papuga_schema_parse never maps the beginning of a document or half an object                *)
ParsedIsDocument == state = "Mapping" => request = XmlItems(doc)

(* While a document is read, what is known of the open elements: the members they can be         *)
RECURSIVE MembersOnPath(_)
MembersOnPath(names) ==
  IF Len(names) = 1 THEN MembersOf(RootAlternatives, names[1], FALSE)
  ELSE MembersOf(Content(MembersOnPath(Front(names))), Last(names), FALSE)

(* setStack, pushed and popped by the operations, holds the alternatives of the named            *)
(* structures that are open where the schema declares them, and arrayStack the arrays: the stacks       *)
(* never run ahead of the document or behind it, however arrays go on. Between two elements of       *)
(* an array its entries stay.                                                                    *)
StacksFollowDocument ==
  state = "Mapping" =>
    LET resumed == ridx = consumed
        open == IF resumed THEN Append(path, request[ridx].v) ELSE path
        levels == [i \in DOMAIN open |-> MembersOnPath(SubSeq(open, 1, i))]
        named == SelectSeq(levels, LAMBDA members : \E m \in members : IsNamed(m))
        arrays == SelectSeq([i \in DOMAIN open |-> [name |-> open[i], members |-> levels[i]]],
                            LAMBDA l : \E m \in l.members : m.array /\ ~IsAtomic(m))
    IN (\A i \in DOMAIN levels : levels[i] # {}) =>
       /\ setStack = [i \in DOMAIN named |->
                        UNION {NodesNamed(tree, m.typnam) : m \in {x \in named[i] : IsNamed(x)}}]
       /\ [i \in DOMAIN arrayStack |-> request[arrayStack[i]].v] = [i \in DOMAIN arrays |-> arrays[i].name]

Accepted == state = "Done" /\ err = "Ok"
NotMapped == err \in {"SyntaxError", "LogicError"}

(* A document that is mapped has no element, attribute or value that the schema does not          *)
(* declare where it is, as one of the alternatives at least, but below a misleading structure         *)
AcceptedIsDeclared == Accepted => RootDeclared(FALSE) \/ Misleading

MappedPlain == AtomsPlain(doc, MembersOf(RootAlternatives, doc.name, FALSE))

(* and the output is what the schema says of it, apart from what is known to be wrong                *)
MappedAsDeclared ==
  Accepted /\ RootDeclared(FALSE) /\ MappedPlain => output = Meaning

(* A document that the schema declares is mapped, unless it runs into one of the three limits of        *)
(* the select expressions                                                                        *)
DeclaredIsAccepted ==
  NotMapped /\ RootDeclared(TRUE)
    => Refusable
=============================================================================
