-------------------------- MODULE SchemaDescription --------------------------
(* The description of a schema (src/schemaDescription.cpp): a tree of the elements *)
(* that expressions tell, filled while an automaton is built and rewritten once by *)
(* done, which makes elements wanted at any depth (//) global and what stands for  *)
(* them references.                                                               *)
(* The tree is a function: the place of a node is the names on the way to it.     *)
EXTENDS Expressions, Integers, FiniteSets

VARIABLES tree,      \* tree
          lasterr,   \* lasterr
          finished   \* done

schemaVars == <<tree, lasterr, finished>>

TextName == ""    \* the name of the node for the content of an element with attributes
AttrName == "@"

(* TreeNode; nr tells its position among the children of its parent.               *)
NewNode(nr) ==
  [nr |-> nr, id |-> NULL, kind |-> "null", type |-> "void", follow |-> "null",
   resolve |-> "required", related |-> <<>>]
SchemaInit == tree = [p \in {<<>>} |-> NewNode(0)] /\ lasterr = "Ok" /\ finished = FALSE

Children(t, p) ==
  {c \in DOMAIN t : c # <<>> /\ (Front(c) = p \/ (p = <<>> /\ Front(c) = <<Deep>>))}
IsAttributeOnlyStruct(t, p) ==
  t[p].kind = "struct" /\ \A c \in Children(t, p) : t[c].kind = "attribute"

(* What comes after the tags of an expression: the steps to take, and with what it *)
(* ends.  An attribute is a step as well.                                         *)
Step(names, k) ==
  [name |-> names[k], follow |-> IF k > 1 /\ names[k - 1] = Deep THEN "deep" ELSE "immediate"]
Steps(e) ==
  LET names == e.tags \o IF e.leaf = "attribute" THEN <<AttrName>> ELSE <<>>
      steps == [k \in DOMAIN names |-> Step(names, k)]
  IN  SelectSeq(steps, LAMBDA s : s.name # Deep)

-----------------------------------------------------------------------------
(* A description in the works: the tree so far, the node reached, and the error    *)
(* that ends it, with which all that comes after has no effect.                   *)
Work(t) == [tree |-> t, at |-> <<>>, err |-> "Ok", returned |-> FALSE]
Ended(w) == w.err # "Ok" \/ w.returned
EndWith(w, err) == [w EXCEPT !.err = err]
Node(w) == w.tree[w.at]
With(w, field, x) == IF Ended(w) THEN w ELSE [w EXCEPT !.tree[w.at][field] = x]

(* setElementTypeUnique, setIdUnique, setFollowTypeUnique: set once                *)
SetUnique(w, field, none, x) ==
  IF Ended(w) \/ Node(w)[field] = x THEN w
  ELSE IF Node(w)[field] = none THEN With(w, field, x) ELSE EndWith(w, "AmbiguousReference")
SetKind(w, kind) == SetUnique(w, "kind", "null", kind)
SetId(w, id) == SetUnique(w, "id", NULL, id)
SetFollow(w, follow) == SetUnique(w, "follow", "null", follow)
SetType(w, type) == IF type = "void" THEN w ELSE SetUnique(w, "type", "void", type)

(* setResolveTypeUnique: two of them that differ are never united, although an     *)
(* optional one becomes an array on the way to the error.                         *)
SetResolve(w, resolve) ==
  LET before == Node(w).resolve
      after == IF before = "optional" /\ resolve = "arrayNonEmpty" THEN resolve ELSE before
  IN  IF before = "required" \/ resolve \in {"required", before}
      THEN With(w, "resolve", IF before = "required" THEN resolve ELSE before)
      ELSE EndWith(With(w, "resolve", after), "AmbiguousReference")

(* getOrCreateChildNode, and the node itself becomes the one reached               *)
Descend(w, name) ==
  LET q == Append(w.at, name)
  IN  IF Ended(w) THEN w
      ELSE [w EXCEPT !.at = q,
                     !.tree = [p \in DOMAIN w.tree \cup {q} |->
                                 IF p \in DOMAIN w.tree THEN w.tree[p]
                                 ELSE NewNode(Cardinality(DOMAIN w.tree))]]
Return(w, p) == IF Ended(w) THEN w ELSE [w EXCEPT !.at = p]

(* A content beside attributes: a child without name                              *)
ContentNode(w, type) ==
  Return(SetType(SetKind(SetFollow(Descend(w, TextName), "immediate"), "value"), type), w.at)
(* transformValueToSimpleContent, before a node gets children                      *)
OpenStructOver(w) ==  \* mutant: what was a value is forgotten
  SetKind(With(With(w, "kind", "struct"), "type", "void"), "struct")
OpenStruct(w) ==
  SetKind(IF ~Ended(w) /\ Node(w).kind = "value"
          THEN ContentNode(With(With(w, "kind", "struct"), "type", "void"), Node(w).type)
          ELSE w, "struct")

(* addFollow, by what follows in the expression.  What is added has an id, a type  *)
(* and how often it may come, or a relation to another (related).                  *)
FollowEnd(w, what) ==
  LET identified == IF what.id = NULL THEN w ELSE SetId(w, what.id)
      resolved == SetResolve(identified, what.resolve)
      container == IF what.id = NULL THEN resolved ELSE SetKind(resolved, "struct")
  IN  IF Ended(resolved) THEN resolved
      ELSE IF Node(w).kind = "attribute" THEN SetType(resolved, what.type)
      ELSE IF what.type # "void" THEN EndWith(resolved, "SyntaxError")
      ELSE IF what.related = <<>> THEN resolved
      ELSE IF Node(container).kind # "struct" THEN container
      ELSE With(container, "related", Node(container).related \o what.related)
FollowContent(w, what) ==
  IF ~Ended(w) /\ IsAttributeOnlyStruct(w.tree, w.at) THEN ContentNode(w, what.type)
  ELSE LET resolved == SetResolve(w, what.resolve)
       IN  SetId(IF what.type = "void" THEN resolved
                 ELSE SetType(SetKind(resolved, "value"), what.type), what.id)

(* addElement: the next step of an expression, and what follows it                 *)
AddedAsArray(w, q, step, next, what) ==
  /\ next = "content" /\ what.type = "void" /\ step.follow = "immediate"
  /\ q \in DOMAIN w.tree /\ w.tree[q].kind = "struct" /\ w.tree[q].follow = "deep"
  /\ w.tree[q].id = what.id
TakeStep(w, step, next, what) ==
  LET attribute == step.name = AttrName
      value == next = "content" /\ what.type # "void"
      child == Descend(w, step.name)
      resolved == IF attribute THEN SetResolve(child, what.resolve) ELSE child
      followed == SetFollow(resolved, step.follow)
      inner == IF value /\ ~Ended(followed) /\ IsAttributeOnlyStruct(followed.tree, followed.at)
               THEN SetFollow(Descend(followed, TextName), "immediate") ELSE followed
      typed == IF attribute THEN SetKind(inner, "attribute")
               ELSE IF value THEN SetKind(inner, "value") ELSE inner
  IN  IF Ended(w) THEN w
      ELSE IF ~attribute /\ AddedAsArray(w, Append(w.at, step.name), step, next, what)
      THEN [With(w, "related", Append(Node(w).related, [id |-> what.id, resolve |-> "array"]))
              EXCEPT !.returned = TRUE]
      ELSE CASE next = "step" -> OpenStruct(typed)
             [] next = "content" -> FollowContent(typed, what)
             [] next = "end" -> FollowEnd(typed, what)

(* addSubTree: an expression may also name the root, with "/" or "()".              *)
Added(t, e, what) ==
  LET steps == Steps(e)
      next(k) == IF k < Len(steps) THEN "step"
                 ELSE IF e.leaf = "content" THEN "content" ELSE "end"
      start == IF e.rooted /\ (steps # <<>> \/ e.leaf = "content") THEN OpenStruct(Work(t)) ELSE Work(t)
  IN  IF steps # <<>>
      THEN FoldLeft(LAMBDA w, k : TakeStep(w, steps[k], next(k), what), start, [k \in DOMAIN steps |-> k])
      ELSE IF e.rooted /\ e.leaf = "none" THEN FollowEnd(start, what)
      ELSE IF ~e.rooted /\ e.leaf = "content" THEN FollowContent(start, what)
      ELSE EndWith(start, "SyntaxError")

(* papuga_SchemaDescription_add_element, _add_relation, _add_dependency and         *)
(* _set_resolve: what was added before an error stays.                              *)
Add(e, what) ==
  /\ IF finished THEN lasterr' = "ExecutionOrder" /\ UNCHANGED tree
     ELSE LET w == Added(tree, e, what) IN tree' = w.tree /\ lasterr' = w.err
  /\ UNCHANGED finished
What(id, type, resolve, related) ==
  [id |-> id, type |-> type, resolve |-> resolve, related |-> related]
AddElement(id, e, type, resolve) == Add(e, What(id, type, resolve, <<>>))
AddRelation(id, e, item, resolve) ==
  Add(e, What(id, "void", "required", <<[id |-> item, resolve |-> resolve]>>))
AddDependency(e, item, resolve) == AddRelation(NULL, e, item, resolve)
ResolveAs(e, resolve) == Add(e, What(NULL, "void", resolve, <<>>))

-----------------------------------------------------------------------------
(* updateResolveType: a child comes as often as the first relation to it tells.     *)
Updated(t) ==
  LET root == [t EXCEPT ![<<>>].kind = "struct", ![<<>>].follow = "immediate"]
      relations(p) == SelectSeq(t[Front(p)].related, LAMBDA r : r.id = t[p].id)
  IN  [p \in DOMAIN t |-> IF p = <<>> \/ relations(p) = <<>> THEN root[p]
                          ELSE [root[p] EXCEPT !.resolve = Head(relations(p)).resolve]]

(* declareDeepNodesAsGlobals: the deep nodes in the order in which they are met, a   *)
(* node before those in it.  The first of a name is made global; another is dropped *)
(* with all that is in it if it has the same id and the first is complete.          *)
Met(t, p, q) ==
  \/ IsPrefix(p, q)
  \/ \E k \in 1..Len(p) : /\ k <= Len(q) /\ SubSeq(p, 1, k - 1) = SubSeq(q, 1, k - 1)
                          /\ t[SubSeq(p, 1, k)].nr < t[SubSeq(q, 1, k)].nr
DeepNodes(t) == SetToSortSeq({p \in DOMAIN t : t[p].follow = "deep"}, LAMBDA p, q : p # q /\ Met(t, p, q))
Under(p, roots) == \E r \in roots : IsPrefix(r, p)
Declare(t, g, p) ==
  LET first == CHOOSE q \in g.globals : Last(q) = Last(p)
  IN  IF g.failed \/ Under(p, g.dropped) THEN g
      ELSE IF \A q \in g.globals : Last(q) # Last(p) THEN [g EXCEPT !.globals = @ \cup {p}]
      ELSE IF t[first].id = t[p].id /\ Len(first) > 1 /\ ~IsPrefix(first, p)
      THEN [g EXCEPT !.dropped = @ \cup {p}]
      ELSE [g EXCEPT !.failed = TRUE]
Globals(t) == FoldLeft(LAMBDA g, p : Declare(t, g, p),
                       [globals |-> {}, dropped |-> {}, failed |-> FALSE], DeepNodes(t))

(* A global is a child of the root, here below //; one that was there before stays. *)
(* A node left without children has no kind any more.                               *)
PlaceIn(globals, p) ==
  LET around == {q \in globals : Len(q) > 1 /\ IsPrefix(q, p)}
      innermost == CHOOSE q \in around : \A r \in around : Len(r) <= Len(q)
  IN  IF around = {} THEN p
      ELSE <<Deep, Last(innermost)>> \o SubSeq(p, Len(innermost) + 1, Len(p))
Moved(t, g) ==
  LET kept == {p \in DOMAIN t : ~Under(p, g.dropped)}
      removed == g.dropped \cup {q \in g.globals : Len(q) > 1}
      emptied(p) == Children(t, p) # {} /\ Children(t, p) \subseteq removed
      origin(q) == CHOOSE p \in kept : PlaceIn(g.globals, p) = q
      node(p) == [t[p] EXCEPT !.follow = IF p \in g.globals THEN "immediate" ELSE @,
                              !.kind = IF emptied(p) THEN "null" ELSE @]
  IN  [q \in {PlaceIn(g.globals, p) : p \in kept} |-> node(origin(q))]

(* resolveDeepNodeReferences: a node without kind or type is one of the globals of   *)
(* its id; the only one if it has the same name.                                    *)
Referring(t, g, old) ==
  LET named(id) == {Last(q) : q \in {r \in g.globals : old[r].id = id}}
      open(p) == p # <<>> /\ t[p].kind = "null" /\ t[p].id # NULL
      void(p) == p # <<>> /\ t[p].kind = "value" /\ t[p].type = "void" /\ named(t[p].id) # {}
      direct(p) == open(p) /\ named(t[p].id) = {Last(p)}
      references == {Append(p, n) : p \in {q \in DOMAIN t : (open(q) \/ void(q)) /\ ~direct(q)},
                                    n \in UNION {named(t[q].id) : q \in DOMAIN t}}
      node(p) == [t[p] EXCEPT !.kind = IF direct(p) THEN "reference"
                                       ELSE IF open(p) \/ void(p) THEN "union" ELSE @,
                              !.id = IF open(p) THEN NULL ELSE @]
      reference == [NewNode(0) EXCEPT !.kind = "reference", !.follow = "immediate"]
  IN  [p \in DOMAIN t \cup {q \in references : Last(q) \in named(t[Front(q)].id)} |->
         IF p \in DOMAIN t THEN node(p) ELSE reference]

(* inheritChildResolveTypeOptional: a structure of which nothing is required need    *)
(* not be there.                                                                    *)
Optional(t) ==
  LET resolve[p \in DOMAIN t] ==
        IF /\ t[p].kind = "struct" /\ t[p].resolve = "required"
           /\ \A c \in Children(t, p) : resolve[c] \in {"optional", "array"}
        THEN "optional" ELSE t[p].resolve
  IN  [p \in DOMAIN t |-> [t[p] EXCEPT !.resolve = resolve[p]]]

(* finish, with checkTree; what is left of the tree after an error is used by none.  *)
Finish ==
  LET updated == Updated(tree)
      g == Globals(updated)
      t == Optional(Referring(Moved(updated, g), g, updated))
      undefined == \E p \in DOMAIN t : t[p].kind = "null" \/ t[p].follow # "immediate"
      err == IF g.failed THEN "AmbiguousReference" ELSE IF undefined THEN "ValueUndefined" ELSE "Ok"
  IN  IF finished THEN UNCHANGED schemaVars
      ELSE /\ lasterr' = err /\ finished' = (err = "Ok")
           /\ tree' = IF err = "Ok" THEN t ELSE tree
=============================================================================
