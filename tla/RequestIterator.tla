-------------------------- MODULE RequestIterator ---------------------------
(* The calls of a request (RequestIterator of src/request.cpp): nextCall takes    *)
(* the next of the ordered calls and resolves its arguments from what the context *)
(* found.  A resolver per item, a position in the objects of the item, moves back *)
(* and forth and is shared by all resolvings, nested ones included.               *)
(* An argument is flattened: values as the event that brought them, Void for an   *)
(* undefined one, Variable for one of the request context, Open and Close around  *)
(* a structure or an array.                                                       *)
EXTENDS CallSequence

Unlimited == 1000000

-----------------------------------------------------------------------------
(* A resolving in progress: positions, error, output, success of the step before, *)
(* and the object reached (0 if none).                                            *)
InRange(o, range) == range.first <= o.level /\ o.level <= range.second

(* getTagLevelRange *)
TagLevelRange(type, level, reach) ==
  IF reach < 0 THEN [first |-> 0, second |-> Unlimited]
  ELSE IF type = "inherited" THEN [first |-> level - reach, second |-> level]
  ELSE [first |-> level, second |-> level + reach]

(* setResolverUpperBound *)
PositionedAhead(r, item, scope) ==  \* mutant: a resolver never goes back
  [r EXCEPT !.at[item] = Min({i \in @..Len(Objects(item)) : Objects(item)[i].from >= scope.from}
                             \cup {EndOf(item)})]
Positioned(r, item, scope) ==
  LET objs == Objects(item)
      cur  == r.at[item]
      ahead(from) == {i \in from..Len(objs) : objs[i].from >= scope.from} \cup {EndOf(item)}
      back == {i \in 1..cur : \A j \in i..cur : objs[j].from >= scope.from}
  IN  [r EXCEPT !.at[item] = Min(IF cur = EndOf(item) THEN ahead(1)
                                 ELSE IF objs[cur].from < scope.from THEN ahead(cur) ELSE back)]

(* resolveNearItemInsideScope *)
NearInside(r, item, scope, range) ==
  LET objs == Objects(item)
      cur  == r.at[item]
      near == {i \in cur..Len(objs) : /\ objs[cur].from >= scope.from
                                      /\ \A j \in (cur + 1)..i : objs[j].from <= scope.to
                                      /\ objs[i].to <= scope.to /\ InRange(objs[i], range)}
  IN  IF near = {} THEN [r EXCEPT !.obj = 0] ELSE [r EXCEPT !.obj = Min(near), !.at[item] = Min(near)]

(* resolveNearItemCoveringScope *)
NearCovering(r, item, scope, range) ==
  LET objs   == Objects(item)
      before == {i \in 1..Len(objs) : i <= r.at[item] /\ objs[i].from <= scope.from}
      covers(i) == objs[i].to >= scope.to /\ InRange(objs[i], range)
      behind == {i \in before : /\ covers(i)
                                /\ \A j \in i..(Max(before) - 1) : objs[j].to <= scope.from}
  IN  IF before = {} THEN [r EXCEPT !.obj = 0]
      ELSE IF covers(Max(before)) THEN [r EXCEPT !.obj = Max(before)]
      ELSE IF behind = {} THEN [r EXCEPT !.obj = 0]
      ELSE [r EXCEPT !.obj = Max(behind), !.at[item] = Max(behind)]

(* resolveNextSameScopeItem *)
NextSameScope(r, item) ==
  LET objs == Objects(item)
      cur  == r.at[item]
      next == cur + 1
      same == next <= Len(objs) /\ objs[next].from = objs[cur].from /\ objs[next].to = objs[cur].to
  IN  IF cur = EndOf(item) THEN [r EXCEPT !.obj = 0]
      ELSE [r EXCEPT !.at[item] = next, !.obj = IF same THEN next ELSE 0]

(* resolveNextInsideItem *)
NextInside(r, item, scope, range) ==
  LET objs == Objects(item)
      cur  == r.at[item]
      match(i) == /\ objs[i].from >= objs[cur].to + 1
                  /\ InRange(objs[i], range) /\ Inside(objs[i], scope)
      stop == Min({i \in (cur + 1)..EndOf(item) :
                     i = EndOf(item) \/ objs[i].from > scope.to \/ match(i)})
  IN  IF cur = EndOf(item) THEN [r EXCEPT !.obj = 0]
      ELSE [r EXCEPT !.at[item] = stop,
                     !.obj = IF stop # EndOf(item) /\ match(stop) THEN stop ELSE 0]

(* hasNextCoveringItem *)
NextCovering(r, item, scope, range) ==
  LET objs == Objects(item)
      cur  == r.at[item]
      match(i) == Inside(scope, objs[i]) /\ InRange(objs[i], range)
      stop == Min({i \in (cur + 1)..EndOf(item) :
                     i = EndOf(item) \/ objs[i].from > scope.from \/ match(i)})
  IN  IF cur = EndOf(item) THEN [r EXCEPT !.obj = 0]
      ELSE [r EXCEPT !.at[item] = stop,
                     !.obj = IF stop # EndOf(item) /\ objs[stop].from <= scope.from THEN stop ELSE 0]

-----------------------------------------------------------------------------
Put(r, token) == [r EXCEPT !.out = Append(@, token), !.ok = TRUE]
Fail(r, err) == [r EXCEPT !.err = err, !.ok = FALSE]
Failed(r) == r.err # "Ok"
Unique(r) == IF r.obj # 0 THEN Fail(r, "AmbiguousReference") ELSE r
VoidOrLeftOut(r, leftOut) == IF leftOut THEN [r EXCEPT !.ok = TRUE] ELSE Put(r, Void)
PutVariable(r, v, have) == IF v \in have THEN Put(r, Variable) ELSE Fail(r, "ValueUndefined")

RECURSIVE ResolveItem(_, _, _, _, _, _, _)
RECURSIVE TryObjects(_, _, _, _, _)
RECURSIVE ArrayElements(_, _, _, _, _)

(* build_structure; have are the variables that exist.  A member that is void is   *)
(* left out, one without a name stands for its own members.                        *)
BuildStructure(r, members, o, have) ==
  LET inner == [from |-> o.from + 1, to |-> o.to]
      member(q, m) == IF m.item = NULL THEN PutVariable(q, m.var, have)
                      ELSE ResolveItem(q, m, inner, TagLevelRange(m.type, o.level, m.reach), have,
                                       ~m.named, m.named)
  IN  FoldLeft(LAMBDA q, m : IF q.ok THEN member(q, m) ELSE q, [r EXCEPT !.ok = TRUE], members)

(* addResolvedItemValue *)
CloseStructure(r) == IF r.ok THEN Put(r, Close) ELSE r
AddValue(r, value) == IF value = 0 THEN [r EXCEPT !.ok = FALSE] ELSE Put(r, value)
AddResolved(r, o, have, embedded) ==
  IF o.kind = "value" THEN AddValue(r, o.of)
  ELSE LET members == atm.structs[o.of].members
       IN  IF embedded THEN BuildStructure(r, members, o, have)
           ELSE CloseStructure(BuildStructure(Put(r, Open), members, o, have))

(* The objects of a scope in turn, until one is defined: obj is 0 if none is.  An  *)
(* error ends it, but not in an array.                                             *)
TryObjects(r, item, have, embedded, inArray) ==
  LET after(tried) == IF tried.ok \/ (Failed(tried) /\ ~inArray)
                      THEN [tried EXCEPT !.obj = r.obj]
                      ELSE TryObjects(NextSameScope(tried, item), item, have, embedded, inArray)
  IN  IF r.obj = 0 THEN r ELSE after(AddResolved(r, Objects(item)[r.obj], have, embedded))

(* resolveItem of an optional or required item                                     *)
ResolveSingle(tried, ref, scope, range, leftOut) ==
  IF tried.obj = 0 /\ ref.type = "required" THEN Fail(tried, "ValueUndefined")
  ELSE IF Failed(tried) /\ (tried.obj = 0 \/ ~tried.ok) THEN [tried EXCEPT !.ok = FALSE]
  ELSE Unique(NextInside(IF tried.obj = 0 THEN VoidOrLeftOut(tried, leftOut) ELSE tried,
                         ref.item, scope, range))

(* ... of an inherited one                                                         *)
ResolveInherited(cover, o, ref, scope, range, leftOut) ==
  IF cover.obj = 0 THEN Fail(cover, "ValueUndefined")
  ELSE IF o.kind = "struct" THEN Fail(cover, "InvalidAccess")
  ELSE Unique(NextCovering(IF o.of = 0 THEN VoidOrLeftOut(cover, leftOut)
                           ELSE Put(cover, o.of), ref.item, scope, range))

(* ... and of an array                                                             *)
ArrayElements(r, item, scope, range, have) ==
  LET after(tried) ==
        IF tried.obj = 0 /\ Failed(tried) THEN tried
        ELSE ArrayElements(NextInside(IF tried.obj = 0 THEN Put(tried, Void) ELSE tried,
                                      item, scope, range), item, scope, range, have)
  IN  IF r.obj = 0 THEN Put(r, Close) ELSE after(TryObjects(r, item, have, FALSE, TRUE))
ResolveArray(near, ref, scope, range, have, leftOut) ==
  IF near.obj # 0 THEN ArrayElements(Put(near, Open), ref.item, scope, range, have)
  ELSE IF ref.type = "arrayNonEmpty" THEN Fail(near, "ValueUndefined") ELSE VoidOrLeftOut(near, leftOut)

ResolveItem(r, ref, scope, range, have, embedded, leftOut) ==
  LET near(q) == NearInside(q, ref.item, scope, range)
      single(q) == ResolveSingle(TryObjects(q, ref.item, have, embedded, FALSE), ref, scope, range, leftOut)
      inherited(q) == ResolveInherited(q, Objects(ref.item)[q.obj], ref, scope, range, leftOut)
      resolve(q) == CASE ref.type \in {"required", "optional"} -> single(near(q))
                      [] ref.type = "inherited" -> inherited(NearCovering(q, ref.item, scope, range))
                      [] OTHER -> ResolveArray(near(q), ref, scope, range, have, leftOut)
  IN  resolve(Positioned(r, ref.item, scope))

(* setCallArgValue *)
CallArgValue(r, arg, node, have) ==
  IF arg.item = NULL THEN PutVariable(r, arg.var, have)
  ELSE ResolveItem(r, arg, [from |-> node.from, to |-> node.to],
                   TagLevelRange(arg.type, node.level, arg.reach), have, FALSE, FALSE)

-----------------------------------------------------------------------------
(* The arguments resolved one after the other, until one fails                    *)
ResolveArgs(at, err, refs, have) ==
  LET add(q, args) == [q EXCEPT !.args = Append(args, q.out)]
  IN  FoldLeft(LAMBDA r, x : IF r.ok THEN add(CallArgValue([r EXCEPT !.out = <<>>], x.arg, x.node, have), r.args)
                             ELSE r,
               [at |-> at, err |-> err, ok |-> TRUE, obj |-> 0, out |-> <<>>, args |-> <<>>], refs)

ResolvedAfresh(have) ==  \* mutant: the error of a call before is forgotten
  ResolveArgs(resolvers, "Ok", ReferencesOf(NextNodes), have)
Resolved(have) == ResolveArgs(resolvers, itererr, ReferencesOf(NextNodes), have)
NextCall(have) ==
  /\ CallLeft
  /\ \E r \in {Resolved(have)} : Issue(NextNodes, have, r, r.err)
  /\ UNCHANGED contextVars

RequestInit == Init /\ IteratorInit
RequestNext == \/ \E t \in Tag : OpenTag(t) /\ UNCHANGED iteratorVars
               \/ AttributeName /\ UNCHANGED iteratorVars
               \/ AttributeValue /\ UNCHANGED iteratorVars
               \/ Content /\ UNCHANGED iteratorVars
               \/ CloseTag /\ UNCHANGED iteratorVars
               \/ Done /\ UNCHANGED iteratorVars
               \/ CreateIterator
               \/ \E have \in SUBSET Referenced : NextCall(have)
RequestSpec == RequestInit /\ [][RequestNext]_vars
=============================================================================
