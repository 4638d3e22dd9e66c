---------------------------- MODULE RequestContext ----------------------------
(* The contexts of requests and the context map of the request handler            *)
(* (src/requestHandler.cpp).  A thread fills a context of its own with variables, *)
(* inherits variables of published contexts and publishes its context.  The map   *)
(* is never changed: an update publishes a changed copy, and shared pointers keep *)
(* a map alive as long as a reader uses it.                                       *)
EXTENDS Naturals, Sequences, FiniteSets

CONSTANTS Thread,   \* threads using the handler
          Ctx,      \* papuga_RequestContext structures ever created
          Key,      \* addresses (type, name) of published contexts
          Name,     \* names of variables
          Local,    \* the names that start with '_'
          NULL,
          MaxVars,  \* bound on the RequestVariables ever created
          MaxMaps,  \* bound on the RequestContextMaps ever created
          ReadersSynchronized  \* whether the callers lock papuga_RequestContext_inherit

ASSUME ThreadAssumption == /\ IsFiniteSet(Thread)
                           /\ Thread \cap {"handler", "freed"} = {}
ASSUME NullAssumption   == NULL \notin Ctx \cup Thread \cup {"handler", "freed"}
ASSUME NamesAssumption  == Local \subseteq Name
ASSUME BoundsAssumption == MaxVars \in Nat /\ MaxMaps \in Nat \ {0}
ASSUME LockingAssumption == ReadersSynchronized \in BOOLEAN

VARIABLES owner,      \* context |-> a thread, "handler", "freed", or NULL before its creation
          varmap,     \* context |-> its variables in the order of their definition
          errcode,    \* context |-> its last error (kept until the caller clears it)
          var,        \* variable |-> the context that wrote it and whether it has a value
          nvars,      \* variables created
          tab,        \* map |-> key |-> context
          uses,       \* map |-> use count of its shared pointer
          nmaps,      \* maps created
          contextmap, \* the map the handler has
          pc,         \* thread |-> what it does
          lock        \* the thread in the lock of the callers

vars == <<owner, varmap, errcode, var, nvars, tab, uses, nmaps, contextmap, pc, lock>>
mapVars == <<tab, uses, nmaps, contextmap>>

Map == 1..MaxMaps
Idle == [op |-> "idle"]
Errors == {"Ok", "NoMemError", "AddressedItemNotFound", "DuplicateDefinition"}

(* RequestVariableMap: findVariable; createVariable replaces the reference of an  *)
(* existing name by one to a new variable; merge stops at a variable of that name *)
(* with another value; removeLocalVariables.                                      *)
EntryOf(vm, n) == {i \in DOMAIN vm : vm[i].name = n}

CreateVariable(vm, n, v) ==
  LET new == [name |-> n, ref |-> v, inheritcnt |-> 0]
  IN  IF EntryOf(vm, n) = {} THEN Append(vm, new)
      ELSE [i \in DOMAIN vm |-> IF vm[i].name = n THEN new ELSE vm[i]]

Conflicts(vm, from) == {i \in DOMAIN from : \E j \in EntryOf(vm, from[i].name) :
                                              vm[j].ref # from[i].ref}
(* The elements of s at the indexes I, in their order. *)
Rank(I, i) == Cardinality({j \in I : j <= i})
Kept(s, I) == [n \in 1..Cardinality(I) |-> s[CHOOSE i \in I : Rank(I, i) = n]]

Inherited(s) == [i \in DOMAIN s |-> [s[i] EXCEPT !.inheritcnt = @ + 1]]

MergedStoppingAtKnown(vm, from) ==
  vm \o Inherited(Kept(from, {i \in DOMAIN from : \A j \in 1..i : EntryOf(vm, from[j].name) = {}}))
Merged(vm, from) ==
  vm \o Inherited(Kept(from, {i \in DOMAIN from : /\ EntryOf(vm, from[i].name) = {}
                                                /\ \A c \in Conflicts(vm, from) : i < c}))

WithLocalVariables(vm) == vm
WithoutLocalVariables(vm) == Kept(vm, {i \in DOMAIN vm : vm[i].name \notin Local})

-----------------------------------------------------------------------------
Init == /\ owner = [c \in Ctx |-> NULL]
        /\ varmap = [c \in Ctx |-> <<>>]
        /\ errcode = [c \in Ctx |-> "Ok"]
        /\ var = <<>>
        /\ nvars = 0
        /\ tab = [m \in Map |-> [k \in Key |-> NULL]]
        /\ uses = [m \in Map |-> IF m = 1 THEN 1 ELSE 0]
        /\ nmaps = 1
        /\ contextmap = 1
        /\ pc = [t \in Thread |-> Idle]
        /\ lock = NULL

(* papuga_create_RequestContext, papuga_destroy_RequestContext.  A thread has the *)
(* context of one request at a time.                                              *)
Create(t, c) == /\ pc[t] = Idle /\ owner[c] = NULL
                /\ \A d \in Ctx : owner[d] # t
                /\ owner' = [owner EXCEPT ![c] = t]
                /\ UNCHANGED <<varmap, errcode, var, nvars, mapVars, pc, lock>>

Destroy(t, c) == /\ pc[t] = Idle /\ owner[c] = t
                 /\ owner' = [owner EXCEPT ![c] = "freed"]
                 /\ varmap' = [varmap EXCEPT ![c] = <<>>]
                 /\ errcode' = [errcode EXCEPT ![c] = "Ok"]
                 /\ UNCHANGED <<var, nvars, mapVars, pc, lock>>

DefineVariableInPlace(t, c, n, ok) ==
  /\ pc[t] = Idle /\ owner[c] = t /\ nvars < MaxVars
  /\ IF EntryOf(varmap[c], n) = {}
     THEN /\ nvars' = nvars + 1
          /\ varmap' = [varmap EXCEPT ![c] = CreateVariable(@, n, nvars')]
          /\ var' = Append(var, [by |-> c, defined |-> ok])
     ELSE /\ \E i \in EntryOf(varmap[c], n) :
               var' = [var EXCEPT ![varmap[c][i].ref] = [by |-> c, defined |-> ok]]
          /\ UNCHANGED <<nvars, varmap>>
  /\ UNCHANGED <<owner, errcode, mapVars, pc, lock>>

(* papuga_RequestContext_define_variable, and the assignments of the execution of *)
(* a request: the new variable is in place before the copy of its value, which    *)
(* may fail (ok = FALSE) and leave it undefined.                                  *)
DefineVariable(t, c, n, ok) ==
  /\ pc[t] = Idle /\ owner[c] = t /\ nvars < MaxVars
  /\ nvars' = nvars + 1
  /\ varmap' = [varmap EXCEPT ![c] = CreateVariable(@, n, nvars')]
  /\ var' = Append(var, [by |-> c, defined |-> ok])
  /\ errcode' = IF ok THEN errcode ELSE [errcode EXCEPT ![c] = "NoMemError"]
  /\ UNCHANGED <<owner, mapVars, pc, lock>>

-----------------------------------------------------------------------------
(* The shared pointer of the map: dropping the last reference frees the map, with *)
(* it the contexts that are in no other map.                                      *)
Live(m) == uses[m] > 0
FreedWith(newUses) ==
  {c \in Ctx : /\ owner[c] = "handler"
               /\ \E m \in Map, k \in Key : uses[m] > 0 /\ tab[m][k] = c
               /\ \A m \in Map, k \in Key : newUses[m] > 0 => tab[m][k] # c}
FreeContexts(dead) ==
  /\ owner' = [c \in Ctx |-> IF c \in dead THEN "freed" ELSE owner[c]]
  /\ varmap' = [c \in Ctx |-> IF c \in dead THEN <<>> ELSE varmap[c]]

(* papuga_RequestContext_inherit: read the pointer of the map, count the          *)
(* reference, look up the context ...                                             *)
InheritRead(t, c, k) ==
  /\ pc[t] = Idle /\ owner[c] = t
  /\ ReadersSynchronized => lock = NULL
  /\ lock' = IF ReadersSynchronized THEN t ELSE lock
  /\ pc' = [pc EXCEPT ![t] = [op |-> "reading", ctx |-> c, key |-> k, map |-> contextmap]]
  /\ UNCHANGED <<owner, varmap, errcode, var, nvars, mapVars>>

InheritHoldUncounted(t) ==
  /\ pc[t].op = "reading"
  /\ uses' = uses
  /\ pc' = [pc EXCEPT ![t].op = "merging"]
  /\ UNCHANGED <<owner, varmap, errcode, var, nvars, tab, nmaps, contextmap, lock>>
InheritHold(t) ==
  /\ pc[t].op = "reading"
  /\ uses' = [uses EXCEPT ![pc[t].map] = @ + 1]
  /\ pc' = [pc EXCEPT ![t].op = "merging"]
  /\ UNCHANGED <<owner, varmap, errcode, var, nvars, tab, nmaps, contextmap, lock>>

(* ... and merge its variables, up to the first conflict; drop the reference.     *)
InheritMerge(t) ==
  /\ pc[t].op = "merging"
  /\ LET c    == pc[t].ctx
         from == tab[pc[t].map][pc[t].key]
         left == [uses EXCEPT ![pc[t].map] = @ - 1]
         dead == FreedWith(left)
         outcome == IF from = NULL THEN "AddressedItemNotFound"
                    ELSE IF Conflicts(varmap[c], varmap[from]) # {} THEN "DuplicateDefinition"
                    ELSE errcode[c]
     IN  /\ errcode' = [errcode EXCEPT ![c] = outcome]
         /\ uses' = left
         /\ owner' = [x \in Ctx |-> IF x \in dead THEN "freed" ELSE owner[x]]
         /\ varmap' = [x \in Ctx |-> IF x \in dead THEN <<>>
                                     ELSE IF x = c /\ from # NULL
                                          THEN Merged(varmap[c], varmap[from])
                                     ELSE varmap[x]]
  /\ pc' = [pc EXCEPT ![t] = Idle]
  /\ lock' = IF lock = t THEN NULL ELSE lock
  /\ UNCHANGED <<var, nvars, tab, nmaps, contextmap>>

(* RequestContextMap_transfer: hold the map, copy it, drop the local variables of *)
(* the context and give it to the copy ...                                        *)
TransferCopy(t, c, k) ==
  /\ pc[t] = Idle /\ owner[c] = t /\ lock = NULL /\ nmaps < MaxMaps
  /\ lock' = t
  /\ nmaps' = nmaps + 1
  /\ uses' = [uses EXCEPT ![contextmap] = @ + 1, ![nmaps'] = 1]
  /\ tab' = [tab EXCEPT ![nmaps'] = [tab[contextmap] EXCEPT ![k] = c]]
  /\ varmap' = [varmap EXCEPT ![c] = WithoutLocalVariables(@)]
  /\ owner' = [owner EXCEPT ![c] = "handler"]
  /\ pc' = [pc EXCEPT ![t] = [op |-> "publishing", held |-> contextmap, copy |-> nmaps']]
  /\ UNCHANGED <<errcode, var, nvars, contextmap>>

(* ... or fail to allocate the entry: the context stays with the caller, ...       *)
TransferFails(t, c) ==
  /\ pc[t] = Idle /\ owner[c] = t /\ lock = NULL
  /\ varmap' = [varmap EXCEPT ![c] = WithoutLocalVariables(@)]
  /\ UNCHANGED <<owner, errcode, var, nvars, mapVars, pc, lock>>

(* ... or to allocate the reference of the entry (reset): the context is deleted   *)
(* as if the caller had destroyed it, who gets the same answer in both cases.       *)
TransferDeletes(t, c) == lock = NULL /\ Destroy(t, c)

(* RequestContextMap_delete: hold, copy and erase; a key that is not there ends   *)
(* the call, with the copy dropped.                                               *)
RemoveCopy(t, k) ==
  /\ pc[t] = Idle /\ lock = NULL /\ nmaps < MaxMaps
  /\ tab[contextmap][k] # NULL
  /\ lock' = t
  /\ nmaps' = nmaps + 1
  /\ uses' = [uses EXCEPT ![contextmap] = @ + 1, ![nmaps'] = 1]
  /\ tab' = [tab EXCEPT ![nmaps'] = [tab[contextmap] EXCEPT ![k] = NULL]]
  /\ pc' = [pc EXCEPT ![t] = [op |-> "publishing", held |-> contextmap, copy |-> nmaps']]
  /\ UNCHANGED <<owner, varmap, errcode, var, nvars, contextmap>>

(* cm = cm_copy; the references of the handler and of this call to the old map    *)
(* are dropped.                                                                   *)
PublishKeepingHeld(t) ==
  /\ pc[t].op = "publishing"
  /\ contextmap' = pc[t].copy
  /\ uses' = [uses EXCEPT ![contextmap] = @ - 1]
  /\ FreeContexts(FreedWith(uses'))
  /\ pc' = [pc EXCEPT ![t] = Idle]
  /\ lock' = NULL
  /\ UNCHANGED <<errcode, var, nvars, tab, nmaps>>
Publish(t) ==
  /\ pc[t].op = "publishing"
  /\ contextmap' = pc[t].copy
  /\ uses' = [m \in Map |-> uses[m] - (IF m = contextmap THEN 1 ELSE 0)
                                    - (IF m = pc[t].held THEN 1 ELSE 0)]
  /\ FreeContexts(FreedWith(uses'))
  /\ pc' = [pc EXCEPT ![t] = Idle]
  /\ lock' = NULL
  /\ UNCHANGED <<errcode, var, nvars, tab, nmaps>>

Next == \E t \in Thread :
          \/ \E c \in Ctx : \/ Create(t, c)
                            \/ Destroy(t, c)
                            \/ TransferFails(t, c) \/ TransferDeletes(t, c)
                            \/ \E n \in Name, ok \in BOOLEAN : DefineVariable(t, c, n, ok)
                            \/ \E k \in Key : InheritRead(t, c, k) \/ TransferCopy(t, c, k)
          \/ \E k \in Key : RemoveCopy(t, k)
          \/ InheritHold(t) \/ InheritMerge(t) \/ Publish(t)

Spec == Init /\ [][Next]_vars

-----------------------------------------------------------------------------
Entry == [name : Name, ref : 1..MaxVars, inheritcnt : Nat]
Busy == [op : {"reading", "merging"}, ctx : Ctx, key : Key, map : Map]
        \cup [op : {"publishing"}, held : Map, copy : Map]

(* Types of the variables. *)
TypeOK == /\ owner \in [Ctx -> Thread \cup {"handler", "freed", NULL}]
          /\ varmap \in [Ctx -> Seq(Entry)]
          /\ errcode \in [Ctx -> Errors]
          /\ nvars \in 0..MaxVars
          /\ var \in Seq([by : Ctx, defined : BOOLEAN]) /\ Len(var) = nvars
          /\ tab \in [Map -> [Key -> Ctx \cup {NULL}]]
          /\ uses \in [Map -> Nat]
          /\ nmaps \in Map /\ contextmap \in 1..nmaps
          /\ pc \in [Thread -> Busy \cup {Idle}]
          /\ lock \in Thread \cup {NULL}

(* The strengthening under which the invariants are inductive.  A call that builds  *)
(* a map, and a reader if the callers lock, has the lock: the map it started from   *)
(* is still the current one, and the copy differs in one key from it.               *)
Building(t) ==
  pc[t].op = "publishing" =>
    /\ lock = t /\ pc[t].held = contextmap /\ pc[t].copy \in 1..nmaps
    /\ pc[t].copy # contextmap
    /\ \E k \in Key :
          /\ \A j \in Key \ {k} : tab[pc[t].copy][j] = tab[contextmap][j]
          /\ tab[pc[t].copy][k] # NULL \/ tab[contextmap][k] # NULL
Reading(t) ==
  pc[t].op \in {"reading", "merging"} =>
    /\ owner[pc[t].ctx] = t /\ pc[t].map \in 1..nmaps
    /\ ReadersSynchronized => lock = t
    /\ ReadersSynchronized /\ pc[t].op = "reading" => pc[t].map = contextmap
PublishedLive == \A m \in Map, k \in Key :
                    Live(m) /\ tab[m][k] # NULL => owner[tab[m][k]] = "handler"
NamedOnce(vm) == \A i, j \in DOMAIN vm : vm[i].name = vm[j].name => i = j
VariablesSound ==
  \A c \in Ctx : /\ \A i \in DOMAIN varmap[c] : varmap[c][i].ref <= nvars
                 /\ NamedOnce(varmap[c])
                 /\ owner[c] = "handler" => \A i \in DOMAIN varmap[c] : varmap[c][i].name \notin Local

(* A map a thread has picked up is not freed before the thread is done with it,    *)
(* and the contexts of a map that is not freed are not freed either: inherit reads *)
(* no freed memory.                                                                *)
SnapshotsLive ==
  /\ \A t \in Thread : pc[t].op \in {"reading", "merging"} => Live(pc[t].map)
  /\ \A m \in Map, k \in Key : Live(m) /\ tab[m][k] # NULL => owner[tab[m][k]] = "handler"

(* The use count of a map is the number of its holders - the handler, the call     *)
(* that builds or replaces it, the calls that read it - so that every map but the  *)
(* current one is freed when the calls have returned.                              *)
Holders(m) ==
  (IF m = contextmap THEN 1 ELSE 0)
  + Cardinality({t \in Thread : pc[t].op = "merging" /\ pc[t].map = m})
  + Cardinality({t \in Thread : pc[t].op = "publishing" /\ pc[t].held = m})
  + Cardinality({t \in Thread : pc[t].op = "publishing" /\ pc[t].copy = m})
MapsCounted == \A m \in Map : uses[m] = Holders(m)
MapsSound == TypeOK /\ MapsCounted

IInv == /\ TypeOK /\ MapsCounted /\ PublishedLive /\ VariablesSound
        /\ \A t \in Thread : Building(t) /\ Reading(t)

(* Variables are shared between contexts: what a published context shows stays the *)
(* same whatever the contexts that inherit from it define, fail to define or drop. *)
ViewOf(c) == {[name |-> varmap[c][i].name, value |-> var[varmap[c][i].ref]] : i \in DOMAIN varmap[c]}
PublishedIsFrozen ==
  [][\A c \in Ctx : owner[c] = "handler" /\ owner'[c] = "handler" => ViewOf(c)' = ViewOf(c)]_vars

(* A successful inherit took all variables of the published context as they are,  *)
(* and none a second time: lookups, which take the first variable of a name, and   *)
(* dumps, which take all, agree.                                                   *)
InheritTakesAll ==
  [][\A t \in Thread, c \in Ctx :
       pc[t].op = "merging" /\ pc'[t] = Idle /\ pc[t].ctx = c /\ errcode'[c] = "Ok"
         => LET from == tab[pc[t].map][pc[t].key]
            IN  /\ from # NULL /\ ViewOf(from) \subseteq ViewOf(c)'
                /\ NamedOnce(varmap'[c])]_vars

(* The published contexts are a registry with one put or drop per update, none of  *)
(* them lost, that never shows a local variable.                                   *)
View == SUBSET [name : Name, value : [by : Ctx, defined : BOOLEAN]]
Clean(view) == \A e \in view : e.name \notin Local

ASSUME ViewAssumption == \A view \in View : view # NULL

Registry == INSTANCE ContextRegistry WITH
  registry <- [k \in Key |-> IF tab[contextmap][k] = NULL THEN NULL
                             ELSE ViewOf(tab[contextmap][k])],
  View  <- View, Clean <- Clean
ImplementsRegistry == Registry!Spec
=============================================================================
