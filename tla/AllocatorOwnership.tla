-------------------------- MODULE AllocatorOwnership --------------------------
(* src/allocator.c, the ownership side: an allocator has a list of references    *)
(* to objects with a destructor (host objects; nested allocators) that it runs   *)
(* when it is destroyed.  A host object reference owns its object while its      *)
(* destroy function is set; copies of a value either alias it (destroy NULL) or  *)
(* take the ownership away from the original.                                    *)
EXTENDS Naturals, Sequences, SequencesExt, FiniteSets

CONSTANTS Alloc,   \* papuga_Allocator structures
          Ref,     \* papuga_HostObject structures
          Obj,     \* objects of the host program
          NULL,
          MaxCopies \* bound on the references existing at a time

ASSUME CopiesAssumption == MaxCopies \in Nat
ASSUME NullAssumption == NULL \notin Alloc \cup [data : Obj, destroy : BOOLEAN, home : Alloc]

VARIABLES live,       \* allocators constructed and not destroyed
          nestedIn,   \* allocator |-> the allocator whose reflist has it, or NULL
          reflist,    \* allocator |-> its references, the newest first
          ref,        \* reference |-> [data, destroy, home], or NULL when not allocated
          destroyed,  \* object |-> how often its destructor was called
          managed     \* objects given to an allocator and not released to the host

vars == <<live, nestedIn, reflist, ref, destroyed, managed>>

HostRef(r)   == [kind |-> "HostObject", id |-> r]
AllocRef(a)  == [kind |-> "Allocator", id |-> a]

(* A list of references without the first entry x. *)
Unlinked(s, x) == RemoveAt(s, CHOOSE i \in DOMAIN s : s[i] = x)

(* The allocators reached from a by running the lists: the smallest set with a *)
(* and what the members list.                                                   *)
Nested(a) == {b \in live : AllocRef(b) \in ToSet(reflist[a])}
Closed(S) == \A a \in S : Nested(a) \subseteq S
Inside(a) == {b \in live : \A S \in SUBSET live : a \in S /\ Closed(S) => b \in S}

Free == {r \in Ref : ref[r] = NULL}
Allocated == Ref \ Free

Init == /\ live = {}
        /\ nestedIn = [a \in Alloc |-> NULL]
        /\ reflist = [a \in Alloc |-> <<>>]
        /\ ref = [r \in Ref |-> NULL]
        /\ destroyed = [o \in Obj |-> 0]
        /\ managed = {}

(* papuga_init_Allocator *)
Construct(a) == /\ a \notin live
                /\ live' = live \cup {a}
                /\ reflist' = [reflist EXCEPT ![a] = <<>>]
                /\ nestedIn' = [nestedIn EXCEPT ![a] = NULL]
                /\ UNCHANGED <<ref, destroyed, managed>>

(* papuga_Allocator_alloc_HostObject with a destructor: the allocator takes o. *)
AllocHostObject(a, o, r) ==
  /\ a \in live /\ o \notin managed /\ destroyed[o] = 0
  /\ r \in Free /\ Cardinality(Allocated) < MaxCopies
  /\ ref' = [ref EXCEPT ![r] = [data |-> o, destroy |-> TRUE, home |-> a]]
  /\ reflist' = [reflist EXCEPT ![a] = <<HostRef(r)>> \o @]
  /\ managed' = managed \cup {o}
  /\ UNCHANGED <<live, nestedIn, destroyed>>

(* papuga_Allocator_deepcopy_value of a value that holds host objects: each one  *)
(* gets a reference in the destination; moving clears destroy in the original.   *)
(* Failing after some of them leaves those moved.                                *)
CopyOneKeepingOwner(b, r, new, move) ==
  /\ ref' = [ref EXCEPT ![new] = [data |-> ref[r].data, home |-> b,
                                  destroy |-> move /\ ref[r].destroy]]
  /\ reflist' = [reflist EXCEPT ![b] = <<HostRef(new)>> \o @]
CopyOne(b, r, new, move) ==
  /\ ref' = [ref EXCEPT ![new] = [data |-> ref[r].data, home |-> b,
                                  destroy |-> move /\ ref[r].destroy],
                        ![r].destroy = @ /\ ~move]
  /\ reflist' = [reflist EXCEPT ![b] = <<HostRef(new)>> \o @]

DeepCopy(b, r, new, move) ==
  /\ b \in live /\ r \in Allocated
  /\ new \in Free /\ Cardinality(Allocated) < MaxCopies
  /\ CopyOne(b, r, new, move)
  /\ UNCHANGED <<live, nestedIn, destroyed, managed>>

(* papuga_release_HostObject: the host takes the object (back). *)
Release(r) == /\ r \in Allocated
              /\ ref[r].destroy
              /\ ref' = [ref EXCEPT ![r].destroy = FALSE]
              /\ managed' = managed \ {ref[r].data}
              /\ UNCHANGED <<live, nestedIn, reflist, destroyed>>

(* papuga_Allocator_destroy_HostObject *)
DestroyHostObject(a, r) ==
  /\ a \in live /\ HostRef(r) \in ToSet(reflist[a])
  /\ reflist' = [reflist EXCEPT ![a] = Unlinked(@, HostRef(r))]
  /\ destroyed' = IF ref[r].destroy
                  THEN [destroyed EXCEPT ![ref[r].data] = @ + 1] ELSE destroyed
  /\ ref' = [ref EXCEPT ![r].destroy = FALSE]
  /\ UNCHANGED <<live, nestedIn, managed>>

(* papuga_Allocator_alloc_Allocator: b lives in the memory of a. *)
AllocAllocator(a, b) ==
  /\ a \in live /\ b \notin live
  /\ live' = live \cup {b}
  /\ nestedIn' = [nestedIn EXCEPT ![b] = a]
  /\ reflist' = [reflist EXCEPT ![a] = <<AllocRef(b)>> \o @, ![b] = <<>>]
  /\ UNCHANGED <<ref, destroyed, managed>>

(* papuga_Allocator_add_free_allocator: the structure of c is copied into a new  *)
(* nested allocator b of a; the caller does not use or destroy c any more.       *)
AddFreeAllocator(a, c, b) ==
  /\ c \in live /\ a \in live \ Inside(c) /\ nestedIn[c] = NULL /\ b \notin live
  /\ live' = (live \cup {b}) \ {c}
  /\ nestedIn' = [x \in Alloc |-> IF x = b THEN a
                                  ELSE IF nestedIn[x] = c THEN b ELSE nestedIn[x]]
  /\ reflist' = [reflist EXCEPT ![a] = <<AllocRef(b)>> \o @,
                                ![b] = reflist[c], ![c] = <<>>]
  /\ ref' = [r \in Ref |-> IF ref[r] # NULL /\ ref[r].home = c
                           THEN [ref[r] EXCEPT !.home = b] ELSE ref[r]]
  /\ UNCHANGED <<destroyed, managed>>

(* papuga_destroy_Allocator: run the reflist, nested allocators with theirs, and *)
(* free the memory, which the references live in.                                *)
Destroying(dead) ==
  LET owners == {r \in Allocated : /\ ref[r].destroy
                                   /\ \E x \in dead : HostRef(r) \in ToSet(reflist[x])}
  IN  /\ live' = live \ dead
      /\ destroyed' = [o \in Obj |-> destroyed[o] +
                                     Cardinality({r \in owners : ref[r].data = o})]
      /\ ref' = [r \in Ref |-> IF ref[r] # NULL /\ ref[r].home \in dead
                               THEN NULL ELSE ref[r]]
      /\ nestedIn' = [x \in Alloc |-> IF x \in dead THEN NULL ELSE nestedIn[x]]

Destroy(a) == /\ a \in live /\ nestedIn[a] = NULL
              /\ Destroying(Inside(a))
              /\ reflist' = [x \in Alloc |-> IF x \in Inside(a) THEN <<>> ELSE reflist[x]]
              /\ UNCHANGED managed

(* papuga_Allocator_destroy_Allocator: a nested one is destroyed and unlinked. *)
DestroyAllocatorNotUnlinking(a, b) ==
  /\ a \in live /\ AllocRef(b) \in ToSet(reflist[a])
  /\ Destroying(Inside(b))
  /\ reflist' = [x \in Alloc |-> IF x \in Inside(b) THEN <<>> ELSE reflist[x]]
  /\ UNCHANGED managed

DestroyAllocator(a, b) ==
  /\ a \in live /\ AllocRef(b) \in ToSet(reflist[a])
  /\ Destroying(Inside(b))
  /\ reflist' = [x \in Alloc |-> IF x \in Inside(b) THEN <<>>
                                 ELSE IF x = a THEN Unlinked(reflist[a], AllocRef(b))
                                 ELSE reflist[x]]
  /\ UNCHANGED managed

Next == \/ \E a \in Alloc : Construct(a) \/ Destroy(a)
        \/ \E a \in Alloc, o \in Obj, r \in Ref : AllocHostObject(a, o, r)
        \/ \E b \in Alloc, r, new \in Ref, move \in BOOLEAN : DeepCopy(b, r, new, move)
        \/ \E r \in Ref : Release(r)
        \/ \E a \in Alloc, r \in Ref : DestroyHostObject(a, r)
        \/ \E a, b \in Alloc : AllocAllocator(a, b)
        \/ \E a, b \in Alloc : DestroyAllocator(a, b)
        \/ \E a, b, c \in Alloc : AddFreeAllocator(a, c, b)

Spec == Init /\ [][Next]_vars

-----------------------------------------------------------------------------
(* Types of the variables. *)
Reference == [kind : {"HostObject"}, id : Ref] \cup [kind : {"Allocator"}, id : Alloc]
TypeOK == /\ live \subseteq Alloc
          /\ reflist \in [Alloc -> Seq(Reference)]
          /\ nestedIn \in [Alloc -> Alloc \cup {NULL}]
          /\ ref \in [Ref -> [data : Obj, destroy : BOOLEAN, home : Alloc] \cup {NULL}]
          /\ destroyed \in [Obj -> 0..1]
          /\ managed \subseteq Obj

Owners(o) == {r \in Allocated : ref[r].destroy /\ ref[r].data = o}

(* An object that an allocator has taken and that is not destroyed has exactly one *)
(* owner, and the owner is on the reflist of the allocator whose memory it is in,  *)
(* so that the object is destroyed, once, with that allocator.  An object the host *)
(* has got back, or that is destroyed, has no owner left.                          *)
OwnedOnce ==
  \A o \in Obj :
    IF o \in managed /\ destroyed[o] = 0
    THEN \E r \in Allocated : /\ Owners(o) = {r}
                              /\ ref[r].home \in live
                              /\ HostRef(r) \in ToSet(reflist[ref[r].home])
    ELSE Owners(o) = {}

(* A live allocator's reflist names only references and allocators that exist, in  *)
(* its own memory, each once, and every nested allocator is listed by its parent:  *)
(* running the list never touches freed memory and reaches everything.             *)
ReflistsInOrder ==
  \A a \in live :
    /\ IsInjective(reflist[a])
    /\ \A x \in ToSet(reflist[a]) :
         IF x.kind = "HostObject" THEN ref[x.id] # NULL /\ ref[x.id].home = a
         ELSE x.id \in live /\ nestedIn[x.id] = a
    /\ nestedIn[a] # NULL => AllocRef(a) \in ToSet(reflist[nestedIn[a]])
ReflistsSound == TypeOK /\ ReflistsInOrder

(* The memory of a reference, and of a nested allocator, is that of a live one.   *)
MemoryLive == /\ \A r \in Allocated : ref[r].home \in live
              /\ \A a \in live : nestedIn[a] # NULL => nestedIn[a] \in live

(* The inductive invariant. *)
IInv == ReflistsSound /\ OwnedOnce /\ MemoryLive
=============================================================================
