# papuga in TLA+

papuga maps requests (JSON or XML documents) to calls of methods of host objects and
generates language bindings (Lua, PHP, Python) for the same classes. This directory is a
verification development of its run time part: TLA+ modules translated from the C and C++
sources, TLC configurations that check them on small instances, and proofs for TLAPS.
All paths are relative to the root of the repository; `PROJECT.json` names, for every
definition of every module, the lines it stands for.

    tlc -workers 2 -config MCRequest.cfg MCRequest        # check one run
    tlapm SerializationProofs.tla                         # check the proofs of a module

## 1 Inventory

### How the parts interact

    document --> schema, or XML/JSON reader --> serialization --> XML/JSON printer --> document
    document --> request parser --> feed_open_tag, feed_attribute_name, ... --> automaton context
                                                                               |  values, structures,
    description --> request automaton (compiled) -----------------------------+  calls found, by scope
                                                                               v
                          request context <--- execute_request <--- request iterator (next call,
                    (variables, inherited       |       |            arguments resolved)
                     from the handler's map)    |       +---> methods of host objects
                                                v
                                     request results (templates) --> serialization --> JSON, XML, text
    all of them allocate from an allocator, which also owns the host objects

    Lua script (coroutine) -- send/yield --> Lua request handler <-- run/answer -- host loop

Everything runs in the thread of its caller. Two threads meet in one place only: the map
of published contexts of a request handler. Asynchrony without threads: a Lua script and
its host alternate, and an iterator over a serialization stays where it is while the
serialization is written on.

### Components

State, operations, what is hard, and what makes the component correct.

| component | state | operations | hard | correct if |
|---|---|---|---|---|
| serialization (`src/serialization.c`) | list of chunks of nodes, list of released chunks, iterators into them | push, release_tail, iterator first/last/end/skip/follow_tag | a chunk moves between two lists; iterators survive writes; an array undone and written again as a map, nested | no chunk in two lists or lost; only the last chunk has room; iterators point to live nodes; it behaves as a sequence |
| serialization conversions (`serialization*.cpp`) | none (functions) | JSON, XML, text to and from a serialization | nesting, structures told from arrays | what is written reads back |
| stack (`src/stack.c`) | nodes, fill sizes, count | push, pop, top, top_n | a node emptied stays on top | last in, first out, across nodes |
| allocator, memory (`src/allocator.c`) | nodes of memory, fill sizes | alloc, shrink_last_alloc, destroy | alignment, root node replaced, malloc failing half way | blocks disjoint, aligned, inside |
| allocator, ownership (same file) | list of references | host objects, nested allocators, deep copy that moves, handing over an allocator | aliases, moving, destroying in any order | one owner, destroyed once |
| request automaton (`src/request.cpp`) | compiled triggers; scopes, values, structures, calls found | feed_*, done | scopes nested in each other, priorities applied later, values waiting for their scope | what is found belongs where it occurred; the prioritized call wins |
| request iterator (same file) | one position per item, shared by all references; next call | nextCall, push_call_result | the position moves back and forth through nested references; error reported later | arguments are what the references stand for |
| request result (`requestResult*`) | templates filled by the document, references with scopes | result instructions, push_call_result, get_result_array | results arrive after the document, in the order of calls | each result where its scope is |
| automaton description (`requestAutomaton.cpp`, build API of `request.cpp`) | definitions, ids | add_*, done | ids of groups and items, redefinitions | the automaton is the description |
| request context and handler (`src/requestHandler.cpp`) | variables, map of contexts, schemas, methods | create, define, inherit, transfer, remove, execute_request | map copied on update and read without a lock; variables shared between contexts; conflicts | published contexts frozen, no update lost, nothing freed in use |
| Lua request handler (`src/lua/luaRequestHandler.cpp`) | coroutine, requests sent, answers, schemas used | run, get_delegateRequest, init_result, init_error | indices relative to a run; requests over many yields | each answer to its request, once, before the script goes on |
| request parser (`requestParser*`) | parser stack, current tag | init, next | attribute, content and tag order; documents cut off; encodings | events nest, and are the same for JSON and XML |
| schema (`schema.cpp`) | compiled schema, stacks of alternatives and arrays while mapping | compile, parse | alternatives, recursion, arrays that go on | what is mapped is declared; what is declared is mapped to its structure |
| schema description (`schemaDescription.cpp`) | tree of the elements that expressions tell | add_element, add_relation, add_dependency, set_resolve; done, print | an element becomes a structure after it was a value; elements at any depth become global, what stands for them references | every value of the automaton is told in its place with its type, in whatever order it is defined |
| value variant, markup (`valueVariant*`) | none | conversions, printing | number ranges, encodings | no value changes |
| bindings (`src/lua`, `src/php7`, `src/python3`) | the interpreter's | convert, call | nested tables, half done conversions | host values are what the script had |
| generators, encodings, error tables | none | - | - | - |

`PROJECT.json` lists them with what is modelled of each, and the hazards, each at its line.

## 2 Modules

| module | models | builds on |
|---|---|---|
| `SerializationSeq` | what a serialization promises: one sequence, marks, a reader | |
| `Serialization` | the chunk lists and iterators | refines `SerializationSeq` |
| `SerializationProofs` | its invariants, and that it implements `SerializationSeq`, proved | `Serialization`, TLAPS |
| `LifoStack`, `PapugaStack` | a stack, and the stack in nodes | the second refines the first |
| `PapugaStackProofs` | the theorems about it, the refinement included | `PapugaStack`, TLAPS |
| `AllocatorMemory`, `AllocatorMemoryProofs` | blocks cut off nodes; its theorem | |
| `AllocatorOwnership`, `AllocatorOwnershipProofs` | references, host objects, nested allocators; its theorems | |
| `ContextRegistry`, `RequestContext` | a registry, and contexts in a map copied on update | the second refines the first |
| `RequestContextProofs` | the theorems about it, the refinement included | `RequestContext`, TLAPS |
| `Expressions` | the path expressions of an automaton, and what they select | |
| `AutomatonDescription` | the build API of an automaton | extends `Expressions` |
| `SchemaDescription` | the description of a schema, a tree filled by expressions and finished | extends `Expressions` |
| `AutomatonBuilder` | the nested description in C++ added to an automaton and to the description of its schema | extends `AutomatonDescription`, `SchemaDescription` |
| `AutomatonBuilderProofs` | the theorems about the order of the calls | `AutomatonBuilder`, TLAPS |
| `AutomatonContext` | a document fed to an automaton; the properties of what is found | extends `Expressions` |
| `CallSequence` | the calls of the document in the order they are executed | extends `AutomatonContext` |
| `CallExecution` | the calls executed, their results in variables and templates, whatever the arguments are | extends `CallSequence` |
| `RequestProofs` | the theorems about what is found in a document and what becomes of it | `CallExecution`, TLAPS |
| `RequestIterator` | the arguments of the calls resolved | extends `CallSequence` |
| `RequestMeaning` | what references stand for, defined without resolvers; the property | extends `RequestIterator` |
| `RequestBuilding` | automata built and then fed, composed; what a description means; the properties | extends `RequestMeaning`, `AutomatonBuilder` |
| `LuaRequestHandler`, `LuaRequestHandlerProofs` | script, handler and host; its theorems | |
| `RequestExecution` | a request: the calls executed with their arguments, and the results printed | extends `RequestIterator`, `CallExecution` |
| `Document` | documents, the events the request parsers make of them, tokens of a serialization | |
| `SchemaMap` | a schema compiled to select expressions | |
| `SchemaMapping` | a document mapped with them | extends `Document`, `SchemaMap` |
| `SchemaMeaning` | what a schema says of a document, defined on the trees; the properties | extends `SchemaMapping` |
| `XmlSerialization` | an XML document read without schema | extends `Document` |
| `Markup` | a serialization printed as JSON and XML, and read from JSON | extends `Document` |
| `DocumentConversion` | the ways of a document in and out, composed; the properties | extends the three before |
| `MC...` | instances for TLC | |

### Serialization

`chain` is the list head..current linked by `next`, `freelist` the released chunks, `size`
and `ar` what is in a chunk (a chunk on the freelist keeps its old nodes, as in the code:
`ar` starts as `Garbage`). `Push` is `alloc_node` and the assignment of the node, in three
disjuncts: room in the current chunk, a chunk reused, a chunk allocated. A failed
allocation changes nothing and is no step. `ReleaseTail` is
`papuga_Serialization_release_tail`. Its callers are the bindings: `serialize_node` marks the end, writes a
table as an array and, when a key turns out not to be the next index, releases what it has
written and starts again as a map: `Enter`, `Restart`, `Leave`, nested in `marks`.
An iterator is a record of the chunk, the position, the tag it read there and whether it
is at the end; `reader` is an iterator of a consumer that may read while the writer writes.

Restriction: `Restart` is taken only if something was written since the mark, as in the
bindings. Called with a position that is the first of a chunk, `release_tail` would leave
an empty chunk at the end of the list, over which iterators fall (`serialization.c:186`);
the bindings mark with `IterEnd`, which is never the first position of a chunk but the head's.
That is part of the invariant `MarksLive`, and proved.
A reader behind the mark is given up by `Restart`, as the bindings have none there; that is assumed, not checked.

### PapugaStack

`nodes` from the first to the top with their memory and fill size, `size`, and what the
last pop returned. `Pop` frees the emptied nodes above the last element first
(`Trimmed`), then takes the element, and leaves the node on top even if it is empty now.
`Contents` is the stack the nodes stand for: its k-th element is found by the sizes of the nodes, the first of
which is the caller's buffer (`NodeOf`, `SlotOf`).
`StackTop` and `TopN` are the two readers, with the address they compute.
`papuga_Stack_top_n` compares its unsigned count with 0 only when it goes from a node to the
next one, so it is exact at the borders of nodes and for all elements, which is what the Python
binding asks for (`TopNOfAllCorrect`); for a number in between it counts below 0 and writes
before the buffer. No caller in the repository does that.

### AllocatorMemory, AllocatorOwnership

The first has addresses modulo the maximal alignment and offsets in nodes; sizes are scaled
down. `Alloc` has three outcomes: in the root, in a new root, and malloc failing after the
old root was pushed down, which leaves a root without memory. The test of the room in the root wraps
modulo the range of unsigned int, as in the code. The size of a new node is the first of `NodeSizes` that is big
enough: the code doubles it until it is, and for more than half of that range it would double for ever. `MAXBLOCKSIZE`
is meant to refuse such a request, but `1<<31` is negative as an int and the comparison never holds
(`allocator.c:191`, `allocator.c:208`); that requests stay below it is `CallerAssumption`.
The second has the reference lists. A `papuga_HostObject` lives in the memory of an
allocator (`home`), so it is gone with it. `DeepCopy` copies one host object reference, with
or without moving the ownership; a copy of a serialization that fails half way is a number
of such steps followed by none. Destroying an allocator destroys what is nested in it to any depth:
`Inside` is the smallest set of allocators closed under the lists of references. The caller's obligations are guards: an allocator given to
`add_free_allocator` is not used any more; an object released to the host is not destroyed
by the host twice.

### RequestContext

`varmap` is the list of variables of a context, each a name, a reference to a shared
variable and how often it was inherited; `Kept` is the list without those that removing local variables or
merging leaves out, in their order. The map of contexts is `tab[m]`, with the use
count of its `shared_ptr`; `contextmap` is the one the handler has. An update is two steps,
`TransferCopy` or `RemoveCopy` and `Publish`; an inherit is three, reading the pointer (`InheritRead`),
counting the reference (`InheritHold`), merging and dropping (`InheritMerge`), since a copy
of a `shared_ptr` that another thread assigns is not atomic.
`include/papuga/requestHandler.h` asks the caller to synchronize writers.
`ReadersSynchronized` says whether the callers lock `papuga_RequestContext_inherit` too. With
FALSE (set in `MCRequestContext.cfg`), TLC finds `SnapshotsLive` violated: the pointer is read, the map is replaced and freed,
the reference is counted in freed memory. The comment at `requestHandler.cpp:377` says that the
copy avoids a lock on read; the load at `requestHandler.cpp:506` is not atomic. The checked
runs have TRUE. So what `SnapshotsLive`, `MapsSound` and `ImplementsRegistry` show is the counting of the
maps and that each update is one of the registry, under the lock; two updates at once, of which one
would be lost, are excluded by it.

A transfer that fails before the entry of the map is there leaves the context, without its local variables, to
the caller (`TransferFails`); if the reference of the entry cannot be allocated the context is deleted
(`TransferDeletes`), and the caller, who gets the same answer, must not destroy it. A caller that does is not modelled.

### AutomatonDescription, SchemaDescription, AutomatonBuilder, RequestBuilding

`AutomatonDescription` is the part of `AutomatonDescription` in `request.cpp` that papuga_RequestAutomaton_*
of `request.h` calls: `AddCall`, `SetCallArg`, `PrioritizeLastCall`, `AddStructure`, `SetMember`, `AddValueDef`,
`OpenGroup`, `CloseGroup`, `AddResultDescription`, `Describe` (done). Each is one action that checks in the order of the code
(`FirstError`), leaves the first error and returns false (`succeeded`), or adds. A call gets the number
of calls before it as its place in the order of execution, or, in a group, a number shifted behind all of those
(`VirtualGroupId`), which `Describe` replaces by the number of calls there were when the group was opened.

`SchemaDescription` is what `papuga_SchemaDescription_*` keep: `tree` has a node for each place, which is the sequence of names
on the way to it (an attribute is named `@`, the content beside attributes has no name). `Added` is `addSubTree`: it
takes the `Steps` of an expression one by one (`TakeStep` is `addElement`, `FollowContent` and `FollowEnd` are the ends of
`addFollow`), sets what must not change (`SetUnique`) and goes no further after an error, but what it added before stays.
`Finish` is done: the resolve types that relations tell (`Updated`), the elements below `//` made children of the root
(`Globals`, `Moved`; such a child is under `//` in the model), references in place of nodes that stand for them
(`Referring`), and the check of the tree. All operations work on a copy of the tree (`Work`), in the order of the code.

`AutomatonBuilder` is the constructor of `RequestAutomaton` in C++: `todo` is the rest of what it goes
through, nodes and the operations that a node is made of; one action for each kind of node and each
operation. What a node adds to the description of the schema is added by the actions `Describe...` between those of the
build API, as in the code. The first operation refused, by the automaton or by the schema, ends it with an exception. `keyset` refuses a second structure or value
with the same expression and item.

`RequestBuilding` puts building and feeding together: `CreateRequest` takes the automaton built, and everything of
`RequestMeaning` is checked on it. What a description means is defined on its tree (`Leaves`, `MeantCalls`, ...) and
`Acceptable` is what a description without fault is; `BuiltAsDescribed` says that exactly those are built,
and to that meaning, unless the schema refuses them, which it does for the reasons in `Doubtful` only.
`SchemaAsDescribed` is about the schema of a description that is built: where a value is to be found in it (`ValuePlaces`)
is defined on the expression alone. It has one exception, `Shadowed`, which is listed below under what was seen. `CallOrderDefined` is about the places of the calls.

Reductions: an expression is a path of tags, from the root or not, with an attribute, a content or neither at
its end; `//` may stand before any tag. Numbers of items are in range, a method is known or
"unknown" instead of looked up in the tables of classes; syntax errors of textwolf are left out. In the description of the
schema, conditions (`[...]`), alternatives (`{a,b}`) and examples are left out, an attribute never has the name of an
element, and the tree is not printed; a tree of which done failed is used by nobody and kept as it was. The elements of a result have complete expressions.

### AutomatonContext, CallSequence, RequestIterator, RequestMeaning

An automaton is a record: values, structures, calls, priorities by kind. Every
action of `AutomatonContext` is one `feed_` function: it counts up `scopecnt`, keeps the
stack of scopes, and fires the triggers selected by the path of the element. What they find: values
waiting for their scope (`valuenodes`, for `m_valuenodes`), the
values and structures of each item ordered by scope (`scopeobjmap`), calls (`methodcalls`, sorted into `callorder`
by `Done`). `CloseTag` fires the
triggers in the order of the code's stacks: collect, close structure, call, prioritize. Two
triggers of one kind have no order in the code but the one textwolf reports them in. It makes a difference for
priorities only, so these are taken in any order (`Prioritized`); otherwise the loops over
triggers and lists are written as the set they leave: of the triggers for one item that end in a scope the first takes
the value waiting (`Collected`, `LeftPending`), the objects of an event have one key and go into the list behind all
that are not greater (`Inserted`), going back in the calls until the first one that started before the scope reaches
the calls such that none closed as late or later started before it (`ReachedBack`). The calls are a set since no two of them
have call and scope in common.

`CallSequence` is the state of the iterator and which calls it takes next (`Together`: one, or the assignments to one
variable that follow each other); `RequestIterator` resolves their arguments. `resolvers` is one position per item, kept from one
reference to the next; the helpers `Positioned`, `NearInside`, `NearCovering`,
`NextSameScope`, `NextInside`, `NextCovering` are the loops of `request.cpp:2150-2340` written as the
position they stop at. `ResolveItem`, `AddResolved`, `BuildStructure` and `ArrayElements` are
mutually recursive, as the code is. `NextCall(have)` is `RequestIterator::nextCall`; `have`
tells which of the variables referenced exist, which depends on the calls executed before:
any set of them here, those made so far in `RequestExecution`.

`RequestMeaning` defines independently what a reference stands for: the outermost scopes
of the item in the scope of the call for a single or an array reference, the innermost
covering one for an inherited one. `ArgumentsAsDefined` compares the two for every call of every
document. It has the precondition `Gapless`, no undefined value before another object of the
item, because what follows an undefined value is lost (run `request_array`).

Reductions: the expressions of textwolf (external, an empty submodule here) are paths of
elements from the root or from anywhere, with one attribute and the content; a value is
represented by the count of the event that brought it; the conversion of a value to a string
does not fail; events for inherited contexts are not fed yet.

### CallExecution, RequestExecution

`papuga_RequestContext_execute_request` over the calls of `RequestIterator`. `CallExecution` has all of it but the
resolving: `ExecuteWith(r)` and `FinishWith(r)` take what the references were resolved to as a parameter, which `RequestExecution`
works out with `NextCall` and `CallsSpec` leaves open (`Resolution`). So the theorems can be about calls without the recursive operators
of the resolving. While the document is fed,
`FeedOpenTag` and `FeedCloseTag` add what the triggers of results fire: `templates[t]` are the nodes
(`m_ar`) of a `RequestResultTemplate`, with scope and level for the references among them. `Execute`
(`Perform`) is one turn of the loop, `[A]` assignment, `[B]` constructor, `[C]` method as the comments of
`requestHandler.cpp` name them; each ends in an error (`Breaks`), a variable (`Assigns`) or the
templates (`Pushes`). The outcome of a call is up to the host: it fails, or gives nothing, a value
or an object. The value is the number of the call, so that the history `returned` says later which
results should be where. The error of a push is kept in the iterator and looked at in `Finish`
only, as in the code. `Finish` resolves the input references with the resolvers as the calls left
them, and prints: the nesting of the output is kept, names are not.

textwolf is taken to report the triggers of an element in an order that the event stack, which
pops the last first, turns into that of `addResultDescription`: opening and values before closing.
The tests of the repository expect that. The memory of the variables is not modelled here:
replacing a variable frees the value it had, to which an argument of the same call may still refer
(`requestHandler.cpp:864`).

### LuaRequestHandler

`delegate` are the requests sent, each with its answer; `start` the first one of the
current run. `Run` hands the control to the script, `Send`, `Content`, `Yield`, `Raise`,
`ReturnValue` are what a script can do, `Answer` the host's loop of
`tests/luarequest/src/testLuaRequest.cpp:491-524`, which executes the requests by their index
in this run and hands over a result or an error. An error with an empty message is not seen by the
host (`Raise(TRUE)`), which then runs a dead coroutine.

### Document, SchemaMap, SchemaMapping, SchemaMeaning

A document is a tree of elements with attributes and a text or children. `XmlItems` is what the
scanner reports (external), `XmlParsed` what `RequestParser_xml::getNext` makes of it: it counts
open tags, so a document that is cut off is refused and nothing else is noticed. A client writes
the same document as JSON (`JsonTree`, external), with `-x` for attributes, `#text` for a text next to
them and arrays for siblings of one name, and texts true and false as JSON literals; `JsonItems` is `getTextwolfItems_`.
A literal becomes a boolean of the serialization, as the only content of the root nothing (`serialization_json.cpp:124`).

`Expressions` is `buildSelectExpressionMap`: for each member of a definition a path with what to do
on the opening, the content and the closing of the element. A reference to a definition starts a new
path, `//name`, below which the members of all its alternatives are expanded, once (`visited`). `Compiled`
is `addOperation`, which unites the masks of equal expressions: a mask is the set of alternatives
(positions of definitions; bits in the code) that declare the element. `Matches` is the automaton of
textwolf (external): a path against the names of the open elements.

`SchemaMapping` is `papuga_schema_parse`: `CreateSchemaMap`, `ParseRequest` (the whole document
is read into `request` first), then `Operate`, `Ignore`, `Undeclared` or `Ambiguous` for each of its
elements, with one disjunct of `Perform` for each operation of the code. `setStack` and `arrayStack`,
`arraytag` and `consumed` are those of `serializeRequest`.

`SchemaMeaning` says independently what a schema declares, walking the tree of a document together
with the tree of the schema: `RootDeclared`, and what is to be written: `Meaning`. `Refusable` and `Misleading` name
the cases in which the select expressions do not do what the schema says (see below); they are
preconditions of `DeclaredIsAccepted` and `AcceptedIsDeclared`.

### XmlSerialization, Markup, DocumentConversion

`XmlSerialization` is `papuga_Serialization_append_xml`, one action for each kind of event of the scanner.
`GetArrays` is the first pass, `siblings` the `m_arrayStack` of the second, `structure` the `Structure` that is
written with the next event (`Flushed`). `Markup` prints a serialization: `PrintedJson` gives
the tree that the text printed stands for, `ToXml` the marks written one after the other (tags with the attributes they got,
texts). It goes along the members in their order (`XmlMembers`); an attribute goes into the mark written last if that is a tag that can be
opened again (`Reopenable`), a closing one too, and is an error otherwise, behind an empty tag. `Printable` is where the code throws because of the nesting. `FromJson` is
`papuga_Serialization_append_json`. `DocumentConversion` puts them together: a document comes in
by a schema, as XML or as JSON, and the properties say what comes out if it is printed and read back. A client may write the
attributes of a JSON object before or after its other members (`Writings`). `PrintedIsDocument` is about documents whose
attributes come first (`AttributesLead`). For the others it is wrong: with `INVARIANT AttributesInOpeningTags` in
`MCDocuments.cfg` TLC finds `{"q":{"a":{"-x":"1"},"-x":"1"}}`, which is printed with `</a x="1">` and without an error
(`valueVariant_markup_xml.hpp:171`).
`XmlMeaning` is the meaning of an XML document, defined on the tree without passes and positions.

## 3 Runs

Deadlock checking is off where the system may stop: a document ends, a context is
published, the bound is reached. The run `stack` checks it.

| run | module | expected | properties | shows |
|---|---|---|---|---|
| `serialization` | `MCSerialization` | pass | `ChunksAccounted`, `ChainPacked`, `MarksLive`, `ReaderOnLiveNode`, `ImplementsSeq` | A serialization written by a binding that backs out of nested arrays, and read by an iterator, keeps its chunks disjoint, packed and reusable and behaves as one sequence of nodes. |
| `stack` | `MCPapugaStack` | pass | `ReadersCorrect`, `ImplementsLifo` | Pushes and pops over several nodes, with and without emptied nodes on top, behave as one stack, and its top and all its elements can be read. |
| `allocator_memory` | `AllocatorMemory` | pass | `BlocksSound` | Whatever blocks are allocated, shrunk or refused, blocks are aligned, inside their node and disjoint. |
| `allocator_ownership` | `MCAllocatorOwnership` | pass | `OwnedOnce`, `ReflistsSound` | Host objects copied, moved, released and destroyed over several allocators, nested and handed over, have one owner and are destroyed once. |
| `request_context` | `MCRequestContext` | pass | `SnapshotsLive`, `MapsSound`, `PublishedIsFrozen`, `InheritTakesAll`, `ImplementsRegistry` | Two threads publish, remove and inherit contexts under the callers' lock while they define variables of their own: no map or context is freed in use, no update is lost, what is published never changes, and a context has after inheriting what it should, conflicts and redefinitions included. |
| `request` | `MCRequest` | pass | `BuiltAsDescribed`, `SchemaAsDescribed`, `CallOrderDefined`, `ScopesLaminar`, `ValuesCollected`, `PrioritizedWins`, `CallsKept`, `ArgumentsAsDefined` | Descriptions of automata, faulty ones and all short lists of ten nodes and of sixteen others, are built or refused as they say, groups and the description of the schema included; every document up to ten events is fed to two of the automata built: what is found, which calls remain after prioritizing, and that the calls issued have the arguments their references stand for. |
| `request_array` | `MCRequest` | violation | `ArrayIsComplete` | An array loses the element after one that is undefined. |
| `request_inherited` | `MCRequest` | violation | `InheritedIsFound` | An inherited item in an including scope is not found if a closed element with the item comes before the call. |
| `request_execution` | `MCRequestExecution` | pass | `ResultsInScope`, `AmbiguityReported`, `ResultsWellNested`, `ObjectMadeBefore`, `IteratorErrorStays` | Every document up to ten events is fed and executed for three automata, with any outcome of the calls of the host: the results get into the templates where they belong, and what is delivered is well nested. |
| `request_results` | `MCRequestExecution` | violation | `ResultsAreNonEmpty` | If a template is not touched by the document the ones after it are not delivered, but this one and those before them. |
| `lua_request_handler` | `LuaRequestHandler` | pass | `ResumedWithAnswers`, `StructureMappedAsRead`, `YieldedAreAnswered` | A script that sends requests and yields over several runs goes on only with the answers to all it sent, however the host counts them, and its result is mapped by the documents it read. |
| `documents` | `MCDocuments` | pass | `ParsedIsDocument`, `StacksFollowDocument`, `AcceptedIsDeclared`, `MappedAsDeclared`, `DeclaredIsAccepted`, `ReadAsDocument`, `PrintedIsDocument`, `JsonIsReadBack` | Every document of a few elements with three names, as JSON and as XML cut off anywhere, mapped by ten schemas in the manner of the tests, or read without a schema: what is mapped is declared and is written as the schema says, the stacks of the mapping follow the document, and what was read is printed as the same document again. Chains of elements at the limit of depth, and attributes written first or last, are among them. |

Bounds, and why they are enough:

* `serialization`: three chunks of two nodes, two nested frames. A push, a release and a
  reuse need a chunk in the list, one released, one free; releasing two chunks at once,
  with one on the freelist before, is possible.
* `stack`: a buffer of one element, nodes of two, five elements: three nodes,
  the first of a different size.
* `allocator_memory`: sizes 0 (allowed without alignment), below, at and above what a buffer and a standard block take,
  alignments none, 1, invalid, medium, maximal, too big; addresses aligned and not; a node doubled up to the limit.
* `allocator_ownership`: three allocators (two nested in one, or two levels), two objects, three references.
* `request_context`: two threads, three contexts, two keys, three names of which one is local:
  one thread replaces and removes what the other one inherits; a context inherits from two, with
  variables of its own. A variable that could not be defined counts for two in the bound
  (`FailuresBounded`); names that are not local are symmetric.
* `request`, descriptions: all lists of up to three of ten nodes (calls, a constructor, an assignment, groups
  with and without calls, one of them nested in a list, the same value written in two ways), and faulty ones after each of the ten;
  four calls, two arguments and one result are allowed, so that each limit is passed. Two descriptions with
  all kinds of nodes are built and fed. For the schema, all lists of three of sixteen nodes that meet in a few places: content and
  attribute of one element, `//` in front and below, one name below `//` in two places, values for the schema only, structures, calls
  and resolve types on them before and after.
* `request`: every document of up to ten events, depth three, two tags; that reaches a
  structure with an array of two elements, an array of structures of which one lacks a required member, an element in a prioritized element in another
  one, an attribute inherited over one level. Two structures for one item in one scope are not among the automata: the second could
  be resolved after the first failed, with its error still set (`request.cpp:2600`). Shorter bounds lose those cases; the runs for violations
  have small automata and need eight to ten events.
* `request_execution`: every document of up to ten events and depth two, which has room for a
  constructor and two elements with a method and one value between them; three automata: lists of
  results with an array that is closed and goes on; a single result given twice or missing and an
  object that is lost; an object assigned to another variable. Inherited variables may be objects.
* `documents`: all trees with up to three elements below the root, each empty or with a value, with four
  elements and values and nothing in an `x`, with five elements of two names that start with an `a`; all pairs of elements with the values that
  tell the types apart; attributes on two levels. XML documents end at every position. Ten
  schemas after the patterns of `tests/schema/schema`: alternatives, recursion, arrays of named and
  inline structures in each other, a type in two places, attributes. Two elements of an array with an array in each need
  five elements; chains of elements reach and pass a recursion limit of 5 instead of 200. The attributes of a JSON object come
  first or last.
* `lua_request_handler`: five requests instead of 256, so that the limit is reached, over
  any number of runs; two types of documents.

Fairness is assumed in one run only. `LuaRequestHandler!FairSpec` has weak fairness for the
host's `Run` and `Answer`: the host's loop does nothing else until the handler returns
(`tests/luarequest/src/testLuaRequest.cpp:491-524`). Nothing is assumed of the script, which may
loop forever; the property is about requests sent before a yield.

### What the failing runs show

Three runs check what a header says and find that the code does something else:
`request_array` (`request.h:133`, `request.cpp:2602`), `request_inherited` (`request.h:132`,
`request.cpp:2218`), `request_results` (`request.h:486`, `request.cpp:1996`). `PROJECT.json` quotes
the lines.

Seen while modelling, without a run of their own:

* `papuga_Stack_top` after a pop that emptied the top node takes the offset from the empty node
  (`stack.c:110`); nothing in the repository calls it. `TopIsLastPushed` leaves out this case.
* With a scope like `//a` an element closed inside another one takes also the values that the outer
  one had before it (`request.cpp:1494`); the automata of `request` have scopes that do not nest in
  themselves.
* Building: a group opened again under the same number moves all calls of that number to the place of the last opening
  (`request.cpp:597`), so that they can get behind or to the same place as calls defined between; negative numbers of groups are not
  shifted far enough to be recognised by `done`. Prioritizing, groups, inheritance, results and assignments of the
  environment are accepted after `done`, which `request.h:299` excludes.
  `RequestAutomaton_FunctionDef::addToAutomaton` ignores that prioritizing failed (`requestAutomaton.cpp:68`); `addFunction` ends its list of arguments at item 0
  (`requestAutomaton.cpp:555`); `setResolve` asks the automaton for the error of the schema description
  (`requestAutomaton.cpp:621`). A member set to a variable can be set again (`request.cpp:498`). An argument may not have an
  unlimited reach, a member may (`request.cpp:349`, `request.cpp:456`). An eighth assignment of the environment
  leaves their array without its end (`request.cpp:731`).
* The description of a schema: of the elements below `//` with one name in different places and one id (or none), the later are dropped
  with all that is in them (`schemaDescription.cpp:797`, `Shadowed`); with different ids the description is refused. An element
  that has only something below `//` in it is emptied and then refused as undefined (`schemaDescription.cpp:825`).
  A resolve type that differs from one given before is always refused, although the code for some pairs
  assigns one first: an `else` is missing (`schemaDescription.cpp:348`). A dependency of a call is dropped if its element is not
  a structure yet (`schemaDescription.cpp:465`), so it depends on the order of the description. If an attribute is told before the
  content of an element, the content gets the id, and a relation that makes the element an array does not
  find it (`schemaDescription.cpp:570`, `schemaDescription.cpp:610`). `//` nested in an element of the root with the same name gives two children of one name.
* Mapping by a schema: a member `{integer}` gives name, open and close once more for each value
  (`schema.cpp:1342`, used in `tests/schema/schema/query.psm:66`); an empty element of an atomic type gives a
  name without value; a truth value is written as a number and an integer loses its sign (`schema.cpp:320`).
  `MappedPlain` leaves these out.
* A type reached again through a member of another name, the second element of an array of named
  structures inside a named structure of another type, and an element matched by two `//name` are refused
  although declared (`Refusable`; the last in `tests/schema/schema/query.psm:91-102`). A value, or
  an inline structure, with the name of a named structure around it takes the members of that one
  (`Misleading`); members of several alternatives can be mixed.
* `papuga_schema_parse` does not destroy its allocator on success, `papuga_create_SchemaMap` leaks when parsing fails.
* Reading XML: an array inside of the first element of another array is noticed before that one, which is
  then not recognised as array; the output is not balanced (`ArraysFoundInOrder`). The test
  `*len > bufsize` lets one array too many in (`serialization_xml.cpp:118`). A text next to attributes
  gets an empty name, which cannot be printed as XML.
* Reading JSON drops a null in an array, and a literal that is the only content of the root; printing XML drops every null. An attribute after
  an empty structure makes printing XML fail, after another member it is printed into its closing tag (`AttributesInOpeningTags`).
* Resolvers are shared by nested arrays of the same item (`request.cpp:2618`).
* An optional item is skipped after an undefined occurrence (`request.cpp:2504`).
* A second occurrence is not reported when a structure refers to the same item (`request.cpp:2527`).
* `papuga_Stack_top_n` and `release_tail` as described above.

## 4 Proofs

TLAPS proves for every value of the constants what the runs show on small instances. Of the 39 properties of the passing
runs, 20 of the 32 invariants and 5 of the 7 others are stated by a theorem. Each proof module has the same shape: facts about the data
(sequences, numbers of slots, cardinalities), `Init => IInv`, a lemma per action for `IInv /\ action => IInv'`, then the theorems. `IInv` is stated
in the module of the component (that of AutomatonBuilder in its proofs); TLC found every one of them invariant on the
instance of the run.

| theorem | in | property | establishes |
|---|---|---|---|
| `InductiveInvariant` | `SerializationProofs` |  | The invariant that is inductive for every size of chunks: the conjuncts below and what they need of marks and readers, preserved by every step. |
| `TypeCorrect` | `SerializationProofs` |  | Every state of a serialization, its free list, marks and iterators is well typed. |
| `ChunksAlwaysAccounted` | `SerializationProofs` | `ChunksAccounted` | Whatever is pushed and released, every chunk used stays in the chain or in the free list, but none is in both or twice in one. |
| `ChainAlwaysPacked` | `SerializationProofs` | `ChainPacked` | All chunks but the last of the chain are full, so that a position is reached by counting. |
| `MarksAlwaysLive` | `SerializationProofs` | `MarksLive` | The positions a binding keeps to take back what it wrote are positions of the serialization. |
| `ReaderAlwaysOnLiveNode` | `SerializationProofs` | `ReaderOnLiveNode` | An iterator that is not at the end is on a node of the serialization and holds its tag. |
| `SequenceImplemented` | `SerializationProofs` | `ImplementsSeq` | For every number and size of chunks, pushing, taking back and reading through the chunk lists is appending to one sequence, cutting it back to a mark and going along it: SerializationSeq is implemented. |
| `InductiveInvariant` | `PapugaStackProofs` |  | In every state the nodes below the top are full, in the sizes they were allocated with, and hold elements pushed; preserved by pushes and pops that open and free nodes. |
| `StackImplemented` | `PapugaStackProofs` | `ImplementsLifo` | For every size of the buffer and of the nodes the stack in nodes is the stack of LifoStack: a pop gives the last element pushed and not popped, from whatever node, and NULL only when there is none. |
| `ReadersAlwaysCorrect` | `PapugaStackProofs` | `ReadersCorrect` | papuga_Stack_top_n of all elements gives them all in order and refuses more; the top is the element pushed last where its node was not emptied. |
| `BlocksAlwaysSound` | `AllocatorMemoryProofs` | `BlocksSound` | For all sizes and alignments below the limit, and all addresses malloc returns, the blocks given out are inside their node, aligned and disjoint, though the test of the room is done modulo the range of unsigned int. |
| `InductiveInvariant` | `AllocatorOwnershipProofs` |  | Ownership, lists of references and the liveness of the memory they are in are preserved together by every operation, destroying nested allocators to any depth included. |
| `AlwaysOwnedOnce` | `AllocatorOwnershipProofs` | `OwnedOnce` | For any number of allocators, references and objects: an object taken has exactly one owner, listed where it lives, until it is destroyed, once; one given back has none. |
| `ReflistsAlwaysSound` | `AllocatorOwnershipProofs` | `ReflistsSound` | The list an allocator runs when it is destroyed names what exists in its memory, each once, and all allocators nested in it. |
| `InductiveInvariant` | `LuaRequestHandlerProofs` |  | The requests answered are those before the index of the host, which stays behind the start of the run; preserved by all that a script and its host do. |
| `AlwaysResumedWithAnswers` | `LuaRequestHandlerProofs` | `ResumedWithAnswers` | A script that goes on after a yield has an answer for every request it sent before. |
| `StructureAlwaysMappedAsRead` | `LuaRequestHandlerProofs` | `StructureMappedAsRead` | A structure returned is mapped by the type of the documents looked at, if there is only one. |
| `InductiveInvariant` | `RequestContextProofs` |  | With the lock of the callers: maps counted by their holders, variables shared but written once, one builder at a time whose copy differs from the current map in one key; preserved by all steps of any number of threads. |
| `MapsAlwaysSound` | `RequestContextProofs` | `MapsSound` | With the lock of the callers, the count of every map is the number of its holders, and no map or context that is current or held was freed. |
| `SnapshotsAlwaysLive` | `RequestContextProofs` | `SnapshotsLive` | With the lock of the callers, inherit never reads a map, or a context of it, that was freed. |
| `PublishedStaysFrozen` | `RequestContextProofs` | `PublishedIsFrozen` | With the lock of the callers, a published context shows the same variables with the same values as long as it is published, whatever those that inherited them define. |
| `InheritAlwaysTakesAll` | `RequestContextProofs` | `InheritTakesAll` | With the lock of the callers, a successful inherit has all variables of the context it names, with their values, and none twice. |
| `RegistryImplemented` | `RequestContextProofs` | `ImplementsRegistry` | With the lock of the callers, the map copied on update is the registry of ContextRegistry: every update puts or drops one entry atomically and none is lost. |
| `InductiveInvariant` | `RequestProofs` |  | For every set of automata with finite definitions: what is found in a document, the stack of open scopes, the calls and the elements closed fit together after every event. |
| `ScopesAlwaysLaminar` | `RequestProofs` | `ScopesLaminar` | For every automaton and document, the scopes of all objects and calls lie apart or in each other, an inner one deeper in the document unless it starts with the outer one. |
| `PrioritizedAlwaysWins` | `RequestProofs` | `PrioritizedWins` | However prioritized calls nest, in an element where one occurred no other call for its result is left, in whatever order the triggers come and though the search goes back from the call closed last only. |
| `CallsAlwaysKept` | `RequestProofs` | `CallsKept` | No call is lost but to another one prioritized in an element around it that occurred there. |
| `ScopesAlwaysCollected` | `RequestProofs` |  | For every automaton, each element closed that is the scope of a value has an object for it, an undefined one if need be: the first half of ValuesCollected, without an assumption on scopes. |
| `ValuesAlwaysCollected` | `RequestProofs` | `ValuesCollected` | For automata whose items have scopes that are not nested (ItemsApart): in addition a value belongs to a scope it occurred in and none waits when the document is done. With nested scopes the inner one may take the value of the outer. |
| `CallsAlwaysOrdered` | `RequestProofs` |  | When the document is done, all calls found stand in one order, first by group; no two have the same place in it, so that sorting leaves nothing open. |
| `AllInvariant` | `RequestProofs` |  | The calls executed in turn, whatever their arguments are resolved to and whatever the host answers: what is found, the order of the calls, the variables made, the templates and the results returned fit together after every step. |
| `ResultsAlwaysInScope` | `RequestProofs` | `ResultsInScope` | As long as there is no error, a reference in a template has the results of all calls in its scope and of none elsewhere, in the order of the calls, for every automaton and document and whatever the arguments are resolved to. Assignments executed together count with the scope of the last of them, and the results of calls that lie in the scope with some of their elements only may be there or not. |
| `AmbiguityAlwaysReported` | `RequestProofs` | `AmbiguityReported` | No request with two results for a single reference ends as successful, though the error is dropped when it occurs and calls follow. |
| `ObjectAlwaysMadeBefore` | `RequestProofs` | `ObjectMadeBefore` | For automata in which no object called is named like a result: a method does not miss an object that a call of an earlier group makes, in whatever order the elements come. |
| `CallsInOrder` | `AutomatonBuilderProofs` | `CallOrderDefined` | For every client of the build API, limit and numbers of groups: calls and groups opened once are executed in the order of their definition, calls of one group together, also with operations refused or called after done. |
| `BuiltInOrder` | `AutomatonBuilderProofs` | `CallOrderDefined` | The same for every description in C++ whose groups have no negative number, however its nodes are nested. |

### Serialization

From `ConstantsAssumption` (the head chunk is a chunk, NULL is none, a chunk has room for at
least one node) and `NullAssumption` (NULL is no position). None of the safety invariants is inductive alone: that a chunk taken from the
freelist is not in use and that a chunk used before stays somewhere need both halves of `ChunksAccounted`,
`ChunksNotShared` and `NoChunkLost`; that `Restart` leaves the chain packed needs `MarksLive` (a mark is never the first position
of a chunk other than the head); that marks survive an inner `Restart` needs that they are ordered, the
second half of `MarksLive`; that the reader sees a written node after a skip needs `ChainPacked` and
`LiveWritten` (no garbage below the fill size). `IInv` is their conjunction.

`SequenceImplemented` is the refinement. The nodes are numbered through the chain, which `ChainPacked` makes
possible: the n-th is in chunk `n \div ChunkSize` of it. A push adds the number at the end (in the current chunk, or
in one linked: `LinkChunkRefines`); `Restart` cuts the numbers from the mark on (`ContentReleased`), and the
other marks and the reader, which are before it, keep theirs (`BeforeIsLess`); a skip goes to the next number,
into the next chunk if the position was the last of one.

### PapugaStack

From `SizesAssumption` (a node has at least one element; the buffer may be empty). `IInv` says that all nodes below the top are full, hold elements only,
and have the sizes they were allocated with (`Packed`): without it a pop that finds its top node empty
could not know that the last element is the last of the node below. The k-th element is then in a node and slot that follow from the sizes
(`SlotsNumbered`), so a push extends `Contents` by one (`PushStep`), on top or in a new node, and a pop cuts it by one
(`PopStep`), with or without freeing emptied nodes (`TrimmedFacts`: at most the top is empty). That is the refinement;
the readers follow from the same numbering.

### AllocatorMemory

From `UnitsAssumption` (block sizes and alignments are positive, the sizes of nodes are at most half the range of unsigned int) and `CallerAssumption` (requests
stay below the limit the code means, see section 2). `BlocksSound` is inductive itself. What has to be shown is that the test in the root, done modulo `UintMod`, admits
nothing too big (`FitsMeansFits`: no sum reaches the modulus), that skipping `AlignIncr` bytes aligns
(`AlignIncrAligns`), and that a shrunk block is really the last one of its node, up to empty blocks (`ShrinkLastSound`).

### AllocatorOwnership

From `CopiesAssumption` and `NullAssumption` (NULL is no allocator and no reference). `OwnedOnce` and `ReflistsSound` need each other and
`MemoryLive` (a reference and a nested allocator are in live memory). The steps of interest are those that destroy: what
goes with an allocator is the smallest set closed under the lists (`InsideFacts`); no list left names anything in it, since
every nested allocator is listed by the one it is nested in and by no other; the objects it owns are destroyed, each once, since an object has
one owner (`DestroyingIInv`).

### RequestContext

All theorems assume `ReadersSynchronized`, that the callers lock `papuga_RequestContext_inherit` as well; without it they
are false (section 2). The other assumptions: finitely many threads, NULL differs from contexts, threads and markers of
ownership, one map at least, NULL is no view. With the lock a thread that builds or reads a map is alone (`LockHeld`, `OthersIdle`), the
count of a map changes with the set of its holders (`HoldersCounted`, `CountMoves`), and what is being read is the current map, hence live
(`CurrentLive`). `IInv` adds what a thread relies on between its steps: `Building` (the copy differs from the current map in one key)
and `Reading`, and `VariablesSound` (variables exist, names occur once, none local in what is published).
`PublishedIsFrozen` holds because a definition appends a new variable and never writes one that exists
(`FrozenStep`); the refinement because publishing a copy that differs in one key is one put or drop (`PublishStep`) and all other steps change no view
of the current map (`QuietStep`); `InheritTakesAll` because merging keeps order and names (`MergedIsProper`).

### LuaRequestHandler

From `NullAssumption` and `KindsAssumption` (NULL and the kinds of results are no document types). A script that goes on has all
answers because the host answers in the order of sending: `AnsweredInOrder` says that the requests answered are
those up to the index of the host, counted from the start of the run, which a new run moves to the end.
`StructureMappedAsRead` needs that nothing was looked at while the type is undefined (`NothingSeen`).

### AutomatonBuilder

`CallOrderDefined` is proved for any limit on calls (from `LimitsAssumption`), first for
any client of the build API (`DescriptionSpec`: every operation with any parameters, at any time), then for
the builder in C++, each step of which is such an operation or none. The property says nothing before `done`, so
`IInv` adds that a call has its own number or the shifted one of its group until then (`NotRewritten`), that each
opening has a place (`PlacesKnown`), and where this is: behind the calls before the opening and before those in
it, if the number is not opened again (`PlacesOrdered`). For a call added to the open group this needs
that all calls since the opening are in it (`LastIsOpen`). The number of a group must not be negative
(`NumbersNotNegative`, an assumption of `BuiltInOrder`); with one that is, the property does not hold.
The steps of the description of the schema leave all of this alone (`BuilderIsClient`).

### What is found in a document (RequestProofs)

From `AutomataAssumption` (the definitions of an automaton are sequences, its values are of its items, what is prioritized is
one of its calls) and `BoundsAssumption`. The theorems are about documents of any length and depth
fed to any automaton. `AllInvariant` carries the invariant over to the execution of the calls; `RequestIterator`, `RequestExecution` and
`RequestBuilding` have the same actions in their next-state relations, but reach recursive operators, and the runs check the properties there.

`ScopesLaminar` is about pairs of scopes that are closed; what holds of a scope while it is open is in `IInv`: the
open scopes start one after the other (`StackOpen`), and what was found ended before an open scope started, or is in it and
deeper (`FoundUnderStack`). So an event closes a scope that contains or is apart from all found before, and all objects
and calls of the event have this scope.
`PrioritizedWins` needs that the search, which ends at the first call that started before the scope, misses none in the
scope: with laminar scopes a call in the scope is closed after all that started before it (`CloseTagReaches`). That a call added later does not revive a suppressed
one holds because a later call inside a closed scope does not exist (`FoundUnderStack` again). Several priorities fire in an
order that is not known; each only drops calls, so that what one has dropped stays dropped, and a call it prefers has no rival from then on (`PrioritizedFacts`). `CallsKept` blames a call that is gone on a prioritized one that occurred; this one may be gone
itself, so `IInv` adds that each call was made by a closed element (`CallsMade`), which stays in the history.

The last conjuncts of `ValuesCollected` are false for some automata: with a scope like `//a`, an element
inside another one takes the values that the outer one had before it, as said under what was seen. So `ValuesAlwaysCollected`
assumes `ItemsApart`: the scopes of an item are paths from the root none of which is in another one, and a value is selected in
its scope. Then a value that waits was found in a scope that is still open (`PendingOpen`), and the trigger that takes it is
that of this scope. `MCRequest` has TLC evaluate that its automata are of that kind (`ScopesApartAssumption`). The first half,
that each scope closed has its object, is proved for all automata (`ScopesAlwaysCollected`).

### What becomes of it (RequestProofs)

`CallsAlwaysOrdered` is proved first: sorting, written as a choice among the orders, gives all calls, since no two have the same
place. This needs that the place is that of the definition and of the end of the element, that an element makes one call of a
definition, and that a later one ends later (`CallsPlaced`); that there is such an order is shown by counting what is before each call
(`RankFacts`, `PlaceFacts`, on finite sets and surjections).

The other theorems are about `CallsSpec`, in which an argument may be resolved to anything, also to an error, and a failed resolution may
leave any error but none where there was one (`Resolution`). That a resolution never takes an error back is what `IteratorErrorStays`
says of the real one; it recurses, so TLC checks it on `RequestExecution`. Given this, every step of `RequestExecution` is one of
`CallsSpec`, and what is proved does not depend on how references are resolved. `ResultsAssumption` says that the nodes of a template are a list, and that a
reference to a result names it.

The inductive invariant is `All`: that of the document, `CallsPlaced`, `CallsOrdered`, and `ExecutionIInv`.
`ResultsInScope` is not inductive: it says nothing of a single reference given more than one value, or of values
that stand for nothing (`Void`), and only of what is missing and what is strange. `ValuesHeld` says where
each value comes from and that a single reference has one at most; then a result that a reference would have to refuse was refused
and left its error (`PushHolds`). It also says so when the request ended successfully, which is `AmbiguityReported`: the error is still in the
iterator at the end because nothing takes it back. `Phases` is needed because nodes are added to the templates only before the first call
(`Grown`: those have no values, and no result is expected in them yet).

`ObjectMadeBefore` follows from `VariablesMade`, that a call behind has made its variable, and from the order of the calls. Results are
not put into variables, so if an object were named like a result the method would miss it; `SelvesApart` excludes this, and `MCRequestExecution` has TLC
evaluate it for its automata (`SelvesApartAssumption`). An error the request took over from the iterator is not `MissingSelf`, so that this one was
met at a method (`ErrorKnown`).

### Only model-checked

* What recursive operators compute for all inputs is out of the prover's reach: `BuiltAsDescribed`,
  `SchemaAsDescribed`, `ArgumentsAsDefined` and all properties of `SchemaMeaning` and `DocumentConversion`
  compare the code with a meaning defined by recursion on trees.
* `ResultsWellNested` and `IteratorErrorStays` are about what `RequestExecution` prints and resolves with recursive operators.
* `YieldedAreAnswered` is a liveness property under fairness of the host. What it needs of safety, that the host's index stays in
  order with the answers, is `AnsweredInOrder`.

## 5 Not modelled

The reasons are in the components of `PROJECT.json`. In short: what adds to an automaton node by node, the parser of
the schema language, the printing of schema descriptions, conversions of values and what is left of printing are planned (next section); the
generators have no state; the conversions of the bindings depend on interpreters; tables of
names and errors have no behaviour. textwolf, cjson, fmt and Lua are third party. Logging and messages
are left out everywhere. Integer widths are modelled where they matter (`AllocatorMemory`); the
counters of scopes and references are unbounded in the modules and bounded by the runs.

## 6 Plan

In this order; the number of runs and properties is kept small by merging and by dropping
shallow ones when a deeper one comes.

1. Composition of `RequestExecution` with the allocators of variables (`AllocatorOwnership`) and
   with the contexts of `RequestContext`: objects owned once over a whole request, no argument in
   freed memory; the rest of `requestResult.cpp`.
2. The interface of `RequestAutomaton` that adds nodes one by one (`openRoot`, `openGroup`, `addFunction`, ...),
   assignments of the environment.
3. Inherited contexts in `AutomatonContext`; errors that end a request.
4. The rest of the serialization and of printing: flatten, struct ids, iterators and call results in markup, HTML and text.
5. The request parser feeding a request automaton: `Document` composed with `AutomatonContext`.
6. The parser of the schema language; the schema description printed, and read by `schema.cpp` again.
7. Value conversions with their ranges, as operators with a width.
8. Proofs: `StacksFollowDocument` of the mapping by a schema and `IteratorErrorStays`.
   The recursive operators of `SchemaMap` and `RequestIterator` would have to become recursive functions first.
