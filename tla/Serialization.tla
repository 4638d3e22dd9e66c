---------------------------- MODULE Serialization ----------------------------
(* src/serialization.c: a serialization is a list of chunks of ChunkSize nodes  *)
(* of which the first is embedded in the structure.  The list of chunks in use  *)
(* (head..current) and the list of chunks to reuse (freelist) are singly linked *)
(* in the code and sequences of chunks here: chunk->next is the successor in    *)
(* its sequence.  The writer is a binding serialising nested tables: it marks   *)
(* the end before it serialises a table as an array, and releases what it has   *)
(* pushed when the table turns out to be a map (serialize_node in               *)
(* lua/libpapuga_lua_dev.c, serializeHashTableAsArray in php7).                 *)
EXTENDS Naturals, Sequences

CONSTANTS Chunk,      \* memory for chunks: HeadChunk and what the allocator can give
          HeadChunk,  \* the chunk embedded in papuga_Serialization
          ChunkSize,  \* papuga_NodeChunkSize
          Tag,        \* tags of the nodes pushed
          NULL,       \* null pointer; also: no reader
          Garbage,    \* content of a node never written
          MaxFrames   \* bound on the nesting of serialize_node

ASSUME ConstantsAssumption ==
  /\ HeadChunk \in Chunk
  /\ NULL \notin Chunk
  /\ ChunkSize \in Nat \ {0}
  /\ MaxFrames \in Nat
  /\ Garbage \notin Tag

VARIABLES chain,     \* head ... current, linked by next
          freelist,  \* chunks to reuse, linked by next
          size,      \* chunk |-> number of nodes in it
          ar,        \* chunk |-> its nodes
          marks,     \* arrayStart of each open serialize_node frame
          reader     \* an iterator of a consumer, or NULL

vars == <<chain, freelist, size, ar, marks, reader>>
writer == <<chain, freelist, size, ar, marks>>

Elems(s) == {s[i] : i \in DOMAIN s}
Current == chain[Len(chain)]
IndexIn(s, c) == CHOOSE i \in DOMAIN s : s[i] = c
IndexOf(c) == IndexIn(chain, c)
NextChunk(c) == IF c \in Elems(chain) /\ c # Current
                THEN chain[IndexOf(c) + 1] ELSE NULL

-----------------------------------------------------------------------------
(* Iterators: a chunk, a position in it, a value pointer (NULL at eof) and the *)
(* tag that was read when the iterator got there.                              *)
At(c, p) == [chunk |-> c, pos |-> p, eof |-> FALSE, tag |-> ar[c][p]]
EofOf(c) == [chunk |-> c, pos |-> size[c], eof |-> TRUE, tag |-> "Close"]

IterFirst == IF size[HeadChunk] = 0 THEN EofOf(HeadChunk) ELSE At(HeadChunk, 0)
IterLast  == IF size[Current] = 0 THEN EofOf(Current)
             ELSE At(Current, size[Current] - 1)
IterEnd   == EofOf(Current)

IterSkipBeforeChunkEnd(it) ==
  IF it.pos + 2 < size[it.chunk] THEN At(it.chunk, it.pos + 1)
  ELSE IF NextChunk(it.chunk) # NULL THEN At(NextChunk(it.chunk), 0)
  ELSE EofOf(it.chunk)

IterSkip(it) ==
  IF it.pos + 1 < size[it.chunk] THEN At(it.chunk, it.pos + 1)
  ELSE IF NextChunk(it.chunk) # NULL THEN At(NextChunk(it.chunk), 0)
  ELSE EofOf(it.chunk)

(* papuga_SerializationIter_follow_tag: the tag of the next node without moving. *)
FollowTagInChunk(it) == IF it.pos + 1 < size[it.chunk] THEN ar[it.chunk][it.pos + 1]
                        ELSE "Close"
FollowTag(it) ==
  IF it.pos + 1 < size[it.chunk] THEN ar[it.chunk][it.pos + 1]
  ELSE IF NextChunk(it.chunk) # NULL THEN ar[NextChunk(it.chunk)][0]
  ELSE "Close"

-----------------------------------------------------------------------------
Init == /\ chain = <<HeadChunk>>
        /\ freelist = <<>>
        /\ size = [c \in Chunk |-> 0]
        /\ ar = [c \in Chunk |-> [p \in 0..ChunkSize-1 |-> Garbage]]
        /\ marks = <<>>
        /\ reader = NULL

(* alloc_node and push: there is room in the current chunk, ... *)
PushInCurrent(t) ==
  /\ size[Current] < ChunkSize
  /\ ar' = [ar EXCEPT ![Current][size[Current]] = t]
  /\ size' = [size EXCEPT ![Current] = @ + 1]
  /\ UNCHANGED <<chain, freelist, marks, reader>>

(* ... or the chunk c is linked after it and takes the node. *)
PushIn(c, t) ==
  /\ chain' = Append(chain, c)
  /\ size' = [size EXCEPT ![c] = 1]
  /\ ar' = [ar EXCEPT ![c][0] = t]
  /\ UNCHANGED <<marks, reader>>

PushReusingKeepingFree(t) ==
  /\ size[Current] = ChunkSize
  /\ freelist # <<>>
  /\ PushIn(freelist[1], t)
  /\ UNCHANGED freelist

PushReusing(t) ==
  /\ size[Current] = ChunkSize
  /\ freelist # <<>>
  /\ PushIn(freelist[1], t)
  /\ freelist' = Tail(freelist)

PushAllocatingEarly(t) ==
  /\ size[Current] >= ChunkSize - 1
  /\ freelist = <<>>
  /\ \E c \in Chunk \ Elems(chain) : PushIn(c, t)
  /\ UNCHANGED freelist

(* papuga_Allocator_alloc gives a chunk that is not in use, or fails and the push *)
(* returns false with nothing changed.                                            *)
PushAllocating(t) ==
  /\ size[Current] = ChunkSize
  /\ freelist = <<>>
  /\ \E c \in Chunk \ Elems(chain) : PushIn(c, t)
  /\ UNCHANGED freelist

Push(t) == PushInCurrent(t) \/ PushReusing(t) \/ PushAllocating(t)

(* papuga_Serialization_release_tail: everything from position it on is freed. *)
ReleaseTailLosingFree(it) ==
  LET i == IndexOf(it.chunk) IN
  /\ chain' = SubSeq(chain, 1, i)
  /\ freelist' = SubSeq(chain, i + 1, Len(chain))
  /\ size' = [size EXCEPT ![it.chunk] = it.pos]
  /\ UNCHANGED ar

ReleaseTailKeepingSize(it) ==
  LET i == IndexOf(it.chunk) IN
  /\ chain' = SubSeq(chain, 1, i)
  /\ freelist' = freelist \o SubSeq(chain, i + 1, Len(chain))
  /\ UNCHANGED <<size, ar>>

ReleaseTail(it) ==
  LET i == IndexOf(it.chunk) IN
  /\ chain' = SubSeq(chain, 1, i)
  /\ freelist' = freelist \o SubSeq(chain, i + 1, Len(chain))
  /\ size' = [size EXCEPT ![it.chunk] = it.pos]
  /\ UNCHANGED ar

-----------------------------------------------------------------------------
(* The binding: serialize_node marks the end ... *)
EnterAtLast == /\ Len(marks) < MaxFrames
               /\ marks' = Append(marks, IterLast)
               /\ UNCHANGED <<chain, freelist, size, ar, reader>>

Enter == /\ Len(marks) < MaxFrames
         /\ marks' = Append(marks, IterEnd)
         /\ UNCHANGED <<chain, freelist, size, ar, reader>>

Innermost == marks[Len(marks)]
Before(it, m) == \/ IndexOf(it.chunk) < IndexOf(m.chunk)
                 \/ it.chunk = m.chunk /\ it.pos < m.pos

(* ... returns when the table was an array ... *)
Leave == /\ marks # <<>>
         /\ marks' = SubSeq(marks, 1, Len(marks) - 1)
         /\ UNCHANGED <<chain, freelist, size, ar, reader>>

(* ... or releases the elements pushed so far and goes on as a map (the mark is *)
(* not used any more).  Nobody keeps using an iterator into what was released.  *)
Restart ==
  /\ marks # <<>>
  /\ Before(Innermost, IterEnd)
  /\ ReleaseTail(Innermost)
  /\ marks' = SubSeq(marks, 1, Len(marks) - 1)
  /\ reader' = IF reader # NULL /\ ~reader.eof /\ Before(reader, Innermost)
               THEN reader ELSE NULL

(* The consumer: every loop of the code tests eof before it skips. *)
Open     == reader' = IterFirst /\ UNCHANGED writer
OpenLast == reader' = IterLast /\ UNCHANGED writer
Skip     == reader # NULL /\ ~reader.eof /\ reader' = IterSkip(reader)
            /\ UNCHANGED writer

Next == \/ \E t \in Tag : Push(t)
        \/ Enter \/ Leave \/ Restart
        \/ Open \/ OpenLast \/ Skip

Spec == Init /\ [][Next]_vars

-----------------------------------------------------------------------------
(* The node sequence a serialization stands for. *)
Length == (Len(chain) - 1) * ChunkSize + size[Current]
Content == [i \in 1..Length |->
              ar[chain[(i - 1) \div ChunkSize + 1]][(i - 1) % ChunkSize]]
OffsetOf(it) == (IndexOf(it.chunk) - 1) * ChunkSize + it.pos

Position == [chunk : Chunk, pos : 0..ChunkSize, eof : BOOLEAN,
             tag : Tag \cup {"Close", Garbage}]

ASSUME NullAssumption == NULL \notin Position

(* Types of the variables. *)
TypeOK == /\ chain \in Seq(Chunk) /\ chain # <<>> /\ chain[1] = HeadChunk
          /\ freelist \in Seq(Chunk)
          /\ size \in [Chunk -> 0..ChunkSize]
          /\ ar \in [Chunk -> [0..ChunkSize-1 -> Tag \cup {Garbage}]]
          /\ marks \in Seq(Position)
          /\ reader \in Position \cup {NULL}

Distinct(s) == \A i, j \in DOMAIN s : s[i] = s[j] => i = j

(* A chunk is in one list at most and in it once: what release_tail puts on the *)
(* freelist is never still linked in the serialization, and alloc_node never    *)
(* hands out a chunk that holds live nodes.                                     *)
ChunksNotShared == /\ Distinct(chain)
                   /\ Distinct(freelist)
                   /\ Elems(chain) \cap Elems(freelist) = {}

(* A chunk that has held a node is still linked somewhere: release_tail does not  *)
(* drop what was on the freelist before.                                          *)
NoChunkLost == \A c \in Chunk : size[c] > 0 => c \in Elems(chain) \cup Elems(freelist)

(* Both: a chunk used before is in one of the two lists, in that one only and once *)
(* (alloc_node, release_tail).                                                     *)
ChunksAccounted == ChunksNotShared /\ NoChunkLost

(* Only the last chunk may have room, and it is not empty unless it is the head: *)
(* the iterators step to the next chunk's first node without looking at its size. *)
ChainPacked == /\ \A i \in 1..Len(chain)-1 : size[chain[i]] = ChunkSize
               /\ Len(chain) > 1 => size[Current] > 0

(* The marks of the open frames stay positions of the serialization through every *)
(* inner release, the inner ones not before the outer ones, so that an outer      *)
(* frame can still release from its own.                                          *)
MarksLive ==
  /\ \A k \in DOMAIN marks : /\ marks[k].chunk \in Elems(chain)
                             /\ marks[k].pos <= size[marks[k].chunk]
                             /\ marks[k].pos > 0 \/ marks[k].chunk = HeadChunk
  /\ \A j, k \in DOMAIN marks : j < k => ~Before(marks[k], marks[j])

(* An iterator that is not at eof is on a node that was pushed and not released, *)
(* the tag it carries is the tag of that node, and follow_tag tells the tag the  *)
(* next skip gets.                                                               *)
ReaderOnLiveNode ==
  reader # NULL /\ ~reader.eof =>
     /\ reader.chunk \in Elems(chain)
     /\ reader.pos < size[reader.chunk]
     /\ reader.tag = ar[reader.chunk][reader.pos]
     /\ reader.tag \in Tag
     /\ FollowTag(reader) = IterSkip(reader).tag

(* The strengthening under which the invariants above are inductive. *)
LiveWritten == \A i \in DOMAIN chain : \A p \in 0..size[chain[i]]-1 :
                  ar[chain[i]][p] \in Tag
ReaderLive == reader # NULL /\ ~reader.eof =>
                 /\ reader.chunk \in Elems(chain)
                 /\ reader.pos < size[reader.chunk]
                 /\ reader.tag = ar[reader.chunk][reader.pos]
IInv == /\ TypeOK /\ ChunksNotShared /\ NoChunkLost /\ ChainPacked
        /\ MarksLive /\ LiveWritten /\ ReaderLive

ReaderMap == IF reader = NULL THEN [at |-> "none", idx |-> 0]
             ELSE IF reader.eof THEN [at |-> "eof", idx |-> 0]
             ELSE [at |-> "node", idx |-> OffsetOf(reader) + 1]

Seqs == INSTANCE SerializationSeq
          WITH content <- Content,
               marks   <- [k \in DOMAIN marks |-> OffsetOf(marks[k])],
               reader  <- ReaderMap

(* The chunk list with its freelist implements the node sequence: what a reader *)
(* sees, and what is left after a release, is what was pushed, in that order.   *)
ImplementsSeq == Seqs!Spec
=============================================================================
