------------------------------- MODULE ExpHeap -------------------------------
(***************************************************************************)
(* MEMExpHeap (source/memexpheap.cpp): a general allocator over a region   *)
(* the guest supplies.  Its blocks, free and used, tile the region in      *)
(* order; an allocation splits a free block from either end, a free merges *)
(* the free neighbours.                                                    *)
(*                                                                         *)
(* Addresses are natural numbers; the code computes in 64 bits and, from   *)
(* the room it has tested, never below the region.                         *)
(***************************************************************************)
EXTENDS Integers, SequencesExt

CONSTANTS
  Base,          \* address of the region, the MEMHeapHandle
  HeapHeader,    \* COREINIT_NX_MEMEXPHEAP_SIZE
  BlockHeader,   \* COREINIT_NX_EXPBLOCK_SIZE
  RegionSizes, Requests, Alignments   \* what the guest asks for

VARIABLES live, mode,     \* of the HostExpHeap: is it one, and its allocation mode
          dataEnd,        \* end of its region
          blocks          \* its blocks, by address

vars == <<live, mode, dataEnd, blocks>>

Init == live = FALSE /\ mode = "first" /\ dataEnd = 0 /\ blocks = <<>>

IsPow2(v) == v # 0 /\ \E k \in 0..30 : v = 2^k
AlignDown(v, a) == v - (v % a)
AlignUp(v, a) == AlignDown(v + a - 1, a)

\* normaliseAlignment: anything but a power of two counts as 4.
Normalised(alignment) ==
  LET a == IF alignment < 0 THEN -alignment ELSE alignment IN IF IsPow2(a) THEN a ELSE 4

DataStart == AlignUp(Base + HeapHeader, 4)

\* A Block, from start to end (its size is kept in the code); payload and
\* payloadSize are 0 in a free one.
FreeBlock(start, end) ==
  [start |-> start, end |-> end, used |-> FALSE, payload |-> 0, payloadSize |-> 0]
UsedBlock(start, end, payload, size) ==
  [start |-> start, end |-> end, used |-> TRUE, payload |-> payload, payloadSize |-> size]

\* MEMCreateExpHeapEx
Create(size) ==
  /\ size > HeapHeader + BlockHeader
  /\ live' = TRUE /\ mode' = "first"
  /\ dataEnd' = Base + size
  /\ blocks' = <<FreeBlock(DataStart, Base + size)>>

\* MEMDestroyExpHeap
Destroy ==
  /\ live
  /\ live' = FALSE /\ blocks' = <<>>
  /\ UNCHANGED <<mode, dataEnd>>

\* MEMSetAllocModeForExpHeap
SetMode(m) == live /\ mode' = m /\ UNCHANGED <<live, dataEnd, blocks>>

\* Mutation of FitInFree: the header in front of the payload is not counted.
FitNoHeader(b, a) ==
  LET lowest == AlignUp(b.start, a) IN IF lowest >= b.end THEN 0 ELSE b.end - lowest

\* fitInFree: the largest payload that the free block b takes.
FitInFree(b, a) ==
  LET lowest == AlignUp(b.start + BlockHeader, a) IN
  IF lowest >= b.end THEN 0 ELSE b.end - lowest

Wanted(size) == IF size = 0 THEN 1 ELSE size

Serves(i, size, a) == ~blocks[i].used /\ FitInFree(blocks[i], a) >= size

\* The block an allocation takes: the first that serves, or of those with the
\* least room the first.
Chosen(i, size, a) ==
  /\ Serves(i, size, a)
  /\ \A j \in DOMAIN blocks : Serves(j, size, a) =>
       IF mode = "first" THEN i <= j
       ELSE \/ FitInFree(blocks[i], a) < FitInFree(blocks[j], a)
            \/ FitInFree(blocks[i], a) = FitInFree(blocks[j], a) /\ i <= j

MinSplit == BlockHeader + 4

\* Mutation of SplitTop: a remainder too small for a block is lost.
SplitTopLosing(b, size, a) ==
  LET payload == AlignUp(b.start + BlockHeader, a)
      end == payload + size IN
  IF b.end - end >= MinSplit
  THEN <<UsedBlock(b.start, end, payload, size), FreeBlock(end, b.end)>>
  ELSE <<UsedBlock(b.start, end, payload, size)>>

\* What the free block b becomes when `size` bytes are taken from its start or
\* from its end; a remainder too small for a block goes with the payload.
SplitTop(b, size, a) ==
  LET payload == AlignUp(b.start + BlockHeader, a)
      end == payload + size IN
  IF b.end - end >= MinSplit
  THEN <<UsedBlock(b.start, end, payload, size), FreeBlock(end, b.end)>>
  ELSE <<UsedBlock(b.start, b.end, payload, size)>>

\* Mutation of SplitBottom: no room is kept for the block's header.
SplitBottomBare(b, size, a) ==
  LET payload == AlignDown(b.end - size, a) IN
  IF payload - b.start >= MinSplit
  THEN <<FreeBlock(b.start, payload), UsedBlock(payload, b.end, payload, size)>>
  ELSE <<UsedBlock(b.start, b.end, payload, size)>>

SplitBottom(b, size, a) ==
  LET payload == AlignDown(b.end - size, a)
      start == payload - BlockHeader IN
  IF start - b.start >= MinSplit
  THEN <<FreeBlock(b.start, start), UsedBlock(start, b.end, payload, size)>>
  ELSE <<UsedBlock(b.start, b.end, payload, size)>>

\* The final tests of MEMAllocFromExpHeapEx on the chosen block.
RoomTop(b, size, a) == AlignUp(b.start + BlockHeader, a) + size <= b.end
RoomBottom(b, size, a) == AlignDown(b.end - size, a) - BlockHeader >= b.start

AllocFrom(i, size, a, bottom) ==
  LET b == blocks[i] IN
  /\ IF bottom THEN RoomBottom(b, size, a) ELSE RoomTop(b, size, a)
  /\ blocks' = SubSeq(blocks, 1, i - 1)
                 \o (IF bottom THEN SplitBottom(b, size, a) ELSE SplitTop(b, size, a))
                 \o SubSeq(blocks, i + 1, Len(blocks))
  /\ UNCHANGED <<live, mode, dataEnd>>

\* MEMAllocFromExpHeapEx, when it succeeds; else it changes nothing.
Alloc(size, alignment) ==
  LET n == Wanted(size)
      a == Normalised(alignment) IN
  /\ live
  /\ \E i \in DOMAIN blocks : Chosen(i, n, a) /\ AllocFrom(i, n, a, alignment < 0)

\* coalesce: neighbouring free blocks become one.  The blocks before b are done.
Joined(done, b) ==
  IF done # <<>> /\ ~Last(done).used /\ ~b.used
  THEN Append(Front(done), FreeBlock(Last(done).start, b.end))
  ELSE Append(done, b)

Coalesce(bs) ==
  LET done[k \in 0..Len(bs)] == IF k = 0 THEN <<>> ELSE Joined(done[k - 1], bs[k])
  IN  done[Len(bs)]

\* Mutation of Free: every block from the pointer on is freed.
FreeOnwards(pointer) ==
  /\ live
  /\ \E i \in DOMAIN blocks :
       /\ blocks[i].used /\ blocks[i].payload = pointer
       /\ blocks' = Coalesce([j \in DOMAIN blocks |->
            IF j >= i THEN FreeBlock(blocks[j].start, blocks[j].end) ELSE blocks[j]])
  /\ UNCHANGED <<live, mode, dataEnd>>

\* MEMFreeToExpHeap of a pointer that is some allocation's; any other is ignored.
Free(pointer) ==
  /\ live
  /\ \E i \in DOMAIN blocks :
       /\ blocks[i].used /\ blocks[i].payload = pointer
       /\ blocks' = Coalesce([blocks EXCEPT ![i] = FreeBlock(@.start, @.end)])
  /\ UNCHANGED <<live, mode, dataEnd>>

\* MEMGetAllocatableSizeForExpHeapEx
AllocatableSize(alignment) ==
  LET room == {FitInFree(blocks[i], Normalised(alignment)) :
                 i \in {j \in DOMAIN blocks : ~blocks[j].used}} IN
  Max(room \cup {0})

Next ==
  \/ \E size \in RegionSizes : Create(size)
  \/ Destroy
  \/ \E m \in {"first", "nearest"} : SetMode(m)
  \/ \E size \in Requests, alignment \in Alignments : Alloc(size, alignment)
  \/ \E pointer \in {blocks[i].payload : i \in DOMAIN blocks} : Free(pointer)

Spec == Init /\ [][Next]_vars
------------------------------------------------------------------------------
\* The HostExpHeap's fields have their types; one that is no heap has no blocks.
TypeOK ==
  /\ live \in BOOLEAN /\ mode \in {"first", "nearest"} /\ dataEnd \in Nat
  /\ live \/ blocks = <<>>
  /\ \A i \in DOMAIN blocks :
       /\ blocks[i].start \in Nat /\ blocks[i].end \in Nat /\ blocks[i].used \in BOOLEAN
       /\ blocks[i].payload \in Nat /\ blocks[i].payloadSize \in Nat

\* memexpheap.cpp:37: the blocks are "sorted by start", cover "the whole region"
\* to the byte, and no two free ones are neighbours: nothing is ever lost to
\* splitting, absorbing a small remainder, or merging.
Tiles ==
  /\ TypeOK
  /\ live => /\ blocks # <<>>
             /\ blocks[1].start = DataStart /\ Last(blocks).end = dataEnd
  /\ \A i \in DOMAIN blocks :
       /\ blocks[i].start < blocks[i].end
       /\ i > 1 => /\ blocks[i].start = blocks[i - 1].end
                   /\ blocks[i].used \/ blocks[i - 1].used

\* Every payload has its own header's bytes in front of it, inside its block: the
\* guest is charged as on Cafe OS, and no payload reaches into a header.
HeadersKept ==
  \A i \in DOMAIN blocks : blocks[i].used =>
    /\ blocks[i].start + BlockHeader <= blocks[i].payload
    /\ blocks[i].payload + blocks[i].payloadSize <= blocks[i].end

\* "Identical in both directions": the heap grants a request, from either end
\* and in either mode, exactly when it is no larger than the size it reports.
AllocatableExact ==
  live => \A alignment \in Alignments, size \in Requests \cup 1..dataEnd - Base :
    LET n == Wanted(size)
        a == Normalised(alignment) IN
    (\E i \in DOMAIN blocks :
       /\ Chosen(i, n, a)
       /\ IF alignment < 0 THEN RoomBottom(blocks[i], n, a) ELSE RoomTop(blocks[i], n, a))
      <=> n <= AllocatableSize(alignment)

\* The block list implements an allocator of disjoint ranges.
Allocator == INSTANCE RegionAllocator WITH
  region <- IF live THEN <<DataStart, dataEnd>> ELSE <<0, 0>>,
  taken <- {<<blocks[i].payload, blocks[i].payload + blocks[i].payloadSize>> :
              i \in {j \in DOMAIN blocks : blocks[j].used}}

ImplementsAllocator == Allocator!Spec
==============================================================================
