------------------------------- MODULE FrmHeap -------------------------------
(***************************************************************************)
(* MEMFrmHeap (source/memfrmheap.cpp): a two-ended stack over a region the *)
(* guest supplies.  head grows up, tail grows down, a free resets one or   *)
(* both ends or returns to a recorded state, and MEMAdjustFrmHeap gives    *)
(* the unused end of the region back.                                      *)
(*                                                                         *)
(* Addresses are natural numbers.  The code computes in 64 bits with sizes *)
(* of 32, so its sums never wrap; tail - size can, in which case the test  *)
(* candidate > tail rejects it, as candidate < head does here below zero.  *)
(***************************************************************************)
EXTENDS Integers, Sequences

CONSTANTS
  Base,         \* address of the region, the MEMHeapHandle
  HeaderSize,   \* COREINIT_NX_MEMFRMHEAP_SIZE
  RegionSizes,  \* sizes the guest creates a heap with
  Requests,     \* sizes it asks for
  Alignments,   \* alignments it asks for, negative from the tail
  Tags,         \* tags it records states under, not 0
  MaxStates     \* bound on the recorded states

ASSUME FrmHeapAssumption ==
  /\ Base \in Nat \ {0} /\ HeaderSize \in Nat
  /\ RegionSizes \subseteq Nat
  /\ Requests \subseteq Nat
  /\ Alignments \subseteq Int
  /\ 0 \notin Tags
  /\ MaxStates \in Nat

VARIABLES
  live, dataStart, dataEnd, head, tail,   \* the HostFrmHeap
  states,   \* its recorded states, each with the blocks allocated before it
  blocks,   \* the allocations the guest may still use
  limit     \* end of the region the live heap was created over

vars == <<live, dataStart, dataEnd, head, tail, states, blocks, limit>>

Init ==
  /\ live = FALSE
  /\ dataStart = 0 /\ dataEnd = 0 /\ head = 0 /\ tail = 0
  /\ states = <<>> /\ blocks = {} /\ limit = 0

IsPow2(v) == v # 0 /\ \E k \in 0..30 : v = 2^k

AlignDown(v, a) == v - (v % a)
AlignUp(v, a) == AlignDown(v + a - 1, a)

Abs(v) == IF v < 0 THEN -v ELSE v

\* normaliseAlignment: anything but a power of two counts as 4.
Normalised(alignment) == IF IsPow2(Abs(alignment)) THEN Abs(alignment) ELSE 4

DataStart == AlignUp(Base + HeaderSize, 4)

\* MEMCreateFrmHeapEx.  A region with no room after its header is refused, with
\* dataEnd already overwritten.
Create(size) ==
  /\ size > HeaderSize
  /\ dataStart' = DataStart
  /\ dataEnd' = Base + size
  /\ IF DataStart >= Base + size
     THEN UNCHANGED <<live, head, tail, states, blocks, limit>>
     ELSE /\ live' = TRUE
          /\ head' = DataStart /\ tail' = Base + size
          /\ states' = <<>>
          /\ blocks' = {} /\ limit' = Base + size

Destroy ==
  /\ live
  /\ live' = FALSE
  /\ states' = <<>> /\ blocks' = {}
  /\ UNCHANGED <<dataStart, dataEnd, head, tail, limit>>

\* A request for 0 bytes is one for 1.
Wanted(size) == IF size = 0 THEN 1 ELSE size

HeadFits(size, a) ==
  LET candidate == AlignUp(head, a) IN
  candidate + size <= tail /\ candidate >= head

TailFits(size, a) ==
  LET candidate == AlignDown(tail - size, a) IN
  head <= candidate /\ candidate <= tail

Block(start, size, end) == [lo |-> start, hi |-> start + size, end |-> end]

\* Mutation of AllocHead: the room is tested before the alignment.
AllocHeadUnaligned(size, a) ==
  /\ live /\ head + size <= tail
  /\ head' = AlignUp(head, a) + size
  /\ blocks' = blocks \cup {Block(AlignUp(head, a), size, "head")}
  /\ UNCHANGED <<live, dataStart, dataEnd, tail, states, limit>>

\* MEMAllocFromFrmHeapEx, when there is room; when there is none it returns
\* null and changes nothing.
AllocHead(size, a) ==
  /\ live /\ HeadFits(size, a)
  /\ head' = AlignUp(head, a) + size
  /\ blocks' = blocks \cup {Block(AlignUp(head, a), size, "head")}
  /\ UNCHANGED <<live, dataStart, dataEnd, tail, states, limit>>

\* Mutation of AllocTail: the lower end of the gap is not tested.
AllocTailUntested(size, a) ==
  /\ live
  /\ tail' = AlignDown(tail - size, a)
  /\ blocks' = blocks \cup {Block(AlignDown(tail - size, a), size, "tail")}
  /\ UNCHANGED <<live, dataStart, dataEnd, head, states, limit>>

AllocTail(size, a) ==
  /\ live /\ TailFits(size, a)
  /\ tail' = AlignDown(tail - size, a)
  /\ blocks' = blocks \cup {Block(AlignDown(tail - size, a), size, "tail")}
  /\ UNCHANGED <<live, dataStart, dataEnd, head, states, limit>>

Alloc(size, alignment) ==
  IF alignment < 0 THEN AllocTail(Wanted(size), Normalised(alignment))
                   ELSE AllocHead(Wanted(size), Normalised(alignment))

StillUsed(B, ends) == {b \in B : b.end \notin ends}

\* MEMFreeToFrmHeap: the states go only when both ends are freed.
Free(ends) ==
  /\ live /\ ends # {}
  /\ head' = IF "head" \in ends THEN dataStart ELSE head
  /\ tail' = IF "tail" \in ends THEN dataEnd ELSE tail
  /\ blocks' = StillUsed(blocks, ends)
  /\ states' = IF ends = {"head", "tail"} THEN <<>>
               ELSE [i \in DOMAIN states |->
                       [states[i] EXCEPT !.kept = StillUsed(@, ends)]]
  /\ UNCHANGED <<live, dataStart, dataEnd, limit>>

RecordState(tag) ==
  /\ live /\ Len(states) < MaxStates
  /\ states' = Append(states, [tag |-> tag, head |-> head, tail |-> tail, kept |-> blocks])
  /\ UNCHANGED <<live, dataStart, dataEnd, head, tail, blocks, limit>>

\* The state a tag names: the latest with that tag, or with tag 0 the latest.
Named(tag, i) ==
  /\ i \in 1..Len(states)
  /\ tag \in {0, states[i].tag}
  /\ \A j \in i + 1..Len(states) : tag # 0 /\ states[j].tag # tag

\* MEMFreeByStateToFrmHeap: both ends come back, what was allocated since is
\* free, and the state and all above it are dropped.
FreeByState(tag) ==
  /\ live
  /\ \E i \in 1..Len(states) :
       /\ Named(tag, i)
       /\ head' = states[i].head
       /\ tail' = states[i].tail
       /\ states' = SubSeq(states, 1, i - 1)
       /\ blocks' = blocks \cap states[i].kept
  /\ UNCHANGED <<live, dataStart, dataEnd, limit>>

\* MEMAdjustFrmHeap: with nothing at the tail the heap ends at its head.  The
\* recorded states stay as they are.
Adjust ==
  /\ live /\ tail = dataEnd
  /\ dataEnd' = head /\ tail' = head
  /\ UNCHANGED <<live, dataStart, head, states, blocks, limit>>

\* Mutation of AllocatableSize: the alignment of the head is not counted.
AllocatableUnaligned(alignment) == IF head >= tail THEN 0 ELSE tail - head

\* MEMGetAllocatableSizeForFrmHeapEx
AllocatableSize(alignment) ==
  LET start == AlignUp(head, Normalised(alignment)) IN
  IF start >= tail THEN 0 ELSE tail - start

Next ==
  \/ \E size \in RegionSizes : Create(size)
  \/ Destroy
  \/ \E size \in Requests, alignment \in Alignments : Alloc(size, alignment)
  \/ \E ends \in SUBSET {"head", "tail"} : Free(ends)
  \/ \E tag \in Tags : RecordState(tag)
  \/ \E tag \in Tags \cup {0} : FreeByState(tag)
  \/ Adjust

Spec == Init /\ [][Next]_vars
------------------------------------------------------------------------------
BlockType == [lo : Nat, hi : Nat, end : {"head", "tail"}]
StateType == [tag : Tags, head : Nat, tail : Nat, kept : SUBSET BlockType]

TypeOK ==
  /\ live \in BOOLEAN
  /\ dataStart \in Nat /\ dataEnd \in Nat /\ head \in Nat /\ tail \in Nat /\ limit \in Nat
  /\ states \in Seq(StateType)
  /\ blocks \in SUBSET BlockType

\* No two allocations the guest may still use share a byte, whatever was freed,
\* recorded, restored and adjusted in between, from either end.
NoOverlap ==
  \A b, c \in blocks : b = c \/ b.hi <= c.lo \/ c.hi <= b.lo

\* README: "returned pointers must fall inside" the region the guest supplied:
\* after the header, before the end it was created with.
InsideRegion ==
  live => \A b \in blocks : DataStart <= b.lo /\ b.lo < b.hi /\ b.hi <= limit

\* The size the heap reports is exactly the largest it grants, from either end.
AllocatableExact ==
  live => \A alignment \in Alignments, size \in Requests \cup 1..limit - Base :
    LET a == Normalised(alignment) IN
    (IF alignment < 0 THEN TailFits(Wanted(size), a) ELSE HeadFits(Wanted(size), a))
      <=> Wanted(size) <= AllocatableSize(alignment)

\* memfrmheap.cpp:182: Adjust shrinks "the heap to end at the current head", and
\* answers the size that is left.  The rest is the guest's again, so every
\* allocation ends before the end of the heap.
InsideHeap == live => \A b \in blocks : b.hi <= dataEnd

\* The inductive strengthening.  What lies outside the gap between an upper and a
\* lower end, the ends being the current ones or those of a recorded state; the
\* gap may be inverted (head > tail), and then nothing is at the tail.
Outside(B, upTo, from) ==
  /\ \A b \in B : b.end = "head" => b.hi <= upTo
  /\ \A b \in B : b.end = "tail" => from <= b.lo /\ upTo <= from

InRegion(upTo, from) == DataStart <= upTo /\ upTo <= limit /\ from <= limit

EndsSound ==
  /\ dataStart = DataStart /\ DataStart <= limit /\ dataEnd <= limit
  /\ InRegion(head, tail) /\ Outside(blocks, head, tail)

StatesSound ==
  \A i \in 1..Len(states) :
    InRegion(states[i].head, states[i].tail)
      /\ Outside(states[i].kept, states[i].head, states[i].tail)

\* A later state keeps all that an earlier one keeps.
StatesNested ==
  \A i \in 1..Len(states) :
    /\ states[i].kept \subseteq blocks
    /\ \A j \in 1..i : states[j].kept \subseteq states[i].kept

IInv ==
  /\ TypeOK /\ NoOverlap /\ InsideRegion
  /\ live => EndsSound /\ StatesSound /\ StatesNested
==============================================================================
