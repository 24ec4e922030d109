---------------------------- MODULE FrmHeapProofs ----------------------------
(***************************************************************************)
(* The frame heap, for every region, request, alignment and number of      *)
(* recorded states: its allocations lie inside the region and never share  *)
(* a byte, and the size it reports is exactly the largest it grants.       *)
(***************************************************************************)
EXTENDS FrmHeap, SequenceTheorems, TLAPS

\* normaliseAlignment answers a positive number, so no align divides by zero.
LEMMA NormalisedPositive ==
  ASSUME NEW alignment \in Int
  PROVE  Normalised(alignment) \in Nat \ {0}
<1>1. Abs(alignment) \in Nat
  BY DEF Abs
<1>2. CASE IsPow2(Abs(alignment))
  BY <1>1, <1>2 DEF Normalised, IsPow2
<1>3. CASE ~IsPow2(Abs(alignment))
  BY <1>3 DEF Normalised
<1>. QED
  BY <1>2, <1>3

\* alignDown stays at most one alignment below its argument.
LEMMA AlignDownBounds ==
  ASSUME NEW v \in Int, NEW a \in Nat \ {0}
  PROVE  /\ AlignDown(v, a) \in Int
         /\ AlignDown(v, a) <= v
         /\ v < AlignDown(v, a) + a
<1>1. v % a \in 0..a - 1
  OBVIOUS
<1>. QED
  BY <1>1 DEF AlignDown

\* alignUp stays at most one alignment above its argument.
LEMMA AlignUpBounds ==
  ASSUME NEW v \in Int, NEW a \in Nat \ {0}
  PROVE  /\ AlignUp(v, a) \in Int
         /\ v <= AlignUp(v, a)
         /\ AlignUp(v, a) < v + a
<1>1. v + a - 1 \in Int
  OBVIOUS
<1>. QED
  BY <1>1, AlignDownBounds DEF AlignUp

\* The start of the data is an address.
LEMMA DataStartTyped == DataStart \in Nat
<1>1. Base + HeaderSize \in Nat /\ Base + HeaderSize \in Int
  BY FrmHeapAssumption
<1>2. DataStart \in Int /\ Base + HeaderSize <= DataStart
  BY <1>1, AlignUpBounds DEF DataStart
<1>. QED
  BY <1>1, <1>2

\* A request is for at least one byte.
LEMMA WantedPositive ==
  ASSUME NEW size \in Nat
  PROVE  Wanted(size) \in Nat \ {0}
BY DEF Wanted

------------------------------------------------------------------------------
\* The heap starts dead and empty.
LEMMA InitSound == Init => IInv
<1>. SUFFICES ASSUME Init PROVE IInv
  OBVIOUS
<1>1. TypeOK
  <2>1. <<>> \in Seq(StateType)
    BY EmptySeq
  <2>. QED
    <3>1. states \in Seq(StateType)
      BY <2>1 DEF Init
    <3>2. live \in BOOLEAN /\ blocks \in SUBSET BlockType
      BY DEF Init
    <3>3. dataStart \in Nat /\ dataEnd \in Nat /\ head \in Nat /\ tail \in Nat /\ limit \in Nat
      BY DEF Init
    <3>. QED
      BY <3>1, <3>2, <3>3 DEF TypeOK
<1>2. ~live /\ blocks = {}
  BY DEF Init
<1>3. NoOverlap /\ InsideRegion
  BY <1>2 DEF NoOverlap, InsideRegion
<1>. QED
  BY <1>1, <1>2, <1>3 DEF IInv

\* MEMCreateFrmHeapEx, also when it refuses a region after writing dataEnd.
LEMMA CreateKeeps ==
  ASSUME IInv, NEW size \in RegionSizes, Create(size)
  PROVE  IInv'
<1>. USE FrmHeapAssumption, DataStartTyped
<1>1. Base + size \in Nat
  OBVIOUS
<1>2. CASE DataStart >= Base + size
  <2>1. UNCHANGED <<live, head, tail, states, blocks, limit>> /\ dataStart' = DataStart
          /\ dataEnd' = Base + size
    BY <1>2 DEF Create
  <2>2. TypeOK'
    BY <1>1, <2>1 DEF IInv, TypeOK
  <2>3. NoOverlap' /\ InsideRegion'
    BY <2>1 DEF IInv, NoOverlap, InsideRegion, DataStart
  <2>4. ASSUME live' PROVE EndsSound' /\ StatesSound' /\ StatesNested'
    <3>1. EndsSound /\ StatesSound /\ StatesNested /\ limit \in Nat
      BY <2>1, <2>4 DEF IInv, TypeOK
    <3>2. EndsSound'
      BY <1>1, <1>2, <2>1, <3>1 DEF EndsSound, InRegion, Outside, DataStart
    <3>. QED
      BY <2>1, <3>1, <3>2 DEF StatesSound, StatesNested, InRegion, Outside, DataStart
  <2>. QED
    BY <2>2, <2>3, <2>4 DEF IInv
<1>3. CASE ~(DataStart >= Base + size)
  <2>1. /\ live' = TRUE /\ states' = <<>> /\ blocks' = {} /\ limit' = Base + size
        /\ head' = DataStart /\ tail' = Base + size
        /\ dataStart' = DataStart /\ dataEnd' = Base + size
    BY <1>3 DEF Create
  <2>2. TypeOK'
    BY <1>1, <2>1, EmptySeq DEF IInv, TypeOK
  <2>3. NoOverlap' /\ InsideRegion'
    BY <2>1 DEF NoOverlap, InsideRegion
  <2>4. EndsSound'
    BY <1>1, <1>3, <2>1 DEF EndsSound, InRegion, Outside, DataStart
  <2>5. StatesSound' /\ StatesNested'
    BY <2>1 DEF StatesSound, StatesNested
  <2>. QED
    BY <2>2, <2>3, <2>4, <2>5 DEF IInv
<1>. QED
  BY <1>2, <1>3

\* MEMDestroyFrmHeap.
LEMMA DestroyKeeps ==
  ASSUME IInv, Destroy
  PROVE  IInv'
<1>1. TypeOK'
  BY EmptySeq DEF IInv, TypeOK, Destroy
<1>2. ~live' /\ blocks' = {}
  BY DEF Destroy
<1>3. NoOverlap' /\ InsideRegion'
  BY <1>2 DEF NoOverlap, InsideRegion
<1>. QED
  BY <1>1, <1>2, <1>3 DEF IInv

\* MEMAllocFromFrmHeapEx with a positive alignment.  All that was allocated ends
\* by head or starts at tail, and the new block lies between the two.
LEMMA AllocHeadKeeps ==
  ASSUME IInv, NEW size \in Nat \ {0}, NEW a \in Nat \ {0}, AllocHead(size, a)
  PROVE  IInv'
<1>. USE DataStartTyped
<1>. DEFINE start == AlignUp(head, a)
            b == Block(start, size, "head")
<1>1. head \in Nat /\ tail \in Nat /\ limit \in Nat /\ blocks \in SUBSET BlockType
  BY DEF IInv, TypeOK
<1>2. start \in Nat /\ head <= start
  <2>1. head \in Int
    BY <1>1
  <2>2. start \in Int /\ head <= start
    BY <2>1, AlignUpBounds
  <2>. QED
    BY <1>1, <2>2
<1>3. /\ live /\ start + size <= tail
      /\ head' = start + size /\ blocks' = blocks \cup {b}
      /\ UNCHANGED <<live, dataStart, dataEnd, tail, states, limit>>
  BY DEF AllocHead, HeadFits
<1>4. EndsSound /\ StatesSound /\ StatesNested /\ NoOverlap /\ InsideRegion
  BY <1>3 DEF IInv
<1>. HIDE DEF start
<1>5. b.lo = start /\ b.hi = start + size /\ b.end = "head" /\ b \in BlockType
  BY <1>2 DEF Block, BlockType
<1>6. TypeOK'
  BY <1>1, <1>2, <1>3, <1>5 DEF IInv, TypeOK
<1>7. \A c \in blocks : c.hi <= b.lo \/ b.hi <= c.lo
  <2>. SUFFICES ASSUME NEW c \in blocks PROVE c.hi <= b.lo \/ b.hi <= c.lo
    OBVIOUS
  <2>1. c.lo \in Nat /\ c.hi \in Nat /\ c.end \in {"head", "tail"}
    BY <1>1 DEF BlockType
  <2>. QED
    BY <1>1, <1>2, <1>3, <1>4, <1>5, <2>1 DEF EndsSound, Outside
<1>8. NoOverlap'
  BY <1>3, <1>4, <1>7 DEF NoOverlap
<1>9. InsideRegion'
  BY <1>1, <1>2, <1>3, <1>4, <1>5 DEF InsideRegion, EndsSound, InRegion, BlockType, DataStart
<1>10. EndsSound'
  <2>1. InRegion(head, tail)'
    BY <1>1, <1>2, <1>3, <1>4 DEF EndsSound, InRegion, DataStart
  <2>2. Outside(blocks, head, tail)'
    BY <1>1, <1>2, <1>3, <1>4, <1>5 DEF EndsSound, Outside, BlockType
  <2>. QED
    BY <1>3, <1>4, <2>1, <2>2 DEF EndsSound, DataStart
<1>11. StatesSound' /\ StatesNested'
  BY <1>3, <1>4 DEF StatesSound, StatesNested, InRegion, Outside, DataStart
<1>. QED
  BY <1>6, <1>8, <1>9, <1>10, <1>11 DEF IInv

\* MEMAllocFromFrmHeapEx with a negative alignment, from the tail.
LEMMA AllocTailKeeps ==
  ASSUME IInv, NEW size \in Nat \ {0}, NEW a \in Nat \ {0}, AllocTail(size, a)
  PROVE  IInv'
<1>. USE DataStartTyped
<1>. DEFINE start == AlignDown(tail - size, a)
            b == Block(start, size, "tail")
<1>1. head \in Nat /\ tail \in Nat /\ limit \in Nat /\ blocks \in SUBSET BlockType
  BY DEF IInv, TypeOK
<1>2. start \in Nat /\ start <= tail - size
  <2>1. tail - size \in Int
    BY <1>1
  <2>2. start \in Int /\ start <= tail - size
    BY <2>1, AlignDownBounds
  <2>3. head <= start
    BY DEF AllocTail, TailFits
  <2>. QED
    BY <1>1, <2>2, <2>3
<1>3. /\ live /\ head <= start
      /\ tail' = start /\ blocks' = blocks \cup {b}
      /\ UNCHANGED <<live, dataStart, dataEnd, head, states, limit>>
  BY DEF AllocTail, TailFits
<1>4. EndsSound /\ StatesSound /\ StatesNested /\ NoOverlap /\ InsideRegion
  BY <1>3 DEF IInv
<1>. HIDE DEF start
<1>5. b.lo = start /\ b.hi = start + size /\ b.end = "tail" /\ b \in BlockType
  BY <1>2 DEF Block, BlockType
<1>6. TypeOK'
  BY <1>1, <1>2, <1>3, <1>5 DEF IInv, TypeOK
<1>7. \A c \in blocks : c.hi <= b.lo \/ b.hi <= c.lo
  <2>. SUFFICES ASSUME NEW c \in blocks PROVE c.hi <= b.lo \/ b.hi <= c.lo
    OBVIOUS
  <2>1. c.lo \in Nat /\ c.hi \in Nat /\ c.end \in {"head", "tail"}
    BY <1>1 DEF BlockType
  <2>. QED
    BY <1>1, <1>2, <1>3, <1>4, <1>5, <2>1 DEF EndsSound, Outside
<1>8. NoOverlap'
  BY <1>3, <1>4, <1>7 DEF NoOverlap
<1>9. InsideRegion'
  BY <1>1, <1>2, <1>3, <1>4, <1>5 DEF InsideRegion, EndsSound, InRegion, BlockType, DataStart
<1>10. EndsSound'
  <2>1. InRegion(head, tail)'
    BY <1>1, <1>2, <1>3, <1>4 DEF EndsSound, InRegion, DataStart
  <2>2. Outside(blocks, head, tail)'
    BY <1>1, <1>2, <1>3, <1>4, <1>5 DEF EndsSound, Outside, BlockType
  <2>. QED
    BY <1>3, <1>4, <2>1, <2>2 DEF EndsSound, DataStart
<1>11. StatesSound' /\ StatesNested'
  BY <1>3, <1>4 DEF StatesSound, StatesNested, InRegion, Outside, DataStart
<1>. QED
  BY <1>6, <1>8, <1>9, <1>10, <1>11 DEF IInv

\* MEMFreeToFrmHeap.  An end that was freed is back at its edge of the region,
\* with nothing left there.
LEMMA FreeKeeps ==
  ASSUME IInv, NEW ends \in SUBSET {"head", "tail"}, Free(ends)
  PROVE  IInv'
<1>. USE DataStartTyped
<1>1. /\ head \in Nat /\ tail \in Nat /\ limit \in Nat /\ dataEnd \in Nat
      /\ dataStart \in Nat /\ live \in BOOLEAN
      /\ blocks \in SUBSET BlockType /\ states \in Seq(StateType)
  BY DEF IInv, TypeOK
<1>2. /\ live /\ UNCHANGED <<live, dataStart, dataEnd, limit>>
      /\ head' = IF "head" \in ends THEN dataStart ELSE head
      /\ tail' = IF "tail" \in ends THEN dataEnd ELSE tail
      /\ blocks' = {b \in blocks : b.end \notin ends}
  BY DEF Free, StillUsed
<1>3. EndsSound /\ StatesSound /\ StatesNested /\ NoOverlap /\ InsideRegion
  BY <1>2 DEF IInv
<1>4. NoOverlap' /\ InsideRegion'
  BY <1>2, <1>3 DEF NoOverlap, InsideRegion, DataStart
<1>5. EndsSound'
  <2>1. InRegion(head, tail)'
    BY <1>1, <1>2, <1>3 DEF EndsSound, InRegion, DataStart
  <2>2. ASSUME NEW b \in blocks', b.end = "head" PROVE b.hi <= head'
    BY <1>1, <1>2, <1>3, <2>2 DEF EndsSound, Outside
  <2>3. ASSUME NEW b \in blocks', b.end = "tail" PROVE tail' <= b.lo /\ head' <= tail'
    BY <1>1, <1>2, <1>3, <2>3 DEF EndsSound, Outside, InRegion
  <2>. QED
    BY <1>2, <1>3, <2>1, <2>2, <2>3 DEF EndsSound, Outside, DataStart
<1>6. CASE ends = {"head", "tail"}
  <2>1. states' = <<>>
    BY <1>6 DEF Free
  <2>2. TypeOK'
    BY <1>1, <1>2, <2>1, EmptySeq DEF TypeOK
  <2>3. StatesSound' /\ StatesNested'
    BY <2>1 DEF StatesSound, StatesNested
  <2>. QED
    BY <1>4, <1>5, <2>2, <2>3 DEF IInv
<1>7. CASE ends # {"head", "tail"}
  <2>1. states' = [i \in 1..Len(states) |->
                     [states[i] EXCEPT !.kept = {b \in @ : b.end \notin ends}]]
    BY <1>1, <1>7, LenProperties DEF Free, StillUsed
  <2>2. Len(states) \in Nat /\ \A i \in 1..Len(states) : states[i] \in StateType
    BY <1>1, ElementOfSeq, LenProperties
  <2>3. \A i \in 1..Len(states) :
          [states[i] EXCEPT !.kept = {b \in @ : b.end \notin ends}] \in StateType
    BY <2>2 DEF StateType
  <2>4. states' \in Seq(StateType) /\ Len(states') = Len(states)
    BY <2>1, <2>2, <2>3
  <2>5. \A i \in 1..Len(states) :
          /\ states'[i].head = states[i].head /\ states'[i].tail = states[i].tail
          /\ states'[i].kept = {b \in states[i].kept : b.end \notin ends}
    BY <2>1, <2>2 DEF StateType
  <2>6. TypeOK'
    BY <1>1, <1>2, <2>4 DEF TypeOK
  <2>7. StatesSound'
    BY <1>2, <1>3, <2>4, <2>5 DEF StatesSound, InRegion, Outside, DataStart
  <2>8. StatesNested'
    <3>. SUFFICES ASSUME NEW i \in 1..Len(states)
                  PROVE  /\ states'[i].kept \subseteq blocks'
                         /\ \A j \in 1..i : states'[j].kept \subseteq states'[i].kept
      BY <2>4 DEF StatesNested
    <3>1. states'[i].kept \subseteq blocks'
      BY <1>2, <1>3, <2>5 DEF StatesNested
    <3>2. ASSUME NEW j \in 1..i PROVE states'[j].kept \subseteq states'[i].kept
      <4>1. j \in 1..Len(states) /\ states[j].kept \subseteq states[i].kept
        BY <1>3, <2>2 DEF StatesNested
      <4>. QED
        BY <2>5, <4>1
    <3>. QED
      BY <3>1, <3>2
  <2>. QED
    BY <1>4, <1>5, <2>6, <2>7, <2>8 DEF IInv
<1>. QED
  BY <1>6, <1>7

\* MEMRecordStateForFrmHeap: the new state keeps all there is.
LEMMA RecordStateKeeps ==
  ASSUME IInv, NEW tag \in Tags, RecordState(tag)
  PROVE  IInv'
<1>. DEFINE now == [tag |-> tag, head |-> head, tail |-> tail, kept |-> blocks]
<1>1. /\ live /\ states' = Append(states, now)
      /\ UNCHANGED <<live, dataStart, dataEnd, head, tail, blocks, limit>>
  BY DEF RecordState
<1>2. TypeOK /\ EndsSound /\ StatesSound /\ StatesNested /\ NoOverlap /\ InsideRegion
  BY <1>1 DEF IInv
<1>3. now \in StateType /\ states \in Seq(StateType)
  BY <1>2 DEF TypeOK, StateType
<1>4. now.head = head /\ now.tail = tail /\ now.kept = blocks
  OBVIOUS
<1>. HIDE DEF now
<1>5. /\ states' \in Seq(StateType) /\ Len(states) \in Nat
      /\ Len(states') = Len(states) + 1
      /\ \A i \in 1..Len(states) : states'[i] = states[i]
      /\ states'[Len(states) + 1] = now
  BY <1>1, <1>3, AppendProperties, LenProperties
<1>6. TypeOK'
  BY <1>1, <1>2, <1>5 DEF TypeOK
<1>7. NoOverlap' /\ InsideRegion' /\ EndsSound'
  BY <1>1, <1>2 DEF NoOverlap, InsideRegion, EndsSound, InRegion, Outside, DataStart
<1>8. ASSUME NEW i \in 1..Len(states')
      PROVE  (InRegion(states[i].head, states[i].tail)
                /\ Outside(states[i].kept, states[i].head, states[i].tail))'
  <2>1. CASE i \in 1..Len(states)
    BY <1>1, <1>2, <1>5, <2>1 DEF StatesSound, InRegion, Outside, DataStart
  <2>2. CASE i = Len(states) + 1
    BY <1>1, <1>2, <1>4, <1>5, <2>2 DEF EndsSound, InRegion, Outside, DataStart
  <2>. QED
    BY <1>5, <2>1, <2>2
<1>9. ASSUME NEW i \in 1..Len(states')
      PROVE  states'[i].kept \subseteq blocks
               /\ \A j \in 1..i : states'[j].kept \subseteq states'[i].kept
  <2>1. CASE i \in 1..Len(states)
    BY <1>2, <1>5, <2>1 DEF StatesNested
  <2>2. CASE i = Len(states) + 1
    BY <1>2, <1>4, <1>5, <2>2 DEF StatesNested
  <2>. QED
    BY <1>5, <2>1, <2>2
<1>10. StatesSound' /\ StatesNested'
  BY <1>1, <1>8, <1>9 DEF StatesSound, StatesNested
<1>. QED
  BY <1>6, <1>7, <1>10 DEF IInv

\* MEMFreeByStateToFrmHeap: what the state kept is what is left.
LEMMA FreeByStateKeeps ==
  ASSUME IInv, NEW tag \in Tags \cup {0}, FreeByState(tag)
  PROVE  IInv'
<1>. USE DataStartTyped
<1>1. PICK i \in 1..Len(states) :
        /\ head' = states[i].head /\ tail' = states[i].tail
        /\ states' = SubSeq(states, 1, i - 1)
        /\ blocks' = blocks \cap states[i].kept
  BY DEF FreeByState
<1>2. live /\ UNCHANGED <<live, dataStart, dataEnd, limit>>
  BY DEF FreeByState
<1>3. TypeOK /\ EndsSound /\ StatesSound /\ StatesNested /\ NoOverlap /\ InsideRegion
  BY <1>2 DEF IInv
<1>4. /\ states \in Seq(StateType) /\ Len(states) \in Nat /\ states[i] \in StateType
      /\ \A j \in 1..i - 1 : states[j] \in StateType
  BY <1>3, ElementOfSeq, LenProperties DEF TypeOK
<1>5. /\ states' \in Seq(StateType) /\ Len(states') = i - 1
      /\ \A j \in 1..i - 1 : states'[j] = states[j]
  <2>1. \A j \in 1..i - 1 : states[1 + j - 1] = states[j]
    OBVIOUS
  <2>2. i - 1 \in Int /\ (IF 1 <= i - 1 THEN i - 1 - 1 + 1 ELSE 0) = i - 1 /\ i - 1 - 1 + 1 = i - 1
    OBVIOUS
  <2>. QED
    BY <1>1, <1>4, <2>1, <2>2, SubSeqProperties
<1>6. TypeOK'
  BY <1>1, <1>2, <1>3, <1>4, <1>5 DEF TypeOK, StateType
<1>7. NoOverlap' /\ InsideRegion'
  BY <1>1, <1>2, <1>3 DEF NoOverlap, InsideRegion, DataStart
<1>8. EndsSound'
  BY <1>1, <1>2, <1>3 DEF EndsSound, StatesSound, InRegion, Outside, DataStart
<1>9. StatesSound'
  BY <1>2, <1>3, <1>4, <1>5, SMTT(60) DEF StatesSound, InRegion, Outside, DataStart
<1>10. StatesNested'
  <2>. SUFFICES ASSUME NEW j \in 1..i - 1
                PROVE  /\ states'[j].kept \subseteq blocks'
                       /\ \A k \in 1..j : states'[k].kept \subseteq states'[j].kept
    BY <1>5 DEF StatesNested
  <2>1. j \in 1..Len(states) /\ j \in 1..i
    BY <1>4
  <2>2. states'[j].kept \subseteq blocks'
    BY <1>1, <1>3, <1>5, <2>1 DEF StatesNested
  <2>3. ASSUME NEW k \in 1..j PROVE states'[k].kept \subseteq states'[j].kept
    <3>1. k \in 1..i - 1
      OBVIOUS
    <3>. QED
      BY <1>3, <1>5, <2>1, <3>1 DEF StatesNested
  <2>. QED
    BY <2>2, <2>3
<1>. QED
  BY <1>6, <1>7, <1>8, <1>9, <1>10 DEF IInv

\* MEMAdjustFrmHeap.
LEMMA AdjustKeeps ==
  ASSUME IInv, Adjust
  PROVE  IInv'
<1>. USE DataStartTyped
<1>1. /\ live /\ dataEnd' = head /\ tail' = head
      /\ UNCHANGED <<live, dataStart, head, states, blocks, limit>>
  BY DEF Adjust
<1>2. TypeOK /\ EndsSound /\ StatesSound /\ StatesNested /\ NoOverlap /\ InsideRegion
  BY <1>1 DEF IInv
<1>3. TypeOK'
  BY <1>1, <1>2 DEF TypeOK
<1>4. NoOverlap' /\ InsideRegion'
  BY <1>1, <1>2 DEF NoOverlap, InsideRegion, DataStart
<1>5. ASSUME NEW b \in blocks, b.end = "tail" PROVE head <= b.lo
  <2>1. b.lo \in Nat /\ head \in Nat /\ tail \in Nat
    BY <1>2 DEF TypeOK, BlockType
  <2>. QED
    BY <1>2, <1>5, <2>1 DEF EndsSound, Outside
<1>6. EndsSound'
  BY <1>1, <1>2, <1>5 DEF TypeOK, EndsSound, InRegion, Outside, DataStart
<1>7. StatesSound' /\ StatesNested'
  BY <1>1, <1>2 DEF StatesSound, StatesNested, InRegion, Outside, DataStart
<1>. QED
  BY <1>3, <1>4, <1>6, <1>7 DEF IInv

------------------------------------------------------------------------------
\* Every operation of the heap, and the guest's other steps, keep the invariant.
LEMMA NextKeeps == IInv /\ [Next]_vars => IInv'
<1>. SUFFICES ASSUME IInv, [Next]_vars PROVE IInv'
  OBVIOUS
<1>1. CASE UNCHANGED vars
  BY <1>1 DEF IInv, TypeOK, NoOverlap, InsideRegion, EndsSound, StatesSound, StatesNested,
              InRegion, Outside, DataStart, vars
<1>2. ASSUME NEW size \in RegionSizes, Create(size) PROVE IInv'
  BY <1>2, CreateKeeps
<1>3. CASE Destroy
  BY <1>3, DestroyKeeps
<1>4. ASSUME NEW size \in Requests, NEW alignment \in Alignments, Alloc(size, alignment)
      PROVE  IInv'
  <2>1. Wanted(size) \in Nat \ {0} /\ Normalised(alignment) \in Nat \ {0}
    BY FrmHeapAssumption, WantedPositive, NormalisedPositive
  <2>. QED
    BY <1>4, <2>1, AllocHeadKeeps, AllocTailKeeps DEF Alloc
<1>5. ASSUME NEW ends \in SUBSET {"head", "tail"}, Free(ends) PROVE IInv'
  BY <1>5, FreeKeeps
<1>6. ASSUME NEW tag \in Tags, RecordState(tag) PROVE IInv'
  BY <1>6, RecordStateKeeps
<1>7. ASSUME NEW tag \in Tags \cup {0}, FreeByState(tag) PROVE IInv'
  BY <1>7, FreeByStateKeeps
<1>8. CASE Adjust
  BY <1>8, AdjustKeeps
<1>. QED
  BY <1>1, <1>2, <1>3, <1>4, <1>5, <1>6, <1>7, <1>8 DEF Next

\* The strengthened invariant holds of every run of the heap.
THEOREM Invariance == Spec => []IInv
<1>1. Init => IInv
  BY InitSound
<1>2. IInv /\ [Next]_vars => IInv'
  BY NextKeeps
<1>. QED
  BY <1>1, <1>2, PTL DEF Spec

\* The heap's fields, recorded states and allocations keep their types.
THEOREM Typing == Spec => []TypeOK
<1>1. IInv => TypeOK
  BY DEF IInv
<1>. QED
  BY <1>1, Invariance, PTL

\* MEMAllocFromFrmHeapEx never hands out a byte that is still in use, whatever
\* was freed, recorded, restored and adjusted before, from either end.
THEOREM BlocksAreDisjoint == Spec => []NoOverlap
<1>1. IInv => NoOverlap
  BY DEF IInv
<1>. QED
  BY <1>1, Invariance, PTL

\* "Returned pointers must fall inside" the region: behind the header and before
\* the end of what the guest gave MEMCreateFrmHeapEx, to their last byte.
THEOREM BlocksAreInside == Spec => []InsideRegion
<1>1. IInv => InsideRegion
  BY DEF IInv
<1>. QED
  BY <1>1, Invariance, PTL

------------------------------------------------------------------------------
\* A multiple of a that lies below another plus a is no larger than it.
LEMMA MultiplesApart ==
  ASSUME NEW a \in Nat \ {0}, NEW p \in Int, NEW q \in Int, a * p < a * q + a
  PROVE  a * p <= a * q
<1>1. a * q + a = a * (q + 1)
  OBVIOUS
<1>2. CASE p <= q
  BY <1>2
<1>3. CASE q + 1 <= p
  <2>1. PICK d \in Nat : p = q + 1 + d
    BY <1>3
  <2>2. a * p = a * (q + 1) + a * d
    BY <2>1
  <2>3. a * d \in Nat
    OBVIOUS
  <2>. QED
    BY <1>1, <2>2, <2>3
<1>. QED
  BY <1>2, <1>3

\* alignDown answers a multiple of the alignment.
LEMMA AlignDownIsMultiple ==
  ASSUME NEW v \in Int, NEW a \in Nat \ {0}
  PROVE  \E q \in Int : AlignDown(v, a) = a * q
<1>1. v = a * (v \div a) + (v % a) /\ v \div a \in Int /\ v % a \in Int
  OBVIOUS
<1>2. AlignDown(v, a) = a * (v \div a)
  BY <1>1 DEF AlignDown
<1>. QED
  BY <1>1, <1>2

\* Rounding the lower end up and the upper end down ask the same question: a
\* block that fits when placed from one end fits when placed from the other.
LEMMA AlignmentsAgree ==
  ASSUME NEW v \in Int, NEW w \in Int, NEW a \in Nat \ {0}
  PROVE  v <= AlignDown(w, a) <=> AlignUp(v, a) <= w
<1>1. PICK p \in Int : AlignUp(v, a) = a * p
  BY AlignDownIsMultiple, v + a - 1 \in Int DEF AlignUp
<1>2. PICK q \in Int : AlignDown(w, a) = a * q
  BY AlignDownIsMultiple
<1>3. a * p \in Int /\ v <= a * p /\ a * p < v + a
  BY <1>1, AlignUpBounds
<1>4. a * q \in Int /\ a * q <= w /\ w < a * q + a
  BY <1>2, AlignDownBounds
<1>5. ASSUME v <= a * q PROVE a * p <= w
  <2>1. a * p < a * q + a
    BY <1>3, <1>4, <1>5
  <2>2. a * p <= a * q
    BY <2>1, MultiplesApart
  <2>. QED
    BY <1>3, <1>4, <2>2
<1>6. ASSUME a * p <= w PROVE v <= a * q
  <2>1. a * p < a * q + a
    BY <1>3, <1>4, <1>6
  <2>2. a * p <= a * q
    BY <2>1, MultiplesApart
  <2>. QED
    BY <1>3, <1>4, <2>2
<1>. QED
  BY <1>1, <1>2, <1>5, <1>6

\* MEMGetAllocatableSizeForFrmHeapEx promises no byte that the next allocation
\* refuses, and hides none that it would grant.
THEOREM AllocatableIsExact == Spec => []AllocatableExact
<1>1. ASSUME TypeOK PROVE AllocatableExact
  <2>. SUFFICES ASSUME NEW alignment \in Alignments, NEW size \in Requests \cup 1..limit - Base
                PROVE  (IF alignment < 0
                        THEN TailFits(Wanted(size), Normalised(alignment))
                        ELSE HeadFits(Wanted(size), Normalised(alignment)))
                          <=> Wanted(size) <= AllocatableSize(alignment)
    BY DEF AllocatableExact
  <2>. DEFINE a == Normalised(alignment)
              n == Wanted(size)
              start == AlignUp(head, a)
  <2>1. head \in Int /\ tail \in Int /\ limit \in Int /\ Base \in Int
    BY <1>1, FrmHeapAssumption DEF TypeOK
  <2>2. a \in Nat \ {0} /\ alignment \in Int
    BY FrmHeapAssumption, NormalisedPositive
  <2>3. n \in Nat \ {0}
    <3>1. size \in Nat
      BY <2>1, FrmHeapAssumption
    <3>. QED
      BY <3>1, WantedPositive
  <2>. HIDE DEF a, n
  <2>4. start \in Int /\ head <= start
    BY <2>1, <2>2, AlignUpBounds
  <2>5. n <= AllocatableSize(alignment) <=> start + n <= tail
    BY <2>1, <2>3, <2>4 DEF AllocatableSize, a
  <2>6. HeadFits(n, a) <=> start + n <= tail
    BY <2>4 DEF HeadFits
  <2>7. TailFits(n, a) <=> start + n <= tail
    <3>1. tail - n \in Int
      BY <2>1, <2>3
    <3>2. /\ AlignDown(tail - n, a) \in Int /\ AlignDown(tail - n, a) <= tail - n
          /\ head <= AlignDown(tail - n, a) <=> start <= tail - n
      BY <2>1, <2>2, <3>1, AlignDownBounds, AlignmentsAgree
    <3>. QED
      BY <2>1, <2>3, <2>4, <3>2 DEF TailFits
  <2>. QED
    BY <2>5, <2>6, <2>7 DEF a, n
<1>. QED
  BY <1>1, Typing, PTL
==============================================================================
