------------------------------ MODULE HeapsProofs ------------------------------
(***************************************************************************)
(* Proofs about the expanded heap, for every region, header, request and   *)
(* alignment: its blocks tile the region, every payload lies behind its    *)
(* header, the size it reports is what it grants, and it implements an     *)
(* allocator of disjoint ranges.                                           *)
(***************************************************************************)
EXTENDS Heaps, FrmHeapProofs, WellFoundedInduction, NaturalsInduction

\* Induction over a set of numbers, and its least one.
LEMMA LeastOf ==
  ASSUME NEW A \in SUBSET Nat, A # {}
  PROVE  \E n \in A : \A k \in A : n <= k
<1> DEFINE Below == {p \in Nat \X Nat : p[1] < p[2]}
<1>1. OpToRel(<, Nat) = Below
  BY DEF OpToRel
<1>2. IsWellFoundedOn(Below, Nat)
  BY NatLessThanWellFounded, <1>1
<1>3. \E n \in A : \A k \in A : <<k, n>> \notin Below
  BY <1>2, WFMin
<1>4. \A k, n \in Nat : <<k, n>> \in Below <=> k < n
  OBVIOUS
<1> HIDE DEF Below
<1>5. PICK n \in A : \A k \in A : <<k, n>> \notin Below
  BY <1>3
<1>6. \A k \in A : k \in Nat /\ n \in Nat /\ ~(k < n)
  BY <1>4, <1>5
<1> QED BY <1>6

\* A set of numbers with 0 and every successor is Nat: coalesce's loop is read off it.
LEMMA Inductive ==
  ASSUME NEW A \in SUBSET Nat, 0 \in A, \A n \in A : n + 1 \in A
  PROVE  A = Nat
<1>1. SUFFICES ASSUME Nat \ A # {} PROVE FALSE
  OBVIOUS
<1>2. PICK n \in Nat \ A : \A k \in Nat \ A : n <= k
  BY <1>1, LeastOf
<1>3. n - 1 \in Nat /\ n - 1 \notin Nat \ A
  BY <1>2
<1> QED BY <1>2, <1>3
-------------------------------------------------------------------------------
\* A Block of memexpheap.cpp.
ExpBlock == [start : Nat, end : Nat, used : BOOLEAN, payload : Nat, payloadSize : Nat]

\* The blocks of a list follow one another without a gap.
Contiguous(bs) ==
  \A i \in 1..Len(bs) : bs[i].start < bs[i].end /\ (i > 1 => bs[i].start = bs[i - 1].end)

\* No two free ones are neighbours.
NoFreeNeighbours(bs) == \A i \in 1..Len(bs) : i > 1 => bs[i].used \/ bs[i - 1].used

\* They cover everything from lo to hi.
Tiling(bs, lo, hi) ==
  /\ bs \in Seq(ExpBlock) /\ bs # <<>> /\ Contiguous(bs) /\ NoFreeNeighbours(bs)
  /\ bs[1].start = lo /\ bs[Len(bs)].end = hi

\* Those in use.
UsedOf(bs) == {b \in ExpBlock : \E i \in 1..Len(bs) : bs[i] = b /\ b.used}

\* A free block has its bounds and nothing in it.
LEMMA FreeBlockIs ==
  ASSUME NEW s \in Nat, NEW e \in Nat
  PROVE  /\ X!FreeBlock(s, e) \in ExpBlock /\ ~X!FreeBlock(s, e).used
         /\ X!FreeBlock(s, e).start = s /\ X!FreeBlock(s, e).end = e
BY DEF X!FreeBlock, ExpBlock

\* A block that joins those before it makes the list as much longer.
LEMMA JoinedIs ==
  ASSUME NEW d \in Seq(ExpBlock), NEW b \in ExpBlock, Contiguous(d), NoFreeNeighbours(d), b.start < b.end,
         d # <<>> => d[Len(d)].end = b.start, NEW r, r = X!Joined(d, b)
  PROVE  /\ r \in Seq(ExpBlock) /\ Contiguous(r) /\ NoFreeNeighbours(r)
         /\ r # <<>> /\ r[Len(r)].end = b.end
         /\ r[1].start = IF d = <<>> THEN b.start ELSE d[1].start
         /\ \A x \in ExpBlock : x \in UsedOf(r) <=> x \in UsedOf(d) \/ (x = b /\ b.used)
<1>1. PICK n : n = Len(d)
  OBVIOUS
<1>2. n \in Nat /\ (d = <<>> <=> n = 0) /\ \A i \in 1..n : d[i] \in ExpBlock
  BY <1>1
<1>3. CASE d # <<>> /\ ~d[n].used /\ ~b.used
  <2>1. PICK f : f = X!FreeBlock(d[n].start, b.end)
    OBVIOUS
  <2>2. n \in 1..n /\ d[n] \in ExpBlock
    BY <1>2, <1>3
  <2>3. f \in ExpBlock /\ ~f.used /\ f.start = d[n].start /\ f.end = b.end
    <3>1. d[n].start \in Nat /\ b.end \in Nat
      BY <2>2 DEF ExpBlock
    <3> QED BY <2>1, <3>1, FreeBlockIs
  <2>4. r = Append(X!Front(d), f)
    BY <1>1, <1>3, <2>1 DEF X!Joined, X!Last
  <2>5. /\ X!Front(d) \in Seq(ExpBlock) /\ Len(X!Front(d)) = n - 1
        /\ \A i \in 1..n - 1 : X!Front(d)[i] = d[i]
    <3>1. \A i \in 1..n - 1 : d[i] \in ExpBlock
      BY <1>2
    <3>2. 1 \in Int /\ n - 1 \in Int /\ n >= 1
      BY <2>2
    <3>3. X!Front(d) = SubSeq(d, 1, n - 1)
      BY <1>1 DEF X!Front
    <3> QED BY <1>1, <3>1, <3>2, <3>3, SubSeqProperties
  <2>6. /\ r \in Seq(ExpBlock) /\ Len(r) = n
        /\ r[n] = f /\ \A i \in 1..n - 1 : r[i] = d[i]
    BY <2>2, <2>3, <2>4, <2>5
  <2>7. d[n].start < d[n].end /\ d[n].end = b.start /\ d[n].start \in Nat /\ d[n].end \in Nat /\ b.end \in Nat
    BY <1>1, <2>2 DEF Contiguous, ExpBlock
  <2>8. Contiguous(r)
    BY <1>1, <1>2, <2>2, <2>3, <2>6, <2>7, SMTT(60) DEF Contiguous
  <2>9. NoFreeNeighbours(r)
    BY <1>1, <1>2, <1>3, <2>2, <2>3, <2>6 DEF NoFreeNeighbours
  <2>10. \A x \in ExpBlock : x \in UsedOf(r) <=> x \in UsedOf(d)
    BY <1>1, <1>3, <2>2, <2>3, <2>6, SMTT(60) DEF UsedOf
  <2>11. r # <<>> /\ r[Len(r)].end = b.end
    BY <2>2, <2>3, <2>6
  <2>12. r[1].start = d[1].start
    BY <2>2, <2>3, <2>6
  <2> QED BY <1>3, <2>6, <2>8, <2>9, <2>10, <2>11, <2>12
<1>4. CASE ~(d # <<>> /\ ~d[n].used /\ ~b.used)
  <2>1. r = Append(d, b)
    BY <1>1, <1>4 DEF X!Joined, X!Last
  <2>2. r \in Seq(ExpBlock) /\ Len(r) = n + 1 /\ r[n + 1] = b /\ \A i \in 1..n : r[i] = d[i]
    BY <1>1, <2>1
  <2>3. Contiguous(r)
    <3>1. ASSUME NEW i \in 1..n + 1 PROVE r[i].start < r[i].end /\ (i > 1 => r[i].start = r[i - 1].end)
      <4>1. CASE i = n + 1
        BY <1>1, <1>2, <2>2, <4>1
      <4>2. CASE i # n + 1
        BY <1>1, <1>2, <2>2, <4>2 DEF Contiguous
      <4> QED BY <4>1, <4>2
    <3> QED BY <2>2, <3>1 DEF Contiguous
  <2>4. NoFreeNeighbours(r)
    <3>1. ASSUME NEW i \in 1..n + 1, i > 1 PROVE r[i].used \/ r[i - 1].used
      <4>1. CASE i = n + 1
        BY <1>1, <1>2, <1>4, <2>2, <3>1, <4>1
      <4>2. CASE i # n + 1
        BY <1>1, <1>2, <2>2, <3>1, <4>2, SMTT(60) DEF NoFreeNeighbours
      <4> QED BY <4>1, <4>2
    <3> QED BY <2>2, <3>1 DEF NoFreeNeighbours
  <2>5. \A x \in ExpBlock : x \in UsedOf(r) <=> x \in UsedOf(d) \/ (x = b /\ b.used)
    BY <1>1, <1>2, <2>2 DEF UsedOf
  <2>6. r # <<>> /\ r[Len(r)].end = b.end /\ r[1].start = IF d = <<>> THEN b.start ELSE d[1].start
    BY <1>1, <1>2, <2>2
  <2> QED BY <2>2, <2>3, <2>4, <2>5, <2>6
<1> QED BY <1>3, <1>4

\* MEMFreeToExpHeap's coalesce builds its list one block at a time.
CoalesceBy(bs, f) ==
  f = [k \in 0..Len(bs) |-> IF k = 0 THEN <<>> ELSE X!Joined(f[k - 1], bs[k])]

\* What coalesce has of the first k blocks: they tile what these tile, with no two
\* free neighbours and the same blocks in use.
MergedTo(bs, k, d) ==
  /\ d \in Seq(ExpBlock) /\ Contiguous(d) /\ NoFreeNeighbours(d)
  /\ d = <<>> <=> k = 0
  /\ k > 0 => d[1].start = bs[1].start /\ d[Len(d)].end = bs[k].end
  /\ \A x \in ExpBlock : x \in UsedOf(d) <=> \E j \in 1..k : bs[j] = x /\ x.used

\* The loop of coalesce has a result for each number of blocks.
LEMMA CoalesceRuns ==
  ASSUME NEW bs \in Seq(ExpBlock)
  PROVE  \E f : CoalesceBy(bs, f)
<1>1. PICK n : n = Len(bs)
  OBVIOUS
<1>2. n \in Nat
  BY <1>1
<1> DEFINE To(m, f) == f = [k \in 0..m |-> IF k = 0 THEN <<>> ELSE X!Joined(f[k - 1], bs[k])]
           A == {m \in Nat : \E f : To(m, f)}
<1>3. 0 \in A
  <2>1. PICK f : f = [k \in 0..0 |-> <<>>]
    OBVIOUS
  <2>2. To(0, f)
    BY <2>1
  <2> QED BY <2>2
<1>4. ASSUME NEW m \in A PROVE m + 1 \in A
  <2>1. PICK f : To(m, f)
    OBVIOUS
  <2>2. PICK g : g = [k \in 0..m + 1 |-> IF k = m + 1 THEN X!Joined(f[m], bs[m + 1]) ELSE f[k]]
    OBVIOUS
  <2>3. m \in Nat /\ \A k \in 0..m : g[k] = f[k]
    BY <2>2
  <2>4. g[m + 1] = X!Joined(f[m], bs[m + 1])
    BY <2>2, <2>3
  <2>5. ASSUME NEW k \in 0..m + 1
        PROVE  g[k] = IF k = 0 THEN <<>> ELSE X!Joined(g[k - 1], bs[k])
    <3>1. CASE k = m + 1
      <4>1. k # 0 /\ k - 1 = m /\ m \in 0..m
        BY <2>3, <3>1
      <4>2. g[k - 1] = f[m]
        BY <2>3, <4>1
      <4> QED BY <2>4, <3>1, <4>1, <4>2
    <3>2. CASE k = 0
      <4>1. k \in 0..m
        BY <2>3, <3>2
      <4>2. f[k] = IF k = 0 THEN <<>> ELSE X!Joined(f[k - 1], bs[k])
        BY <2>1, <4>1
      <4> QED BY <2>3, <3>2, <4>1, <4>2
    <3>3. CASE k # m + 1 /\ k # 0
      <4>1. k \in 0..m /\ k - 1 \in 0..m
        BY <2>3, <3>3
      <4>2. f[k] = IF k = 0 THEN <<>> ELSE X!Joined(f[k - 1], bs[k])
        BY <2>1, <4>1
      <4>3. g[k] = f[k] /\ g[k - 1] = f[k - 1]
        BY <2>3, <4>1
      <4> QED BY <3>3, <4>2, <4>3
    <3> QED BY <3>1, <3>2, <3>3
  <2>6. PICK h : h = [k \in 0..m + 1 |-> IF k = 0 THEN <<>> ELSE X!Joined(g[k - 1], bs[k])]
    OBVIOUS
  <2>7. g = h
    BY <2>2, <2>5, <2>6
  <2>8. To(m + 1, g)
    BY <2>6, <2>7
  <2> QED BY <2>3, <2>8
<1>5. A \in SUBSET Nat
  OBVIOUS
<1> HIDE DEF A
<1>6. A = Nat
  BY <1>3, <1>4, <1>5, Inductive
<1>7. \E f : To(n, f)
  BY <1>2, <1>6 DEF A
<1> QED BY <1>1, <1>7 DEF CoalesceBy

\* coalesce after k blocks has merged those k.
LEMMA CoalesceMerges ==
  ASSUME NEW bs \in Seq(ExpBlock), Contiguous(bs), NEW f, CoalesceBy(bs, f)
  PROVE  \A k \in 0..Len(bs) : MergedTo(bs, k, f[k])
<1>1. PICK n : n = Len(bs)
  OBVIOUS
<1>2. n \in Nat /\ \A j \in 1..n : bs[j] \in ExpBlock
  BY <1>1
<1>3. f[0] = <<>> /\ \A k \in 1..n : f[k] = X!Joined(f[k - 1], bs[k])
  BY <1>1, <1>2 DEF CoalesceBy
<1> DEFINE A == {k \in Nat : k <= n => MergedTo(bs, k, f[k])}
<1>4. 0 \in A
  <2>1. MergedTo(bs, 0, <<>>)
    BY DEF MergedTo, Contiguous, NoFreeNeighbours, UsedOf
  <2> QED BY <1>3, <2>1
<1>5. ASSUME NEW k \in A PROVE k + 1 \in A
  <2> SUFFICES ASSUME k + 1 <= n PROVE MergedTo(bs, k + 1, f[k + 1])
    OBVIOUS
  <2>1. PICK b : b = bs[k + 1]
    OBVIOUS
  <2>2. PICK d : d = f[k]
    OBVIOUS
  <2>3. PICK r : r = X!Joined(d, b)
    OBVIOUS
  <2>4. k \in Nat /\ k + 1 \in 1..n /\ b \in ExpBlock
    BY <1>2, <2>1
  <2>5. f[k + 1] = r
    BY <1>3, <2>1, <2>2, <2>3, <2>4
  <2>6. MergedTo(bs, k, d)
    BY <1>2, <2>2, <2>4
  <2>7. b.start < b.end /\ (k > 0 => b.start = bs[k].end)
    BY <1>1, <2>1, <2>4 DEF Contiguous
  <2>8. /\ d \in Seq(ExpBlock) /\ Contiguous(d) /\ NoFreeNeighbours(d)
        /\ d # <<>> => d[Len(d)].end = b.start
    BY <2>4, <2>6, <2>7 DEF MergedTo
  <2>9. /\ r \in Seq(ExpBlock) /\ Contiguous(r) /\ NoFreeNeighbours(r)
        /\ r # <<>> /\ r[Len(r)].end = b.end
        /\ r[1].start = IF d = <<>> THEN b.start ELSE d[1].start
        /\ \A x \in ExpBlock : x \in UsedOf(r) <=> x \in UsedOf(d) \/ (x = b /\ b.used)
    BY <2>3, <2>4, <2>7, <2>8, JoinedIs
  <2>10. r[1].start = bs[1].start
    BY <2>1, <2>4, <2>6, <2>9 DEF MergedTo
  <2>11. ASSUME NEW x \in ExpBlock
         PROVE  x \in UsedOf(r) <=> \E j \in 1..k + 1 : bs[j] = x /\ x.used
    <3>1. x \in UsedOf(d) <=> \E j \in 1..k : bs[j] = x /\ x.used
      BY <2>6 DEF MergedTo
    <3>2. x \in UsedOf(r) <=> x \in UsedOf(d) \/ (x = b /\ b.used)
      BY <2>9
    <3>3. \A j : j \in 1..k + 1 <=> j \in 1..k \/ j = k + 1
      BY <2>4
    <3> QED BY <2>1, <3>1, <3>2, <3>3
  <2> QED BY <2>1, <2>4, <2>5, <2>9, <2>10, <2>11 DEF MergedTo
<1>6. A \in SUBSET Nat
  OBVIOUS
<1> HIDE DEF A
<1>7. A = Nat
  BY <1>4, <1>5, <1>6, Inductive
<1>8. ASSUME NEW k \in 0..Len(bs) PROVE MergedTo(bs, k, f[k])
  <2>1. k \in Nat /\ k <= n
    BY <1>1, <1>2
  <2>2. k \in A
    BY <1>7, <2>1
  <2> QED BY <2>1, <2>2 DEF A
<1> QED BY <1>8

\* What coalesce answers for the blocks of a heap.
LEMMA CoalesceIs ==
  ASSUME NEW bs \in Seq(ExpBlock), bs # <<>>, Contiguous(bs)
  PROVE  /\ Tiling(X!Coalesce(bs), bs[1].start, bs[Len(bs)].end)
         /\ UsedOf(X!Coalesce(bs)) = UsedOf(bs)
<1>1. \E f : CoalesceBy(bs, f)
  BY CoalesceRuns
<1>2. PICK f : CoalesceBy(bs, f) /\ X!Coalesce(bs) = f[Len(bs)]
  BY <1>1 DEF X!Coalesce, CoalesceBy
<1>3. Len(bs) \in 0..Len(bs) /\ Len(bs) > 0
  OBVIOUS
<1>r. PICK r : r = X!Coalesce(bs)
  OBVIOUS
<1>4. MergedTo(bs, Len(bs), r)
  BY <1>2, <1>3, <1>r, CoalesceMerges
<1>5. \A x \in ExpBlock : x \in UsedOf(r) <=> x \in UsedOf(bs)
  BY <1>4 DEF MergedTo, UsedOf
<1>6. UsedOf(r) = UsedOf(bs)
  BY <1>5 DEF UsedOf
<1>7. Tiling(r, bs[1].start, bs[Len(bs)].end)
  BY <1>3, <1>4 DEF MergedTo, Tiling
<1> QED BY <1>r, <1>6, <1>7
-------------------------------------------------------------------------------
\* A block in use has its header before its payload, and something in it.
Headed(b) ==
  b.used => /\ b.start + BlockHeader <= b.payload
            /\ b.payloadSize >= 1 /\ b.payload + b.payloadSize <= b.end

\* The sequence `mid` fills the place of a free block from s to e with the used
\* block u, and at most one free block.
Fills(mid, s, e, u) ==
  /\ mid \in Seq(ExpBlock) /\ Contiguous(mid) /\ NoFreeNeighbours(mid)
  /\ Len(mid) \in 1..2
  /\ mid[1].start = s /\ mid[Len(mid)].end = e
  /\ u.used /\ \A x \in ExpBlock : x \in UsedOf(mid) <=> x = u

\* Both headers and alignments are numbers.
LEMMA ExpSame ==
  /\ \A v \in Int, a \in Nat \ {0} : X!AlignUp(v, a) = AlignUp(v, a) /\ X!AlignDown(v, a) = AlignDown(v, a)
  /\ \A alignment \in Int : X!Normalised(alignment) = Normalised(alignment)
  /\ \A size \in Nat : X!Wanted(size) = Wanted(size)
<1>1. \A v \in Int, a \in Nat \ {0} : X!AlignUp(v, a) = AlignUp(v, a) /\ X!AlignDown(v, a) = AlignDown(v, a)
  BY DEF X!AlignUp, X!AlignDown, AlignUp, AlignDown
<1>2. \A alignment \in Int : X!Normalised(alignment) = Normalised(alignment)
  <2>1. \A v \in Int : X!IsPow2(v) <=> IsPow2(v)
    BY DEF X!IsPow2, IsPow2
  <2>2. \A v \in Int : Abs(v) \in Int
    BY DEF Abs
  <2> QED BY <2>1, <2>2 DEF X!Normalised, Normalised, Abs
<1>3. \A size \in Nat : X!Wanted(size) = Wanted(size)
  BY DEF X!Wanted, Wanted
<1> QED BY <1>1, <1>2, <1>3

\* An allocation that leaves no remainder fills the block's place with one used block.
LEMMA OneFills ==
  ASSUME NEW u \in ExpBlock, u.used, u.start < u.end
  PROVE  Fills(<<u>>, u.start, u.end, u)
<1>1. PICK m : m = <<u>>
  OBVIOUS
<1>2. m \in Seq(ExpBlock) /\ Len(m) = 1 /\ m[1] = u
  BY <1>1
<1>3. Contiguous(m) /\ NoFreeNeighbours(m)
  BY <1>2 DEF Contiguous, NoFreeNeighbours
<1>4. \A x \in ExpBlock : x \in UsedOf(m) <=> x = u
  BY <1>2 DEF UsedOf
<1>5. Fills(m, u.start, u.end, u)
  BY <1>2, <1>3, <1>4 DEF Fills
<1> QED BY <1>1, <1>5

\* A used block and what its split leaves free, on either side of it, fill the place.
LEMMA TwoFill ==
  ASSUME NEW u \in ExpBlock, u.used, NEW f \in ExpBlock, ~f.used, u.start < u.end, f.start < f.end
  PROVE  /\ u.end = f.start => Fills(<<u, f>>, u.start, f.end, u)
         /\ f.end = u.start => Fills(<<f, u>>, f.start, u.end, u)
<1>1. ASSUME u.end = f.start PROVE Fills(<<u, f>>, u.start, f.end, u)
  <2>1. PICK m : m = <<u, f>>
    OBVIOUS
  <2>2. m \in Seq(ExpBlock) /\ Len(m) = 2 /\ m[1] = u /\ m[2] = f
    BY <2>1
  <2>3. \A i \in 1..2 : i = 1 \/ i = 2
    OBVIOUS
  <2>4. Contiguous(m) /\ NoFreeNeighbours(m)
    BY <1>1, <2>2, <2>3 DEF Contiguous, NoFreeNeighbours
  <2>5. \A x \in ExpBlock : x \in UsedOf(m) <=> x = u
    BY <2>2, <2>3 DEF UsedOf
  <2>6. Fills(m, u.start, f.end, u)
    BY <2>2, <2>4, <2>5 DEF Fills
  <2> QED BY <2>1, <2>6
<1>2. ASSUME f.end = u.start PROVE Fills(<<f, u>>, f.start, u.end, u)
  <2>1. PICK m : m = <<f, u>>
    OBVIOUS
  <2>2. m \in Seq(ExpBlock) /\ Len(m) = 2 /\ m[1] = f /\ m[2] = u
    BY <2>1
  <2>3. \A i \in 1..2 : i = 1 \/ i = 2
    OBVIOUS
  <2>4. Contiguous(m) /\ NoFreeNeighbours(m)
    BY <1>2, <2>2, <2>3 DEF Contiguous, NoFreeNeighbours
  <2>5. \A x \in ExpBlock : x \in UsedOf(m) <=> x = u
    BY <2>2, <2>3 DEF UsedOf
  <2>6. Fills(m, f.start, u.end, u)
    BY <2>2, <2>4, <2>5 DEF Fills
  <2> QED BY <2>1, <2>6
<1> QED BY <1>1, <1>2

\* Taking from the start of a free block fills its place.
LEMMA SplitTopFills ==
  ASSUME NEW b \in ExpBlock, NEW n \in Nat \ {0}, NEW a \in Nat \ {0}, X!RoomTop(b, n, a)
  PROVE  \E u \in ExpBlock : /\ Fills(X!SplitTop(b, n, a), b.start, b.end, u) /\ Headed(u)
                             /\ b.start <= u.payload /\ u.payload + n <= b.end /\ u.payloadSize = n
<1>1. PICK s, e : s = b.start /\ e = b.end
  OBVIOUS
<1>2. s \in Nat /\ e \in Nat /\ BlockHeader \in Nat /\ BlockHeader >= 3
  BY <1>1, HeapsAssumption DEF ExpBlock
<1>3. PICK p : p = X!AlignUp(s + BlockHeader, a)
  OBVIOUS
<1>4. p \in Nat /\ s + BlockHeader <= p
  <2>1. s + BlockHeader \in Int
    BY <1>2
  <2>2. p = AlignUp(s + BlockHeader, a)
    BY <1>3, <2>1, ExpSame
  <2> QED BY <1>2, <2>1, <2>2, AlignUpBounds
<1>5. p + n <= e
  BY <1>1, <1>3 DEF X!RoomTop
<1>6. PICK t : t = p + n
  OBVIOUS
<1>7. t \in Nat
  BY <1>4, <1>6
<1>8. CASE e - t >= X!MinSplit
  <2>1. PICK u : u = X!UsedBlock(s, t, p, n)
    OBVIOUS
  <2>2. PICK f : f = X!FreeBlock(t, e)
    OBVIOUS
  <2>3. X!SplitTop(b, n, a) = <<u, f>>
    BY <1>1, <1>3, <1>6, <1>8, <2>1, <2>2 DEF X!SplitTop
  <2>4. /\ u \in ExpBlock /\ u.used /\ u.start = s /\ u.end = t
        /\ u.payload = p /\ u.payloadSize = n
    BY <1>2, <1>4, <1>7, <2>1 DEF X!UsedBlock, ExpBlock
  <2>5. f \in ExpBlock /\ ~f.used /\ f.start = t /\ f.end = e
    BY <1>2, <1>7, <2>2, FreeBlockIs
  <2>6. s < t /\ t < e
    BY <1>2, <1>4, <1>6, <1>8 DEF X!MinSplit
  <2>7. Fills(<<u, f>>, s, e, u)
    BY <2>4, <2>5, <2>6, TwoFill
  <2>8. Headed(u) /\ b.start <= u.payload /\ u.payload + n <= b.end
    BY <1>1, <1>2, <1>4, <1>5, <1>6, <2>4 DEF Headed
  <2> QED BY <1>1, <2>3, <2>4, <2>7, <2>8
<1>9. CASE ~(e - t >= X!MinSplit)
  <2>1. PICK u : u = X!UsedBlock(s, e, p, n)
    OBVIOUS
  <2>2. X!SplitTop(b, n, a) = <<u>>
    BY <1>1, <1>3, <1>6, <1>9, <2>1 DEF X!SplitTop
  <2>3. /\ u \in ExpBlock /\ u.used /\ u.start = s /\ u.end = e
        /\ u.payload = p /\ u.payloadSize = n
    BY <1>2, <1>4, <2>1 DEF X!UsedBlock, ExpBlock
  <2>4. s < e
    BY <1>2, <1>4, <1>5
  <2>5. Fills(<<u>>, s, e, u)
    BY <2>3, <2>4, OneFills
  <2>6. Headed(u) /\ b.start <= u.payload /\ u.payload + n <= b.end
    BY <1>1, <1>2, <1>4, <1>5, <2>3 DEF Headed
  <2> QED BY <1>1, <2>2, <2>3, <2>5, <2>6
<1> QED BY <1>8, <1>9

\* So does taking from its end.
LEMMA SplitBottomFills ==
  ASSUME NEW b \in ExpBlock, NEW n \in Nat \ {0}, NEW a \in Nat \ {0}, X!RoomBottom(b, n, a)
  PROVE  \E u \in ExpBlock : /\ Fills(X!SplitBottom(b, n, a), b.start, b.end, u) /\ Headed(u)
                             /\ b.start <= u.payload /\ u.payload + n <= b.end /\ u.payloadSize = n
<1>1. PICK s, e : s = b.start /\ e = b.end
  OBVIOUS
<1>2. s \in Nat /\ e \in Nat /\ BlockHeader \in Nat /\ BlockHeader >= 3
  BY <1>1, HeapsAssumption DEF ExpBlock
<1>3. PICK p : p = X!AlignDown(e - n, a)
  OBVIOUS
<1>4. p \in Int /\ p + n <= e
  <2>1. e - n \in Int
    BY <1>2
  <2>2. p = AlignDown(e - n, a)
    BY <1>3, <2>1, ExpSame
  <2>3. p \in Int /\ p <= e - n
    BY <2>1, <2>2, AlignDownBounds
  <2> QED BY <1>2, <2>1, <2>3
<1>5. s <= p - BlockHeader
  BY <1>1, <1>3 DEF X!RoomBottom
<1>6. PICK t : t = p - BlockHeader
  OBVIOUS
<1>7. t \in Nat /\ p \in Nat /\ s + BlockHeader <= p
  BY <1>2, <1>4, <1>5, <1>6
<1>8. CASE t - s >= X!MinSplit
  <2>1. PICK u : u = X!UsedBlock(t, e, p, n)
    OBVIOUS
  <2>2. PICK f : f = X!FreeBlock(s, t)
    OBVIOUS
  <2>3. X!SplitBottom(b, n, a) = <<f, u>>
    BY <1>1, <1>3, <1>6, <1>8, <2>1, <2>2 DEF X!SplitBottom
  <2>4. /\ u \in ExpBlock /\ u.used /\ u.start = t /\ u.end = e
        /\ u.payload = p /\ u.payloadSize = n
    BY <1>2, <1>7, <2>1 DEF X!UsedBlock, ExpBlock
  <2>5. f \in ExpBlock /\ ~f.used /\ f.start = s /\ f.end = t
    BY <1>2, <1>7, <2>2, FreeBlockIs
  <2>6. s < t /\ t < e
    BY <1>2, <1>4, <1>6, <1>7, <1>8 DEF X!MinSplit
  <2>7. Fills(<<f, u>>, s, e, u)
    BY <2>4, <2>5, <2>6, TwoFill
  <2>8. Headed(u) /\ b.start <= u.payload /\ u.payload + n <= b.end
    BY <1>1, <1>2, <1>4, <1>6, <1>7, <2>4 DEF Headed
  <2> QED BY <1>1, <2>3, <2>4, <2>7, <2>8
<1>9. CASE ~(t - s >= X!MinSplit)
  <2>1. PICK u : u = X!UsedBlock(s, e, p, n)
    OBVIOUS
  <2>2. X!SplitBottom(b, n, a) = <<u>>
    BY <1>1, <1>3, <1>6, <1>9, <2>1 DEF X!SplitBottom
  <2>3. /\ u \in ExpBlock /\ u.used /\ u.start = s /\ u.end = e
        /\ u.payload = p /\ u.payloadSize = n
    BY <1>2, <1>7, <2>1 DEF X!UsedBlock, ExpBlock
  <2>4. s < e
    BY <1>2, <1>4, <1>7
  <2>5. Fills(<<u>>, s, e, u)
    BY <2>3, <2>4, OneFills
  <2>6. Headed(u) /\ b.start <= u.payload /\ u.payload + n <= b.end
    BY <1>1, <1>2, <1>4, <1>7, <2>3 DEF Headed
  <2> QED BY <1>1, <2>2, <2>3, <2>5, <2>6
<1> QED BY <1>8, <1>9

\* What is where in a list r of n - 1 + m blocks: those of bs with the m blocks of
\* mid in the place of block i.
Placed(bs, i, mid, n, m, r) ==
  /\ r \in Seq(ExpBlock) /\ Len(r) = n - 1 + m
  /\ \A j \in 1..i - 1 : r[j] = bs[j]
  /\ \A j \in i..i + m - 1 : r[j] = mid[j - i + 1]
  /\ \A j \in i + m..n + m - 1 : r[j] = bs[j - m + 1]

\* MEMAllocFromExpHeapEx puts the pieces of the chosen block in its place.
LEMMA PlacesIn ==
  ASSUME NEW bs \in Seq(ExpBlock), NEW i \in 1..Len(bs), NEW mid \in Seq(ExpBlock)
  PROVE  Placed(bs, i, mid, Len(bs), Len(mid), SubSeq(bs, 1, i - 1) \o mid \o SubSeq(bs, i + 1, Len(bs)))
<1>n. PICK n : n = Len(bs)
  OBVIOUS
<1>m. PICK m : m = Len(mid)
  OBVIOUS
<1>r. PICK r : r = SubSeq(bs, 1, i - 1) \o mid \o SubSeq(bs, i + 1, n)
  OBVIOUS
<1>0. n \in Nat /\ i \in Nat /\ m \in Nat /\ i \in 1..n
  BY <1>n, <1>m
<1>1. n \in Nat /\ i \in Nat /\ m \in Nat /\ \A j \in 1..n : bs[j] \in ExpBlock
  BY <1>n, <1>m
<1>2. PICK p : p = SubSeq(bs, 1, i - 1)
  OBVIOUS
<1>3. PICK q : q = SubSeq(bs, i + 1, n)
  OBVIOUS
<1>4. p \in Seq(ExpBlock) /\ Len(p) = i - 1 /\ \A j \in 1..i - 1 : p[j] = bs[j]
  <2>1. 1 \in Int /\ i - 1 \in Int /\ \A j \in 1..i - 1 : bs[j] \in ExpBlock
    BY <1>1
  <2>2. /\ p \in Seq(ExpBlock) /\ Len(p) = (IF 1 <= i - 1 THEN i - 1 - 1 + 1 ELSE 0)
        /\ \A j \in 1..i - 1 - 1 + 1 : p[j] = bs[1 + j - 1]
    BY <1>2, <2>1, SubSeqProperties
  <2>3. \A j \in 1..i - 1 : j \in 1..i - 1 - 1 + 1 /\ 1 + j - 1 = j
    BY <1>1
  <2> QED BY <1>1, <2>2, <2>3
<1>5. q \in Seq(ExpBlock) /\ Len(q) = n - i /\ \A j \in 1..n - i : q[j] = bs[j + i]
  <2>1. i + 1 \in Int /\ n \in Int /\ \A j \in i + 1..n : bs[j] \in ExpBlock
    BY <1>1
  <2>2. /\ q \in Seq(ExpBlock) /\ Len(q) = (IF i + 1 <= n THEN n - (i + 1) + 1 ELSE 0)
        /\ \A j \in 1..n - (i + 1) + 1 : q[j] = bs[(i + 1) + j - 1]
    BY <1>3, <2>1, SubSeqProperties
  <2>3. \A j \in 1..n - i : j \in 1..n - (i + 1) + 1 /\ (i + 1) + j - 1 = j + i
    BY <1>0
  <2>4. (IF i + 1 <= n THEN n - (i + 1) + 1 ELSE 0) = n - i
    BY <1>0
  <2>5. ASSUME NEW j \in 1..n - i PROVE q[j] = bs[j + i]
    BY <2>2, <2>3
  <2> QED BY <2>2, <2>4, <2>5
<1>6. PICK pm : pm = p \o mid
  OBVIOUS
<1>7. /\ pm \in Seq(ExpBlock) /\ Len(pm) = i - 1 + m
      /\ \A j \in 1..i - 1 + m : pm[j] = IF j <= i - 1 THEN p[j] ELSE mid[j - (i - 1)]
  <2>1. /\ p \o mid \in Seq(ExpBlock) /\ Len(p \o mid) = Len(p) + Len(mid)
        /\ \A j \in 1..Len(p) + Len(mid) : (p \o mid)[j] = IF j <= Len(p) THEN p[j] ELSE mid[j - Len(p)]
    BY <1>4, ConcatProperties
  <2>2. Len(p) = i - 1 /\ Len(mid) = m
    BY <1>4, <1>m
  <2> QED BY <1>6, <2>1, <2>2
<1>8. /\ r \in Seq(ExpBlock) /\ Len(r) = i - 1 + m + (n - i)
      /\ \A j \in 1..i - 1 + m + (n - i) : r[j] = IF j <= i - 1 + m THEN pm[j] ELSE q[j - (i - 1 + m)]
  <2>1. r = pm \o q
    BY <1>r, <1>2, <1>3, <1>6
  <2>2. /\ pm \o q \in Seq(ExpBlock) /\ Len(pm \o q) = Len(pm) + Len(q)
        /\ \A j \in 1..Len(pm) + Len(q) : (pm \o q)[j] = IF j <= Len(pm) THEN pm[j] ELSE q[j - Len(pm)]
    BY <1>5, <1>7, ConcatProperties
  <2>3. Len(pm) = i - 1 + m /\ Len(q) = n - i
    BY <1>5, <1>7
  <2> QED BY <2>1, <2>2, <2>3
<1>9. ASSUME NEW j \in 1..i - 1 PROVE r[j] = bs[j]
  <2>1. /\ j \in 1..i - 1 + m /\ j <= i - 1 /\ j \in 1..i - 1 + m + (n - i)
        /\ j <= i - 1 + m
    BY <1>0
  <2>2. r[j] = pm[j] /\ pm[j] = p[j] /\ p[j] = bs[j]
    BY <1>4, <1>7, <1>8, <2>1
  <2> QED BY <2>2
<1>10. ASSUME NEW j \in i..i + m - 1 PROVE r[j] = mid[j - i + 1]
  <2>1. j \in 1..i - 1 + m /\ ~(j <= i - 1) /\ j - (i - 1) = j - i + 1
    BY <1>1
  <2>2. j \in 1..i - 1 + m + (n - i) /\ j <= i - 1 + m
    BY <1>0, <2>1
  <2> QED BY <1>7, <1>8, <2>1, <2>2
<1>11. ASSUME NEW j \in i + m..n + m - 1 PROVE r[j] = bs[j - m + 1]
  <2>1. j \in 1..i - 1 + m + (n - i) /\ ~(j <= i - 1 + m)
    BY <1>1
  <2>2. j - (i - 1 + m) \in 1..n - i /\ j - (i - 1 + m) + i = j - m + 1
    BY <1>1
  <2> QED BY <1>5, <1>8, <2>1, <2>2
<1>12. i - 1 + m + (n - i) = n - 1 + m
  BY <1>0
<1>13. Placed(bs, i, mid, n, m, r)
  BY <1>8, <1>9, <1>10, <1>11, <1>12 DEF Placed
<1> QED BY <1>n, <1>m, <1>r, <1>13

\* An allocation leaves the blocks tiling the region, one more of them in use.
LEMMA FilledIs ==
  ASSUME NEW bs, NEW lo, NEW hi, Tiling(bs, lo, hi),
         NEW i \in 1..Len(bs), ~bs[i].used,
         NEW u \in ExpBlock, NEW mid, Fills(mid, bs[i].start, bs[i].end, u)
  PROVE  /\ Tiling(SubSeq(bs, 1, i - 1) \o mid \o SubSeq(bs, i + 1, Len(bs)), lo, hi)
         /\ \A x \in ExpBlock :
              x \in UsedOf(SubSeq(bs, 1, i - 1) \o mid \o SubSeq(bs, i + 1, Len(bs)))
                <=> x \in UsedOf(bs) \/ x = u
<1>r. PICK r : r = SubSeq(bs, 1, i - 1) \o mid \o SubSeq(bs, i + 1, Len(bs))
  OBVIOUS
<1>b. bs \in Seq(ExpBlock) /\ Contiguous(bs) /\ NoFreeNeighbours(bs)
  BY DEF Tiling
<1>1. PICK n : n = Len(bs)
  OBVIOUS
<1>2. PICK m : m = Len(mid)
  OBVIOUS
<1>3. /\ mid \in Seq(ExpBlock) /\ Contiguous(mid) /\ NoFreeNeighbours(mid)
      /\ m \in 1..2 /\ mid[1].start = bs[i].start /\ mid[m].end = bs[i].end
      /\ u.used /\ \A x \in ExpBlock : x \in UsedOf(mid) <=> x = u
  BY <1>2 DEF Fills
<1>0. n \in Nat /\ i \in Nat /\ m \in Nat /\ i \in 1..n /\ m \in 1..2
  BY <1>b, <1>1, <1>3
<1>e. \A j \in 1..n : bs[j] \in ExpBlock
  BY <1>b, <1>1
<1>p. Placed(bs, i, mid, n, m, r)
  <2>1. Placed(bs, i, mid, Len(bs), Len(mid), SubSeq(bs, 1, i - 1) \o mid \o SubSeq(bs, i + 1, Len(bs)))
    BY <1>b, <1>3, PlacesIn
  <2> QED BY <1>r, <1>1, <1>2, <2>1
<1>4. /\ r \in Seq(ExpBlock) /\ Len(r) = n - 1 + m
      /\ \A j \in 1..i - 1 : r[j] = bs[j]
      /\ \A j \in i..i + m - 1 : r[j] = mid[j - i + 1]
      /\ \A j \in i + m..n + m - 1 : r[j] = bs[j - m + 1]
  BY <1>p DEF Placed
<1>5. \A j \in 1..n - 1 + m : j \in 1..i - 1 \/ j \in i..i + m - 1 \/ j \in i + m..n + m - 1
  BY <1>0
<1>6. \A j \in 1..n : bs[j].start < bs[j].end /\ (j > 1 => bs[j].start = bs[j - 1].end)
  BY <1>b, <1>1 DEF Contiguous
<1>7. \A j \in 1..m : mid[j].start < mid[j].end /\ (j > 1 => mid[j].start = mid[j - 1].end)
  BY <1>2, <1>3 DEF Contiguous
<1>8. \A j \in 1..n : j > 1 => bs[j].used \/ bs[j - 1].used
  BY <1>b, <1>1 DEF NoFreeNeighbours
<1>9. \A j \in 1..m : j > 1 => mid[j].used \/ mid[j - 1].used
  BY <1>2, <1>3 DEF NoFreeNeighbours
<1>10. r[i] = mid[1] /\ r[i + m - 1] = mid[m]
  <2>1. i \in i..i + m - 1 /\ i + m - 1 \in i..i + m - 1 /\ i - i + 1 = 1 /\ (i + m - 1) - i + 1 = m
    BY <1>3, <1>0, <1>4
  <2> QED BY <1>0, <1>4, <2>1
<1>11. ASSUME NEW j \in 1..n - 1 + m
       PROVE  /\ r[j].start < r[j].end /\ (j > 1 => r[j].start = r[j - 1].end)
              /\ j > 1 => r[j].used \/ r[j - 1].used
  <2>1. CASE j \in 1..i - 1
    <3>0. j \in 1..n /\ (j > 1 => j - 1 \in 1..i - 1)
      BY <1>0, <2>1
    <3>1. r[j] = bs[j] /\ (j > 1 => r[j - 1] = bs[j - 1]) /\ j \in 1..n
      BY <1>4, <2>1, <3>0
    <3> QED BY <1>6, <1>8, <3>1
  <2>2. CASE j = i
    <3>0. 1 \in 1..m /\ (j > 1 => j - 1 \in 1..i - 1)
      BY <1>0, <2>2
    <3>1. r[j] = mid[1] /\ 1 \in 1..m /\ (j > 1 => r[j - 1] = bs[j - 1])
      BY <1>4, <1>10, <2>2, <3>0
    <3>2. j \in 1..n /\ j > 1 => bs[j].start = bs[j - 1].end /\ bs[j - 1].used
      BY <1>6, <1>8, <2>2
    <3> QED BY <1>3, <1>0, <1>4, <1>7, <2>2, <3>1, <3>2
  <2>3. CASE j \in i + 1..i + m - 1
    <3>1. j - i + 1 \in 1..m /\ j - i + 1 > 1 /\ j - 1 \in i..i + m - 1 /\ (j - 1) - i + 1 = (j - i + 1) - 1
      BY <1>3, <1>0, <1>4, <2>3
    <3>2. r[j] = mid[j - i + 1] /\ r[j - 1] = mid[(j - i + 1) - 1]
      <4>1. j \in i..i + m - 1
        BY <1>0, <1>4, <2>3
      <4> QED BY <1>0, <1>4, <3>1, <4>1
    <3> QED BY <1>7, <1>9, <3>1, <3>2
  <2>4. CASE j = i + m
    <3>1. j \in i + m..n + m - 1 /\ j - m + 1 = i + 1 /\ j - 1 = i + m - 1 /\ i + 1 \in 1..n
      BY <1>0, <1>4, <2>4, SMTT(60)
    <3>2. r[j] = bs[i + 1] /\ r[j - 1] = mid[m]
      BY <1>0, <1>4, <1>10, <3>1
    <3>3. bs[i + 1].start < bs[i + 1].end /\ bs[i + 1].start = bs[i].end /\ bs[i + 1].used
      <4>1. i + 1 > 1 /\ (i + 1) - 1 = i
        BY <1>0
      <4> QED BY <1>6, <1>8, <3>1, <4>1
    <3> QED BY <1>3, <3>2, <3>3
  <2>5. CASE j \in i + m + 1..n + m - 1
    <3>1. /\ j - m + 1 \in 1..n /\ j - m + 1 > 1 /\ j - 1 \in i + m..n + m - 1
          /\ (j - 1) - m + 1 = (j - m + 1) - 1 /\ j \in i + m..n + m - 1
      BY <1>0, <1>4, <2>5
    <3>2. r[j] = bs[j - m + 1] /\ r[j - 1] = bs[(j - m + 1) - 1]
      BY <1>0, <1>4, <3>1
    <3> QED BY <1>6, <1>8, <3>1, <3>2
  <2>6. \/ j \in 1..i - 1 \/ j = i \/ j \in i + 1..i + m - 1 \/ j = i + m
        \/ j \in i + m + 1..n + m - 1
    BY <1>0, <1>4
  <2> QED BY <2>1, <2>2, <2>3, <2>4, <2>5, <2>6
<1>12. Contiguous(r) /\ NoFreeNeighbours(r)
  BY <1>0, <1>4, <1>11 DEF Contiguous, NoFreeNeighbours
<1>13. r[1].start = bs[1].start
  <2>1. CASE i = 1
    BY <1>3, <1>10, <2>1
  <2>2. CASE i # 1
    <3>1. 1 \in 1..i - 1
      BY <1>0, <2>2
    <3> QED BY <1>4, <3>1
  <2> QED BY <2>1, <2>2
<1>14. r[n - 1 + m].end = bs[n].end
  <2>1. CASE i = n
    <3>1. n - 1 + m = i + m - 1
      BY <1>0, <1>4, <2>1
    <3> QED BY <1>3, <1>10, <2>1, <3>1
  <2>2. CASE i # n
    <3>1. n - 1 + m \in i + m..n + m - 1 /\ (n - 1 + m) - m + 1 = n
      BY <1>0, <1>4, <2>2
    <3> QED BY <1>0, <1>4, <3>1
  <2> QED BY <2>1, <2>2
<1>15. ASSUME NEW x \in ExpBlock, x.used, NEW j \in 1..n - 1 + m, r[j] = x
       PROVE  x \in UsedOf(bs) \/ x = u
  <2>1. CASE j \in 1..i - 1
    <3>1. j \in 1..n
      BY <1>0, <2>1
    <3> QED BY <1>1, <1>4, <1>15, <2>1, <3>1 DEF UsedOf
  <2>2. CASE j \in i..i + m - 1
    <3>1. j - i + 1 \in 1..m
      BY <1>0, <1>4, <2>2
    <3>2. x \in UsedOf(mid)
      BY <1>2, <1>0, <1>4, <1>15, <2>2, <3>1 DEF UsedOf
    <3> QED BY <1>3, <3>2
  <2>3. CASE j \in i + m..n + m - 1
    <3>1. j - m + 1 \in 1..n
      BY <1>0, <1>4, <2>3, SMTT(60)
    <3> QED BY <1>1, <1>0, <1>4, <1>15, <2>3, <3>1 DEF UsedOf
  <2> QED BY <1>5, <2>1, <2>2, <2>3
<1>16. ASSUME NEW x \in ExpBlock, x.used, NEW j \in 1..n, bs[j] = x
       PROVE  x \in UsedOf(r)
  <2>1. j # i
    BY <1>16
  <2>2. CASE j < i
    <3>1. j \in 1..i - 1 /\ j \in 1..n - 1 + m
      BY <1>0, <1>4, <2>2
    <3> QED BY <1>0, <1>4, <1>16, <3>1 DEF UsedOf
  <2>3. CASE j > i
    <3>1. j + m - 1 \in i + m..n + m - 1 /\ (j + m - 1) - m + 1 = j /\ j + m - 1 \in 1..n - 1 + m
      BY <1>0, <1>4, <2>3
    <3>2. r[j + m - 1] = x
      BY <1>0, <1>4, <1>16, <3>1
    <3> QED BY <1>0, <1>4, <1>16, <3>1, <3>2 DEF UsedOf
  <2> QED BY <1>0, <1>4, <2>1, <2>2, <2>3
<1>17. u \in UsedOf(r)
  <2>1. u \in UsedOf(mid)
    BY <1>3
  <2>2. PICK j \in 1..m : mid[j] = u
    BY <1>2, <2>1 DEF UsedOf
  <2>3. j + i - 1 \in i..i + m - 1 /\ (j + i - 1) - i + 1 = j /\ j + i - 1 \in 1..n - 1 + m
    BY <1>0
  <2>4. r[j + i - 1] = u
    BY <1>0, <1>4, <2>2, <2>3
  <2> QED BY <1>3, <1>0, <1>4, <2>3, <2>4 DEF UsedOf
<1>18. ASSUME NEW x \in ExpBlock PROVE x \in UsedOf(r) <=> x \in UsedOf(bs) \/ x = u
  <2>1. ASSUME x \in UsedOf(r) PROVE x \in UsedOf(bs) \/ x = u
    <3>1. x.used /\ \E j \in 1..n - 1 + m : r[j] = x
      BY <1>0, <1>4, <2>1 DEF UsedOf
    <3> QED BY <1>15, <3>1
  <2>2. ASSUME x \in UsedOf(bs) PROVE x \in UsedOf(r)
    <3>1. x.used /\ \E j \in 1..n : bs[j] = x
      BY <1>1, <2>2 DEF UsedOf
    <3> QED BY <1>16, <3>1
  <2> QED BY <1>17, <2>1, <2>2
<1>19. r # <<>>
  <2>1. n - 1 + m # 0
    BY <1>0
  <2>2. Len(r) # 0
    BY <1>4, <2>1
  <2>3. Len(<<>>) = 0
    OBVIOUS
  <2> QED BY <2>2, <2>3, Zenon
<1>20. bs[1].start = lo /\ bs[n].end = hi
  BY <1>1 DEF Tiling
<1>21. r[Len(r)].end = hi /\ r[1].start = lo
  BY <1>4, <1>13, <1>14, <1>20
<1>22. Tiling(r, lo, hi)
  BY <1>4, <1>12, <1>19, <1>21 DEF Tiling
<1> QED BY <1>r, <1>18, <1>22

\* In a list without gaps a block ends before any later one starts.
LEMMA EndsBefore ==
  ASSUME NEW bs \in Seq(ExpBlock), Contiguous(bs)
  PROVE  \A j, i \in 1..Len(bs) : j < i => bs[j].end <= bs[i].start
<1>1. PICK n : n = Len(bs)
  OBVIOUS
<1>2. n \in Nat /\ \A j \in 1..n : bs[j].start \in Nat /\ bs[j].end \in Nat
  <2>1. n \in Nat /\ \A j \in 1..n : bs[j] \in ExpBlock
    BY <1>1
  <2>2. \A b \in ExpBlock : b.start \in Nat /\ b.end \in Nat
    BY DEF ExpBlock
  <2> QED BY <2>1, <2>2
<1>3. \A j \in 1..n : bs[j].start < bs[j].end /\ (j > 1 => bs[j].start = bs[j - 1].end)
  BY <1>1 DEF Contiguous
<1> DEFINE A == {d \in Nat : \A j \in 1..n : j + 1 + d <= n => bs[j].end <= bs[j + 1 + d].start}
<1>4. 0 \in A
  <2>1. ASSUME NEW j \in 1..n, j + 1 + 0 <= n PROVE bs[j].end <= bs[j + 1 + 0].start
    <3>1. j + 1 + 0 \in 1..n /\ j + 1 + 0 > 1 /\ (j + 1 + 0) - 1 = j
      BY <1>2, <2>1
    <3> QED BY <1>2, <1>3, <3>1
  <2> QED BY <2>1
<1>5. ASSUME NEW d \in A PROVE d + 1 \in A
  <2>1. ASSUME NEW j \in 1..n, j + 1 + (d + 1) <= n PROVE bs[j].end <= bs[j + 1 + (d + 1)].start
    <3>1. PICK k : k = j + 1 + d
      OBVIOUS
    <3>2. k \in 1..n /\ k + 1 \in 1..n /\ k + 1 > 1 /\ (k + 1) - 1 = k /\ j + 1 + (d + 1) = k + 1
      BY <1>2, <2>1, <3>1
    <3>3. bs[j].end <= bs[k].start
      BY <3>1, <3>2
    <3>4. bs[k].start < bs[k].end /\ bs[k + 1].start = bs[k].end
      BY <1>3, <3>2
    <3>5. bs[j].end \in Nat /\ bs[k].start \in Nat /\ bs[k].end \in Nat
      BY <1>2, <3>2
    <3>6. bs[j].end <= bs[k + 1].start
      BY <3>3, <3>4, <3>5
    <3> QED BY <3>2, <3>6
  <2> QED BY <2>1
<1>6. A \in SUBSET Nat
  OBVIOUS
<1> HIDE DEF A
<1>7. A = Nat
  BY <1>4, <1>5, <1>6, Inductive
<1>8. ASSUME NEW j \in 1..n, NEW i \in 1..n, j < i PROVE bs[j].end <= bs[i].start
  <2>1. i - j - 1 \in Nat /\ j + 1 + (i - j - 1) = i /\ i <= n
    BY <1>2, <1>8
  <2>2. i - j - 1 \in A
    BY <1>7, <2>1
  <2> QED BY <2>1, <2>2 DEF A
<1> QED BY <1>1, <1>8
-------------------------------------------------------------------------------
\* The inductive invariant: the blocks of a heap tile its region and each used
\* one keeps its header; what is no heap has no blocks.
BlocksSound ==
  /\ expLive \in BOOLEAN /\ mode \in {"first", "nearest"} /\ expEnd \in Nat
  /\ expLive => Tiling(expBlocks, X!DataStart, expEnd)
  /\ ~expLive => expBlocks = <<>>
  /\ \A x \in UsedOf(expBlocks) : Headed(x)

\* The first byte behind the heap's header is at most three bytes on.
LEMMA ExpDataStart ==
  /\ X!DataStart \in Nat /\ ExpBase + HeapHeader <= X!DataStart
  /\ X!DataStart < ExpBase + HeapHeader + 4
<1>1. ExpBase + HeapHeader \in Int /\ ExpBase + HeapHeader \in Nat
  BY HeapsAssumption
<1>2. X!DataStart = AlignUp(ExpBase + HeapHeader, 4)
  BY <1>1, ExpSame DEF X!DataStart
<1>3. /\ AlignUp(ExpBase + HeapHeader, 4) \in Int /\ ExpBase + HeapHeader <= AlignUp(ExpBase + HeapHeader, 4)
      /\ AlignUp(ExpBase + HeapHeader, 4) < ExpBase + HeapHeader + 4
  BY <1>1, AlignUpBounds
<1> QED BY <1>1, <1>2, <1>3

\* No block is in use in an empty list.
LEMMA NoneUsed == UsedOf(<<>>) = {}
BY DEF UsedOf

\* There is no heap at first.
LEMMA ExpInitSound == X!Init => BlocksSound
<1> SUFFICES ASSUME X!Init PROVE BlocksSound
  OBVIOUS
<1>1. expLive = FALSE /\ mode = "first" /\ expEnd = 0 /\ expBlocks = <<>>
  BY DEF X!Init
<1>2. UsedOf(expBlocks) = {}
  BY <1>1, NoneUsed
<1>3. expLive \in BOOLEAN /\ mode \in {"first", "nearest"} /\ expEnd \in Nat /\ ~expLive
  BY <1>1
<1> QED BY <1>1, <1>2, <1>3 DEF BlocksSound

\* MEMCreateExpHeapEx makes the region one free block.
LEMMA ExpCreateKeeps ==
  ASSUME BlocksSound, NEW size \in Nat, X!Create(size)
  PROVE  BlocksSound'
<1>1. PICK b : b = X!FreeBlock(X!DataStart, ExpBase + size)
  OBVIOUS
<1>2. ExpBase + size \in Nat /\ X!DataStart \in Nat /\ X!DataStart < ExpBase + size
  <2>1. size > HeapHeader + BlockHeader
    BY DEF X!Create
  <2> QED BY <2>1, ExpDataStart, HeapsAssumption
<1>3. b \in ExpBlock /\ ~b.used /\ b.start = X!DataStart /\ b.end = ExpBase + size
  BY <1>1, <1>2, FreeBlockIs
<1>4. PICK r : r = <<b>>
  OBVIOUS
<1>5. r \in Seq(ExpBlock) /\ r # <<>> /\ Len(r) = 1 /\ r[1] = b
  BY <1>3, <1>4
<1>6. Contiguous(r) /\ NoFreeNeighbours(r)
  BY <1>2, <1>3, <1>5 DEF Contiguous, NoFreeNeighbours
<1>7. Tiling(r, X!DataStart, ExpBase + size)
  BY <1>3, <1>5, <1>6 DEF Tiling
<1>8. UsedOf(r) = {}
  BY <1>3, <1>5 DEF UsedOf
<1>9. expLive' = TRUE /\ mode' = "first" /\ expEnd' = ExpBase + size /\ expBlocks' = r
  BY <1>1, <1>4 DEF X!Create
<1>10. expEnd' \in Nat /\ Tiling(expBlocks', X!DataStart, expEnd') /\ UsedOf(expBlocks') = {}
  BY <1>2, <1>7, <1>8, <1>9
<1> QED BY <1>9, <1>10 DEF BlocksSound

\* What an allocation does: with room in a free block i it has a new block u in
\* that place, whose payload lies in it.
LEMMA ExpAllocStep ==
  ASSUME BlocksSound, NEW size \in Nat, NEW alignment \in Int, X!Alloc(size, alignment)
  PROVE  /\ expLive /\ UNCHANGED <<expLive, mode, expEnd>>
         /\ Tiling(expBlocks', X!DataStart, expEnd)
         /\ \E i \in 1..Len(expBlocks), u \in ExpBlock :
              /\ ~expBlocks[i].used /\ u.used /\ Headed(u)
              /\ expBlocks[i].start <= u.payload /\ u.payload + u.payloadSize <= expBlocks[i].end
              /\ \A x \in ExpBlock : x \in UsedOf(expBlocks') <=> x \in UsedOf(expBlocks) \/ x = u
<1>1. PICK n, a : n = X!Wanted(size) /\ a = X!Normalised(alignment)
  OBVIOUS
<1>2. n \in Nat \ {0} /\ a \in Nat \ {0}
  BY <1>1, ExpSame, NormalisedPositive, WantedPositive
<1>3. expLive /\ \E i \in DOMAIN expBlocks : X!Chosen(i, n, a) /\ X!AllocFrom(i, n, a, alignment < 0)
  BY <1>1 DEF X!Alloc
<1>4. Tiling(expBlocks, X!DataStart, expEnd) /\ expBlocks \in Seq(ExpBlock)
  BY <1>3 DEF BlocksSound, Tiling
<1>5. PICK i \in 1..Len(expBlocks) : X!Chosen(i, n, a) /\ X!AllocFrom(i, n, a, alignment < 0)
  <2>1. DOMAIN expBlocks = 1..Len(expBlocks)
    BY <1>4
  <2> QED BY <1>3, <2>1
<1>6. ~expBlocks[i].used
  BY <1>5 DEF X!Chosen, X!Serves
<1>7. PICK b : b = expBlocks[i]
  OBVIOUS
<1>8. b \in ExpBlock
  BY <1>4, <1>7
<1>9. PICK mid : mid = IF alignment < 0 THEN X!SplitBottom(b, n, a) ELSE X!SplitTop(b, n, a)
  OBVIOUS
<1>10. /\ IF alignment < 0 THEN X!RoomBottom(b, n, a) ELSE X!RoomTop(b, n, a)
       /\ expBlocks' = SubSeq(expBlocks, 1, i - 1) \o mid \o SubSeq(expBlocks, i + 1, Len(expBlocks))
       /\ UNCHANGED <<expLive, mode, expEnd>>
  BY <1>5, <1>7, <1>9 DEF X!AllocFrom
<1>11. \E u \in ExpBlock : /\ Fills(mid, b.start, b.end, u) /\ Headed(u)
                           /\ b.start <= u.payload /\ u.payload + n <= b.end /\ u.payloadSize = n
  <2>1. CASE alignment < 0
    <3>1. X!RoomBottom(b, n, a) /\ mid = X!SplitBottom(b, n, a)
      BY <1>9, <1>10, <2>1
    <3> QED BY <1>2, <1>8, <3>1, SplitBottomFills
  <2>2. CASE ~(alignment < 0)
    <3>1. X!RoomTop(b, n, a) /\ mid = X!SplitTop(b, n, a)
      BY <1>9, <1>10, <2>2
    <3> QED BY <1>2, <1>8, <3>1, SplitTopFills
  <2> QED BY <2>1, <2>2
<1>12. PICK u \in ExpBlock : /\ Fills(mid, b.start, b.end, u) /\ Headed(u)
                            /\ b.start <= u.payload /\ u.payload + n <= b.end /\ u.payloadSize = n
  BY <1>11
<1>13. Fills(mid, expBlocks[i].start, expBlocks[i].end, u) /\ u.used
  BY <1>7, <1>12 DEF Fills
<1>14. /\ Tiling(SubSeq(expBlocks, 1, i - 1) \o mid \o SubSeq(expBlocks, i + 1, Len(expBlocks)), X!DataStart, expEnd)
       /\ \A x \in ExpBlock :
            x \in UsedOf(SubSeq(expBlocks, 1, i - 1) \o mid \o SubSeq(expBlocks, i + 1, Len(expBlocks)))
              <=> x \in UsedOf(expBlocks) \/ x = u
  BY <1>4, <1>6, <1>13, FilledIs
<1>15. /\ Tiling(expBlocks', X!DataStart, expEnd)
       /\ \A x \in ExpBlock : x \in UsedOf(expBlocks') <=> x \in UsedOf(expBlocks) \/ x = u
  BY <1>10, <1>14
<1>16. expBlocks[i].start <= u.payload /\ u.payload + u.payloadSize <= expBlocks[i].end
  BY <1>7, <1>12
<1> QED BY <1>3, <1>6, <1>10, <1>12, <1>13, <1>15, <1>16

\* So MEMAllocFromExpHeapEx keeps the invariant.
LEMMA ExpAllocKeeps ==
  ASSUME BlocksSound, NEW size \in Nat, NEW alignment \in Int, X!Alloc(size, alignment)
  PROVE  BlocksSound'
<1>1. /\ expLive /\ expLive' = expLive /\ mode' = mode /\ expEnd' = expEnd
      /\ Tiling(expBlocks', X!DataStart, expEnd)
      /\ \E u \in ExpBlock : /\ Headed(u)
                             /\ \A x \in ExpBlock : x \in UsedOf(expBlocks') <=> x \in UsedOf(expBlocks) \/ x = u
  BY ExpAllocStep
<1>2. \A x \in UsedOf(expBlocks') : Headed(x)
  <2>1. \A x \in UsedOf(expBlocks') : x \in ExpBlock
    BY DEF UsedOf
  <2>2. \A x \in UsedOf(expBlocks) : Headed(x)
    BY DEF BlocksSound
  <2> QED BY <1>1, <2>1, <2>2
<1>3. expLive' /\ Tiling(expBlocks', X!DataStart, expEnd')
  BY <1>1
<1>4. expLive' \in BOOLEAN /\ mode' \in {"first", "nearest"} /\ expEnd' \in Nat
  BY <1>1 DEF BlocksSound
<1> QED BY <1>2, <1>3, <1>4 DEF BlocksSound

\* What a free does: the block whose payload was named is used no more.
LEMMA ExpFreeStep ==
  ASSUME BlocksSound, NEW pointer, X!Free(pointer)
  PROVE  /\ expLive /\ UNCHANGED <<expLive, mode, expEnd>>
         /\ Tiling(expBlocks', X!DataStart, expEnd)
         /\ \E i \in 1..Len(expBlocks) :
              /\ expBlocks[i].used
              /\ \A x \in ExpBlock : x \in UsedOf(expBlocks')
                   <=> x.used /\ \E j \in 1..Len(expBlocks) : j # i /\ expBlocks[j] = x
<1>1. expLive /\ UNCHANGED <<expLive, mode, expEnd>>
  BY DEF X!Free
<1>2. Tiling(expBlocks, X!DataStart, expEnd) /\ expBlocks \in Seq(ExpBlock)
  BY <1>1 DEF BlocksSound, Tiling
<1>3. DOMAIN expBlocks = 1..Len(expBlocks)
  BY <1>2
<1>4. PICK i \in 1..Len(expBlocks) :
        /\ expBlocks[i].used
        /\ expBlocks' = X!Coalesce([expBlocks EXCEPT ![i] = X!FreeBlock(@.start, @.end)])
  BY <1>3 DEF X!Free
<1>5. PICK n, f : n = Len(expBlocks) /\ f = X!FreeBlock(expBlocks[i].start, expBlocks[i].end)
  OBVIOUS
<1>6. PICK c : c = [expBlocks EXCEPT ![i] = f]
  OBVIOUS
<1>7. expBlocks' = X!Coalesce(c)
  BY <1>4, <1>5, <1>6
<1>8. n \in Nat /\ i \in 1..n /\ \A j \in 1..n : expBlocks[j] \in ExpBlock
  BY <1>2, <1>5
<1>9. f \in ExpBlock /\ ~f.used /\ f.start = expBlocks[i].start /\ f.end = expBlocks[i].end
  <2>1. expBlocks[i].start \in Nat /\ expBlocks[i].end \in Nat
    BY <1>8 DEF ExpBlock
  <2> QED BY <1>5, <2>1, FreeBlockIs
<1>10. /\ c \in Seq(ExpBlock) /\ Len(c) = n
       /\ \A j \in 1..n : c[j] = IF j = i THEN f ELSE expBlocks[j]
  <2>1. /\ c \in Seq(ExpBlock) /\ Len(c) = Len(expBlocks)
        /\ \A j \in 1..Len(expBlocks) : c[j] = IF j = i THEN f ELSE expBlocks[j]
    BY <1>2, <1>4, <1>6, <1>9, ExceptSeq
  <2> QED BY <1>5, <2>1
<1>11. \A j \in 1..n : c[j].start = expBlocks[j].start /\ c[j].end = expBlocks[j].end
  BY <1>9, <1>10
<1>12. \A j \in 1..n : /\ expBlocks[j].start < expBlocks[j].end
                       /\ j > 1 => expBlocks[j].start = expBlocks[j - 1].end
  BY <1>2, <1>5 DEF Tiling, Contiguous
<1>13. Contiguous(c)
  <2>1. ASSUME NEW j \in 1..n PROVE c[j].start < c[j].end /\ (j > 1 => c[j].start = c[j - 1].end)
    <3>1. j > 1 => j - 1 \in 1..n
      BY <1>8
    <3> QED BY <1>11, <1>12, <3>1
  <2> QED BY <1>10, <2>1 DEF Contiguous
<1>14. c # <<>>
  <2>1. Len(c) # 0
    BY <1>8, <1>10
  <2>2. Len(<<>>) = 0
    OBVIOUS
  <2> QED BY <2>1, <2>2, Zenon
<1>15. Tiling(X!Coalesce(c), c[1].start, c[Len(c)].end) /\ UsedOf(X!Coalesce(c)) = UsedOf(c)
  BY <1>10, <1>13, <1>14, CoalesceIs
<1>16. c[1].start = X!DataStart /\ c[Len(c)].end = expEnd
  <2>1. 1 \in 1..n /\ n \in 1..n
    BY <1>8
  <2>2. expBlocks[1].start = X!DataStart /\ expBlocks[n].end = expEnd
    BY <1>2, <1>5 DEF Tiling
  <2> QED BY <1>10, <1>11, <2>1, <2>2
<1>17. Tiling(expBlocks', X!DataStart, expEnd) /\ UsedOf(expBlocks') = UsedOf(c)
  BY <1>7, <1>15, <1>16
<1>18. ASSUME NEW x \in ExpBlock
       PROVE  x \in UsedOf(c) <=> x.used /\ \E j \in 1..n : j # i /\ expBlocks[j] = x
  <2>1. x \in UsedOf(c) <=> x.used /\ \E j \in 1..n : c[j] = x
    BY <1>10 DEF UsedOf
  <2>2. ASSUME NEW j \in 1..n, x.used PROVE c[j] = x <=> j # i /\ expBlocks[j] = x
    BY <1>9, <1>10, <2>2
  <2> QED BY <2>1, <2>2
<1> QED BY <1>1, <1>4, <1>5, <1>17, <1>18

\* So MEMFreeToExpHeap keeps the invariant.
LEMMA ExpFreeKeeps ==
  ASSUME BlocksSound, NEW pointer, X!Free(pointer)
  PROVE  BlocksSound'
<1>1. /\ expLive /\ expLive' = expLive /\ mode' = mode /\ expEnd' = expEnd
      /\ Tiling(expBlocks', X!DataStart, expEnd)
      /\ \A x \in ExpBlock : x \in UsedOf(expBlocks') =>
           x.used /\ \E j \in 1..Len(expBlocks) : expBlocks[j] = x
  BY ExpFreeStep
<1>2. \A x \in UsedOf(expBlocks') : Headed(x)
  <2>1. \A x \in UsedOf(expBlocks') : x \in ExpBlock
    BY DEF UsedOf
  <2>2. \A x \in ExpBlock : x \in UsedOf(expBlocks') => x \in UsedOf(expBlocks)
    BY <1>1 DEF UsedOf
  <2>3. \A x \in UsedOf(expBlocks) : Headed(x)
    BY DEF BlocksSound
  <2> QED BY <2>1, <2>2, <2>3
<1>3. expLive' /\ Tiling(expBlocks', X!DataStart, expEnd')
  BY <1>1
<1>4. expLive' \in BOOLEAN /\ mode' \in {"first", "nearest"} /\ expEnd' \in Nat
  BY <1>1 DEF BlocksSound
<1> QED BY <1>2, <1>3, <1>4 DEF BlocksSound

\* Every step of the expanded heap keeps the invariant.
LEMMA ExpNextKeeps == BlocksSound /\ [X!Next]_expVars => BlocksSound'
<1> SUFFICES ASSUME BlocksSound, [X!Next]_expVars PROVE BlocksSound'
  OBVIOUS
<1>1. CASE UNCHANGED expVars
  BY <1>1 DEF expVars, BlocksSound
<1>2. ASSUME NEW size \in ExpRegionSizes, X!Create(size) PROVE BlocksSound'
  BY <1>2, HeapsAssumption, ExpCreateKeeps
<1>3. CASE X!Destroy
  <2>1. expLive' = FALSE /\ expBlocks' = <<>> /\ mode' = mode /\ expEnd' = expEnd
    BY <1>3 DEF X!Destroy
  <2>2. UsedOf(expBlocks') = {}
    BY <2>1, NoneUsed
  <2> QED BY <2>1, <2>2 DEF BlocksSound
<1>4. ASSUME NEW m \in {"first", "nearest"}, X!SetMode(m) PROVE BlocksSound'
  BY <1>4 DEF X!SetMode, BlocksSound
<1>5. ASSUME NEW size \in ExpRequests, NEW alignment \in ExpAlignments, X!Alloc(size, alignment)
      PROVE  BlocksSound'
  <2>1. size \in Nat /\ alignment \in Int
    BY HeapsAssumption
  <2> QED BY <1>5, <2>1, ExpAllocKeeps
<1>6. ASSUME NEW pointer, X!Free(pointer) PROVE BlocksSound'
  BY <1>6, ExpFreeKeeps
<1>7. CASE X!Next
  BY <1>2, <1>3, <1>4, <1>5, <1>6, <1>7 DEF X!Next
<1> QED BY <1>1, <1>7

\* It holds throughout every run of the heaps.
THEOREM BlocksStaySound == HeapsSpec => []BlocksSound
<1>1. HeapsInit => BlocksSound
  BY ExpInitSound DEF HeapsInit
<1>2. BlocksSound /\ [HeapsNext]_<<part, vars, expVars>> => BlocksSound'
  <2>1. [HeapsNext]_<<part, vars, expVars>> => [X!Next]_expVars
    BY DEF HeapsNext, UseFrame, UseExpanded
  <2> QED BY <2>1, ExpNextKeeps
<1> QED BY <1>1, <1>2, PTL DEF HeapsSpec
-------------------------------------------------------------------------------
\* What is in the list, by position.
LEMMA BlocksTyped ==
  ASSUME BlocksSound
  PROVE  /\ expBlocks \in Seq(ExpBlock) /\ DOMAIN expBlocks = 1..Len(expBlocks)
         /\ Contiguous(expBlocks) /\ NoFreeNeighbours(expBlocks)
         /\ \A i \in 1..Len(expBlocks) : expBlocks[i] \in ExpBlock /\ Headed(expBlocks[i])
<1>1. /\ expBlocks \in Seq(ExpBlock) /\ Contiguous(expBlocks) /\ NoFreeNeighbours(expBlocks)
  <2>1. CASE expLive
    BY <2>1 DEF BlocksSound, Tiling
  <2>2. CASE ~expLive
    <3>1. expBlocks = <<>>
      BY <2>2 DEF BlocksSound
    <3>2. expBlocks \in Seq(ExpBlock) /\ Len(expBlocks) = 0
      BY <3>1
    <3> QED BY <3>2 DEF Contiguous, NoFreeNeighbours
  <2> QED BY <2>1, <2>2
<1>2. ASSUME NEW i \in 1..Len(expBlocks) PROVE expBlocks[i] \in ExpBlock /\ Headed(expBlocks[i])
  <2>1. expBlocks[i] \in ExpBlock
    BY <1>1
  <2>2. expBlocks[i].used => expBlocks[i] \in UsedOf(expBlocks)
    BY <2>1 DEF UsedOf
  <2>3. \A x \in UsedOf(expBlocks) : Headed(x)
    BY DEF BlocksSound
  <2>4. ~expBlocks[i].used => Headed(expBlocks[i])
    BY DEF Headed
  <2> QED BY <2>1, <2>2, <2>3, <2>4
<1>3. DOMAIN expBlocks = 1..Len(expBlocks)
  BY <1>1
<1> QED BY <1>1, <1>2, <1>3

\* Nothing of the region is ever lost to splitting, absorbing and merging
\* (memexpheap.cpp:37): the blocks cover it to the byte, in order, and no two free
\* ones are neighbours.
THEOREM RegionTiled == HeapsSpec => []Tiles
<1>1. ASSUME BlocksSound PROVE Tiles
  <2>1. /\ expBlocks \in Seq(ExpBlock) /\ DOMAIN expBlocks = 1..Len(expBlocks)
        /\ Contiguous(expBlocks) /\ NoFreeNeighbours(expBlocks)
        /\ \A i \in DOMAIN expBlocks : expBlocks[i] \in ExpBlock
    BY <1>1, BlocksTyped
  <2>2. X!TypeOK
    <3>1. expLive \in BOOLEAN /\ mode \in {"first", "nearest"} /\ expEnd \in Nat
      BY <1>1 DEF BlocksSound
    <3>2. expLive \/ expBlocks = <<>>
      BY <1>1 DEF BlocksSound
    <3>3. \A b \in ExpBlock : /\ b.start \in Nat /\ b.end \in Nat /\ b.used \in BOOLEAN
                             /\ b.payload \in Nat /\ b.payloadSize \in Nat
      BY DEF ExpBlock
    <3> QED BY <2>1, <3>1, <3>2, <3>3 DEF X!TypeOK
  <2>3. expLive => /\ expBlocks # <<>>
                   /\ expBlocks[1].start = X!DataStart /\ X!Last(expBlocks).end = expEnd
    BY <1>1 DEF BlocksSound, Tiling, X!Last
  <2>4. \A i \in DOMAIN expBlocks :
          /\ expBlocks[i].start < expBlocks[i].end
          /\ i > 1 => /\ expBlocks[i].start = expBlocks[i - 1].end
                      /\ expBlocks[i].used \/ expBlocks[i - 1].used
    BY <2>1 DEF Contiguous, NoFreeNeighbours
  <2> QED BY <2>2, <2>3, <2>4 DEF Tiles, X!Tiles
<1> QED BY <1>1, BlocksStaySound, PTL

\* No payload that MEMAllocFromExpHeapEx returns reaches into a header, its own or
\* the next block's.
THEOREM PayloadsKeepOff == HeapsSpec => []HeadersKept
<1>1. ASSUME BlocksSound PROVE HeadersKept
  <2> SUFFICES ASSUME NEW i \in DOMAIN expBlocks, expBlocks[i].used
               PROVE  /\ expBlocks[i].start + BlockHeader <= expBlocks[i].payload
                      /\ expBlocks[i].payload + expBlocks[i].payloadSize <= expBlocks[i].end
    BY DEF HeadersKept, X!HeadersKept
  <2> QED BY <1>1, BlocksTyped DEF Headed
<1> QED BY <1>1, BlocksStaySound, PTL

\* Two blocks in a list without gaps share nothing.
LEMMA BlocksApart ==
  ASSUME NEW bs \in Seq(ExpBlock), Contiguous(bs), NEW i \in 1..Len(bs), NEW j \in 1..Len(bs), i # j
  PROVE  bs[i].end <= bs[j].start \/ bs[j].end <= bs[i].start
<1>1. i < j \/ j < i
  OBVIOUS
<1> QED BY <1>1, EndsBefore

\* Every block lies between the ends of the list.
LEMMA BlocksWithin ==
  ASSUME NEW bs, NEW lo \in Nat, NEW hi \in Nat, Tiling(bs, lo, hi), NEW i \in 1..Len(bs)
  PROVE  lo <= bs[i].start /\ bs[i].end <= hi
<1>1. PICK n : n = Len(bs)
  OBVIOUS
<1>2. bs \in Seq(ExpBlock) /\ Contiguous(bs) /\ bs[1].start = lo /\ bs[n].end = hi
  BY <1>1 DEF Tiling
<1>3. n \in Nat /\ i \in 1..n /\ 1 \in 1..n /\ n \in 1..n
  BY <1>1, <1>2
<1>4. \A j \in 1..n : bs[j].start \in Nat /\ bs[j].end \in Nat /\ bs[j].start < bs[j].end
  <2>1. \A b \in ExpBlock : b.start \in Nat /\ b.end \in Nat
    BY DEF ExpBlock
  <2>2. \A j \in 1..n : bs[j] \in ExpBlock /\ bs[j].start < bs[j].end
    BY <1>1, <1>2 DEF Contiguous
  <2> QED BY <2>1, <2>2
<1>5. \A j, k \in 1..n : j < k => bs[j].end <= bs[k].start
  BY <1>1, <1>2, EndsBefore
<1>6. lo <= bs[i].start
  <2>1. CASE i = 1
    BY <1>2, <2>1
  <2>2. CASE i # 1
    <3>1. bs[1].end <= bs[i].start
      BY <1>3, <1>5, <2>2
    <3>2. /\ bs[1].start < bs[1].end /\ bs[1].start \in Nat /\ bs[1].end \in Nat /\ bs[i].start \in Nat
      BY <1>3, <1>4
    <3> QED BY <1>2, <3>1, <3>2
  <2> QED BY <2>1, <2>2
<1>7. bs[i].end <= hi
  <2>1. CASE i = n
    BY <1>2, <2>1
  <2>2. CASE i # n
    <3>1. bs[i].end <= bs[n].start
      BY <1>3, <1>5, <2>2
    <3>2. /\ bs[n].start < bs[n].end /\ bs[n].start \in Nat /\ bs[n].end \in Nat /\ bs[i].end \in Nat
      BY <1>3, <1>4
    <3> QED BY <1>2, <3>1, <3>2
  <2> QED BY <2>1, <2>2
<1> QED BY <1>6, <1>7
-------------------------------------------------------------------------------
\* The mapping: the region of a heap, and the ranges its used blocks hand out.
RangeOf(b) == <<b.payload, b.payload + b.payloadSize>>
Region == IF expLive THEN <<X!DataStart, expEnd>> ELSE <<0, 0>>
Taken == {<<expBlocks[i].payload, expBlocks[i].payload + expBlocks[i].payloadSize>> :
            i \in {j \in DOMAIN expBlocks : expBlocks[j].used}}

\* The ranges handed out, told from the used blocks.
LEMMA RangesOf ==
  ASSUME NEW bs \in Seq(ExpBlock)
  PROVE  {<<bs[i].payload, bs[i].payload + bs[i].payloadSize>> : i \in {j \in DOMAIN bs : bs[j].used}}
           = {RangeOf(x) : x \in UsedOf(bs)}
<1>1. DOMAIN bs = 1..Len(bs) /\ \A i \in 1..Len(bs) : bs[i] \in ExpBlock
  OBVIOUS
<1>2. ASSUME NEW i \in 1..Len(bs), bs[i].used PROVE \E x \in UsedOf(bs) : x = bs[i]
  BY <1>1, <1>2 DEF UsedOf
<1>3. ASSUME NEW x \in UsedOf(bs) PROVE \E i \in 1..Len(bs) : bs[i] = x /\ bs[i].used
  BY DEF UsedOf
<1>4. ASSUME NEW q
      PROVE  (\E i \in 1..Len(bs) : bs[i].used /\ q = RangeOf(bs[i])) <=> \E x \in UsedOf(bs) : q = RangeOf(x)
  <2>1. ASSUME NEW i \in 1..Len(bs), bs[i].used, q = RangeOf(bs[i]) PROVE \E x \in UsedOf(bs) : q = RangeOf(x)
    BY <1>2, <2>1
  <2>2. ASSUME NEW x \in UsedOf(bs), q = RangeOf(x) PROVE \E i \in 1..Len(bs) : bs[i].used /\ q = RangeOf(bs[i])
    BY <1>3, <2>2
  <2> QED BY <2>1, <2>2
<1>5. {<<bs[i].payload, bs[i].payload + bs[i].payloadSize>> : i \in {j \in DOMAIN bs : bs[j].used}}
        = {RangeOf(bs[i]) : i \in {j \in 1..Len(bs) : bs[j].used}}
  BY <1>1 DEF RangeOf
<1> QED BY <1>4, <1>5

\* The range of a used block lies in it and is not empty.
LEMMA RangeWithin ==
  ASSUME NEW b \in ExpBlock, b.used, Headed(b)
  PROVE  /\ RangeOf(b)[1] \in Nat /\ RangeOf(b)[2] \in Nat
         /\ b.start <= RangeOf(b)[1] /\ RangeOf(b)[1] < RangeOf(b)[2] /\ RangeOf(b)[2] <= b.end
BY HeapsAssumption DEF Headed, RangeOf, ExpBlock

\* An allocation grants a range that no other shares.
LEMMA AllocGrants ==
  ASSUME BlocksSound, NEW size \in Nat, NEW alignment \in Int, X!Alloc(size, alignment)
  PROVE  \E p \in Taken' : X!Allocator!Grant(p)
<1>1. /\ expLive /\ expLive' = expLive /\ expEnd' = expEnd
      /\ Tiling(expBlocks', X!DataStart, expEnd)
  BY ExpAllocStep
<1>2. PICK i \in 1..Len(expBlocks), u \in ExpBlock :
        /\ ~expBlocks[i].used /\ u.used /\ Headed(u)
        /\ expBlocks[i].start <= u.payload /\ u.payload + u.payloadSize <= expBlocks[i].end
        /\ \A x \in ExpBlock : x \in UsedOf(expBlocks') <=> x \in UsedOf(expBlocks) \/ x = u
  BY ExpAllocStep
<1>3. PICK p : p = RangeOf(u)
  OBVIOUS
<1>4. /\ p[1] \in Nat /\ p[2] \in Nat /\ p[1] < p[2]
      /\ expBlocks[i].start <= p[1] /\ p[2] <= expBlocks[i].end
  <2>1. RangeOf(u)[1] \in Nat /\ RangeOf(u)[2] \in Nat /\ RangeOf(u)[1] < RangeOf(u)[2]
    BY <1>2, RangeWithin
  <2>2. RangeOf(u)[1] = u.payload /\ RangeOf(u)[2] = u.payload + u.payloadSize
    BY DEF RangeOf
  <2> QED BY <1>2, <1>3, <2>1, <2>2
<1>5. /\ expBlocks \in Seq(ExpBlock) /\ Contiguous(expBlocks) /\ Tiling(expBlocks, X!DataStart, expEnd)
      /\ \A j \in 1..Len(expBlocks) : expBlocks[j] \in ExpBlock /\ Headed(expBlocks[j])
  BY <1>1, BlocksTyped DEF BlocksSound
<1>6. Taken = {RangeOf(x) : x \in UsedOf(expBlocks)}
  BY <1>5, RangesOf DEF Taken
<1>7. Taken' = {RangeOf(x) : x \in UsedOf(expBlocks')}
  <2>1. expBlocks' \in Seq(ExpBlock)
    BY <1>1 DEF Tiling
  <2>2. \A bs \in Seq(ExpBlock) :
          {<<bs[k].payload, bs[k].payload + bs[k].payloadSize>> : k \in {j \in DOMAIN bs : bs[j].used}}
            = {RangeOf(x) : x \in UsedOf(bs)}
    BY RangesOf
  <2> QED BY <2>1, <2>2 DEF Taken
<1>8. Taken' = Taken \cup {p}
  <2>1. \A x \in UsedOf(expBlocks') : x \in ExpBlock
    BY DEF UsedOf
  <2>2. \A x \in UsedOf(expBlocks) : x \in ExpBlock
    BY DEF UsedOf
  <2>3. UsedOf(expBlocks') = UsedOf(expBlocks) \cup {u}
    BY <1>2, <2>1, <2>2
  <2> QED BY <1>3, <1>6, <1>7, <2>3
<1>9. X!DataStart <= expBlocks[i].start /\ expBlocks[i].end <= expEnd
  BY <1>5, ExpDataStart, BlocksWithin DEF BlocksSound
<1>10. expBlocks[i].start \in Nat /\ expBlocks[i].end \in Nat /\ X!DataStart \in Nat /\ expEnd \in Nat
  <2>1. expBlocks[i] \in ExpBlock
    BY <1>5
  <2> QED BY <2>1, ExpDataStart DEF ExpBlock, BlocksSound
<1>11. ASSUME NEW q \in Taken PROVE X!Allocator!Apart(p, q)
  <2>1. PICK x \in UsedOf(expBlocks) : q = RangeOf(x)
    BY <1>6
  <2>2. PICK j \in 1..Len(expBlocks) : expBlocks[j] = x /\ expBlocks[j].used
    BY <2>1 DEF UsedOf
  <2>3. /\ q[1] \in Nat /\ q[2] \in Nat
        /\ expBlocks[j].start <= q[1] /\ q[1] < q[2] /\ q[2] <= expBlocks[j].end
    BY <1>5, <2>1, <2>2, RangeWithin
  <2>4. i # j
    BY <1>2, <2>2
  <2>5. expBlocks[i].end <= expBlocks[j].start \/ expBlocks[j].end <= expBlocks[i].start
    BY <1>5, <2>4, BlocksApart
  <2>6. expBlocks[j].start \in Nat /\ expBlocks[j].end \in Nat
    <3>1. expBlocks[j] \in ExpBlock
      BY <1>5
    <3> QED BY <3>1 DEF ExpBlock
  <2>7. p[2] <= q[1] \/ q[2] <= p[1]
    <3> DEFINE a == expBlocks[i].start
               b == expBlocks[i].end
               c == expBlocks[j].start
               d == expBlocks[j].end
    <3>1. a \in Nat /\ b \in Nat /\ c \in Nat /\ d \in Nat
      BY ONLY <1>10, <2>6
    <3>2. a <= p[1] /\ p[2] <= b /\ c <= q[1] /\ q[2] <= d /\ (b <= c \/ d <= a)
      BY ONLY <1>4, <2>3, <2>5
    <3>3. p[1] \in Nat /\ p[2] \in Nat /\ q[1] \in Nat /\ q[2] \in Nat
      BY ONLY <1>4, <2>3
    <3> HIDE DEF a, b, c, d
    <3> QED BY ONLY <3>1, <3>2, <3>3, SMTT(60)
  <2> QED BY <2>7 DEF X!Allocator!Apart
<1>12. Region = <<X!DataStart, expEnd>> /\ Region' = Region
  BY <1>1 DEF Region
<1>13. Region[1] <= p[1] /\ p[1] < p[2] /\ p[2] <= Region[2]
  <2>1. Region[1] = X!DataStart /\ Region[2] = expEnd
    BY <1>12
  <2>2. X!DataStart <= p[1] /\ p[2] <= expEnd
    BY <1>4, <1>9, <1>10, SMTT(60)
  <2> QED BY <1>4, <2>1, <2>2
<1>14. X!Allocator!Grant(p)
  BY <1>8, <1>11, <1>12, <1>13 DEF X!Allocator!Grant, Region, Taken
<1>15. p \in Taken'
  BY <1>8
<1> QED BY <1>14, <1>15

\* A free gives back the range that the pointer names, and no other.
LEMMA FreeReturns ==
  ASSUME BlocksSound, NEW pointer, X!Free(pointer)
  PROVE  \E p \in Taken : X!Allocator!Return(p)
<1>1. /\ expLive /\ expLive' = expLive /\ expEnd' = expEnd
      /\ Tiling(expBlocks', X!DataStart, expEnd)
  BY ExpFreeStep
<1>2. PICK i \in 1..Len(expBlocks) :
        /\ expBlocks[i].used
        /\ \A x \in ExpBlock : x \in UsedOf(expBlocks')
             <=> x.used /\ \E j \in 1..Len(expBlocks) : j # i /\ expBlocks[j] = x
  BY ExpFreeStep
<1>3. PICK p : p = RangeOf(expBlocks[i])
  OBVIOUS
<1>4. /\ expBlocks \in Seq(ExpBlock) /\ Contiguous(expBlocks)
      /\ \A j \in 1..Len(expBlocks) : expBlocks[j] \in ExpBlock /\ Headed(expBlocks[j])
  BY BlocksTyped
<1>5. Taken = {RangeOf(x) : x \in UsedOf(expBlocks)}
  BY <1>4, RangesOf DEF Taken
<1>6. Taken' = {RangeOf(x) : x \in UsedOf(expBlocks')}
  <2>1. expBlocks' \in Seq(ExpBlock)
    BY <1>1 DEF Tiling
  <2>2. \A bs \in Seq(ExpBlock) :
          {<<bs[k].payload, bs[k].payload + bs[k].payloadSize>> : k \in {j \in DOMAIN bs : bs[j].used}}
            = {RangeOf(x) : x \in UsedOf(bs)}
    BY RangesOf
  <2> QED BY <2>1, <2>2 DEF Taken
<1>7. \A j \in 1..Len(expBlocks) :
        expBlocks[j].used => /\ RangeOf(expBlocks[j])[1] \in Nat /\ RangeOf(expBlocks[j])[2] \in Nat
                             /\ expBlocks[j].start <= RangeOf(expBlocks[j])[1]
                             /\ RangeOf(expBlocks[j])[1] < RangeOf(expBlocks[j])[2]
                             /\ RangeOf(expBlocks[j])[2] <= expBlocks[j].end
  BY <1>4, RangeWithin
<1>8. ASSUME NEW j \in 1..Len(expBlocks), j # i, expBlocks[j].used PROVE RangeOf(expBlocks[j]) # p
  <2>1. expBlocks[i].end <= expBlocks[j].start \/ expBlocks[j].end <= expBlocks[i].start
    BY <1>4, <1>8, BlocksApart
  <2>2. PICK q : q = RangeOf(expBlocks[j])
    OBVIOUS
  <2>3. /\ q[1] \in Nat /\ q[2] \in Nat /\ expBlocks[j].start <= q[1] /\ q[1] < q[2]
        /\ q[2] <= expBlocks[j].end
    BY <1>7, <1>8, <2>2
  <2>4. /\ p[1] \in Nat /\ p[2] \in Nat /\ expBlocks[i].start <= p[1] /\ p[1] < p[2]
        /\ p[2] <= expBlocks[i].end
    BY <1>2, <1>3, <1>7
  <2>5. /\ expBlocks[j].start \in Nat /\ expBlocks[j].end \in Nat
        /\ expBlocks[i].start \in Nat /\ expBlocks[i].end \in Nat
    <3>1. expBlocks[i] \in ExpBlock /\ expBlocks[j] \in ExpBlock
      BY <1>4
    <3> QED BY <3>1 DEF ExpBlock
  <2>6. q[1] # p[1]
    BY <2>1, <2>3, <2>4, <2>5, SMTT(60)
  <2> QED BY <2>2, <2>6
<1>9. p \in Taken
  <2>1. expBlocks[i] \in UsedOf(expBlocks)
    BY <1>2, <1>4 DEF UsedOf
  <2> QED BY <1>3, <1>5, <2>1
<1>10. Taken' = Taken \ {p}
  <2>1. ASSUME NEW q \in Taken' PROVE q \in Taken \ {p}
    <3>1. PICK x \in UsedOf(expBlocks') : q = RangeOf(x)
      BY <1>6, <2>1
    <3>2. x \in ExpBlock
      BY DEF UsedOf
    <3>3. PICK j \in 1..Len(expBlocks) : j # i /\ expBlocks[j] = x /\ x.used
      BY <1>2, <3>1, <3>2
    <3>4. x \in UsedOf(expBlocks)
      BY <3>2, <3>3 DEF UsedOf
    <3> QED BY <1>5, <1>8, <3>1, <3>3, <3>4
  <2>2. ASSUME NEW q \in Taken, q # p PROVE q \in Taken'
    <3>1. PICK x \in UsedOf(expBlocks) : q = RangeOf(x)
      BY <1>5, <2>2
    <3>2. x \in ExpBlock /\ x.used /\ \E j \in 1..Len(expBlocks) : expBlocks[j] = x
      BY <3>1 DEF UsedOf
    <3>3. PICK j \in 1..Len(expBlocks) : expBlocks[j] = x
      BY <3>2
    <3>4. j # i
      BY <1>3, <2>2, <3>1, <3>3
    <3>5. x \in UsedOf(expBlocks')
      BY <1>2, <3>2, <3>3, <3>4
    <3> QED BY <1>6, <3>1, <3>5
  <2> QED BY <2>1, <2>2
<1>11. Region' = Region
  BY <1>1 DEF Region
<1>12. X!Allocator!Return(p)
  BY <1>9, <1>10, <1>11 DEF X!Allocator!Return, Region, Taken
<1> QED BY <1>9, <1>12

\* Every step of the heap is one of the allocator's, or leaves its state alone.
LEMMA ExpStepMaps ==
  ASSUME BlocksSound, [X!Next]_expVars
  PROVE  [X!Allocator!Step]_(X!Allocator!vars)
<1>1. ASSUME Region' = Region, Taken' = Taken PROVE UNCHANGED X!Allocator!vars
  BY <1>1 DEF X!Allocator!vars, Region, Taken
<1>2. ASSUME NEW lo, NEW hi, Region' = <<lo, hi>>, Taken' = {} PROVE X!Allocator!Step
  <2>1. Region'[1] = lo /\ Region'[2] = hi
    BY <1>2
  <2>2. X!Allocator!Open(Region'[1], Region'[2])
    BY <1>2, <2>1 DEF X!Allocator!Open, Region, Taken
  <2> QED BY <2>2 DEF X!Allocator!Step, Region
<1>3. CASE UNCHANGED expVars
  BY <1>1, <1>3 DEF expVars, Region, Taken
<1>4. ASSUME NEW size \in ExpRegionSizes, X!Create(size) PROVE X!Allocator!Step
  <2>1. PICK b : b = X!FreeBlock(X!DataStart, ExpBase + size)
    OBVIOUS
  <2>2. expLive' = TRUE /\ expEnd' = ExpBase + size /\ expBlocks' = <<b>> /\ ~b.used
    BY <1>4, <2>1 DEF X!Create, X!FreeBlock
  <2>3. Region' = <<X!DataStart, ExpBase + size>>
    BY <2>2 DEF Region
  <2>4. Taken' = {}
    <3>1. \A j \in DOMAIN expBlocks' : expBlocks'[j] = b
      BY <2>2
    <3> QED BY <2>2, <3>1 DEF Taken
  <2> QED BY <1>2, <2>3, <2>4
<1>5. CASE X!Destroy
  <2>1. expLive' = FALSE /\ expBlocks' = <<>>
    BY <1>5 DEF X!Destroy
  <2>2. Region' = <<0, 0>>
    BY <2>1 DEF Region
  <2>3. Taken' = {}
    <3>1. DOMAIN expBlocks' = {}
      BY <2>1
    <3> QED BY <3>1 DEF Taken
  <2> QED BY <1>2, <2>2, <2>3
<1>6. ASSUME NEW m \in {"first", "nearest"}, X!SetMode(m) PROVE UNCHANGED X!Allocator!vars
  <2>1. expLive' = expLive /\ expEnd' = expEnd /\ expBlocks' = expBlocks
    BY <1>6 DEF X!SetMode
  <2>2. Region' = Region /\ Taken' = Taken
    BY <2>1 DEF Region, Taken
  <2> QED BY <1>1, <2>2
<1>7. ASSUME NEW size \in ExpRequests, NEW alignment \in ExpAlignments, X!Alloc(size, alignment)
      PROVE  X!Allocator!Step
  <2>1. size \in Nat /\ alignment \in Int
    BY HeapsAssumption
  <2>2. \E p \in Taken' : X!Allocator!Grant(p)
    BY <1>7, <2>1, AllocGrants
  <2> QED BY <2>2 DEF X!Allocator!Step, Taken
<1>8. ASSUME NEW pointer, X!Free(pointer) PROVE X!Allocator!Step
  <2>1. \E p \in Taken : X!Allocator!Return(p)
    BY <1>8, FreeReturns
  <2> QED BY <2>1 DEF X!Allocator!Step, Taken
<1>9. CASE X!Next
  BY <1>4, <1>5, <1>6, <1>7, <1>8, <1>9 DEF X!Next
<1> QED BY <1>3, <1>9

\* MEMExpHeap implements an allocator of disjoint ranges: what it hands out lies in
\* the region and shares no byte with what is still in use, and what it takes back
\* is the allocation named.
THEOREM HeapIsAllocator == HeapsSpec => ImplementsAllocator
<1>1. HeapsInit => X!Allocator!Init
  <2> SUFFICES ASSUME X!Init PROVE X!Allocator!Init
    BY DEF HeapsInit
  <2>1. expLive = FALSE /\ expBlocks = <<>>
    BY DEF X!Init
  <2>2. DOMAIN expBlocks = {}
    BY <2>1
  <2> QED BY <2>1, <2>2 DEF X!Allocator!Init
<1>2. BlocksSound /\ [HeapsNext]_<<part, vars, expVars>> => [X!Allocator!Step]_(X!Allocator!vars)
  <2>1. [HeapsNext]_<<part, vars, expVars>> => [X!Next]_expVars
    BY DEF HeapsNext, UseFrame, UseExpanded
  <2> QED BY <2>1, ExpStepMaps
<1>3. HeapsSpec => X!Allocator!Spec
  BY <1>1, <1>2, BlocksStaySound, PTL DEF HeapsSpec, X!Allocator!Spec
<1> QED BY <1>3 DEF ImplementsAllocator, X!ImplementsAllocator
-------------------------------------------------------------------------------
\* fitInFree tells exactly which requests a block has room for, from either end.
LEMMA FitIsRoom ==
  ASSUME NEW b \in ExpBlock, NEW n \in Nat \ {0}, NEW a \in Nat \ {0}
  PROVE  /\ X!FitInFree(b, a) \in Nat /\ X!FitInFree(b, a) <= b.end
         /\ X!FitInFree(b, a) >= n <=> X!RoomTop(b, n, a)
         /\ X!FitInFree(b, a) >= n <=> X!RoomBottom(b, n, a)
<1>1. PICK s, e : s = b.start /\ e = b.end
  OBVIOUS
<1>2. s \in Nat /\ e \in Nat /\ BlockHeader \in Nat
  BY <1>1, HeapsAssumption DEF ExpBlock
<1>3. PICK low : low = AlignUp(s + BlockHeader, a)
  OBVIOUS
<1>4. PICK high : high = AlignDown(e - n, a)
  OBVIOUS
<1>5. s + BlockHeader \in Int /\ e - n \in Int /\ n \in Nat /\ n >= 1
  BY <1>2
<1>6. low \in Int /\ s + BlockHeader <= low
  BY <1>3, <1>5, AlignUpBounds
<1>7. high \in Int
  BY <1>4, <1>5, AlignDownBounds
<1>8. s + BlockHeader <= high <=> low <= e - n
  BY <1>3, <1>4, <1>5, AlignmentsAgree
<1>9. X!AlignUp(s + BlockHeader, a) = low /\ X!AlignDown(e - n, a) = high
  BY <1>3, <1>4, <1>5, ExpSame
<1>10. X!FitInFree(b, a) = IF low >= e THEN 0 ELSE e - low
  BY <1>1, <1>9 DEF X!FitInFree
<1>11. X!RoomTop(b, n, a) <=> low + n <= e
  BY <1>1, <1>9 DEF X!RoomTop
<1>12. X!RoomBottom(b, n, a) <=> high - BlockHeader >= s
  BY <1>1, <1>9 DEF X!RoomBottom
<1>13. X!FitInFree(b, a) \in Nat /\ X!FitInFree(b, a) <= e /\ (X!FitInFree(b, a) >= n <=> low + n <= e)
  <2>1. CASE low >= e
    BY <1>2, <1>5, <1>6, <1>10, <2>1
  <2>2. CASE ~(low >= e)
    BY <1>2, <1>5, <1>6, <1>10, <2>2
  <2> QED BY <2>1, <2>2
<1>14. high - BlockHeader >= s <=> low + n <= e
  BY <1>2, <1>5, <1>6, <1>7, <1>8
<1> QED BY <1>1, <1>11, <1>12, <1>13, <1>14

\* When some block serves a request, the search of MEMAllocFromExpHeapEx chooses
\* one, in either mode.
LEMMA SomeChosen ==
  ASSUME BlocksSound, NEW n \in Nat \ {0}, NEW a \in Nat \ {0},
         \E i \in 1..Len(expBlocks) : X!Serves(i, n, a)
  PROVE  \E i \in 1..Len(expBlocks) : X!Chosen(i, n, a)
<1>1. PICK m : m = Len(expBlocks)
  OBVIOUS
<1>2. m \in Nat /\ DOMAIN expBlocks = 1..m /\ \A i \in 1..m : expBlocks[i] \in ExpBlock
  BY <1>1, BlocksTyped
<1> DEFINE Fit(i) == X!FitInFree(expBlocks[i], a)
           S == {i \in 1..m : X!Serves(i, n, a)}
<1>3. \A i \in 1..m : Fit(i) \in Nat
  BY <1>2, FitIsRoom
<1>4. S # {} /\ S \in SUBSET Nat /\ \A i \in S : i \in 1..m /\ X!Serves(i, n, a)
  BY <1>1
<1>5. \A j \in DOMAIN expBlocks : X!Serves(j, n, a) => j \in S
  BY <1>2
<1> HIDE DEF Fit, S
<1>6. CASE mode = "first"
  <2>1. PICK i \in S : \A j \in S : i <= j
    BY <1>4, LeastOf
  <2>2. X!Chosen(i, n, a)
    BY <1>4, <1>5, <1>6, <2>1 DEF X!Chosen
  <2> QED BY <1>1, <1>4, <2>2
<1>7. CASE mode # "first"
  <2>1. PICK F : F = {Fit(i) : i \in S}
    OBVIOUS
  <2>2. F \in SUBSET Nat /\ F # {}
    BY <1>3, <1>4, <2>1
  <2>3. PICK f \in F : \A g \in F : f <= g
    BY <2>2, LeastOf
  <2>4. PICK T : T = {i \in S : Fit(i) = f}
    OBVIOUS
  <2>5. T \in SUBSET Nat /\ T # {}
    BY <1>4, <2>1, <2>3, <2>4
  <2>6. PICK i \in T : \A j \in T : i <= j
    BY <2>5, LeastOf
  <2>7. i \in S /\ Fit(i) = f
    BY <2>4, <2>6
  <2>8. ASSUME NEW j \in S PROVE Fit(i) < Fit(j) \/ (Fit(i) = Fit(j) /\ i <= j)
    <3>1. Fit(j) \in F /\ f <= Fit(j) /\ Fit(j) \in Nat /\ f \in Nat
      BY <1>3, <1>4, <2>1, <2>2, <2>3
    <3>2. CASE Fit(j) = f
      BY <2>4, <2>6, <2>7, <3>2
    <3>3. CASE Fit(j) # f
      BY <2>7, <3>1, <3>3
    <3> QED BY <3>2, <3>3
  <2>9. X!Chosen(i, n, a)
    BY <1>4, <1>5, <1>7, <2>7, <2>8 DEF X!Chosen, Fit
  <2> QED BY <1>1, <1>4, <2>7, <2>9
<1> QED BY <1>6, <1>7

\* A set of numbers below a bound has a largest one, which Max answers.
LEMMA MaxIs ==
  ASSUME NEW T \in SUBSET Nat, T # {}, NEW bound \in Nat, \A t \in T : t <= bound
  PROVE  X!Max(T) \in T /\ \A t \in T : t <= X!Max(T)
<1>1. PICK U : U = {bound - t : t \in T}
  OBVIOUS
<1>2. U \in SUBSET Nat /\ U # {}
  <2>1. \A t \in T : bound - t \in Nat
    OBVIOUS
  <2>2. \A v \in U : v \in Nat
    BY <1>1, <2>1
  <2>3. \E v : v \in U
    BY <1>1
  <2> QED BY <2>2, <2>3
<1>3. PICK u \in U : \A v \in U : u <= v
  BY <1>2, LeastOf
<1>4. PICK t \in T : u = bound - t
  BY <1>1, <1>3
<1>5. ASSUME NEW v \in T PROVE t >= v
  <2>1. bound - v \in U
    BY <1>1
  <2>2. u <= bound - v /\ t \in Nat /\ v \in Nat
    BY <1>3, <2>1
  <2> QED BY <1>4, <2>2
<1>6. \E x \in T : \A y \in T : x >= y
  BY <1>5
<1>7. X!Max(T) \in T /\ \A y \in T : X!Max(T) >= y
  BY <1>6 DEF X!Max
<1>8. \A y \in T : X!Max(T) \in Nat /\ y \in Nat
  BY <1>7
<1> QED BY <1>7, <1>8

\* "Identical in both directions": MEMGetAllocatableSizeForExpHeapEx promises no
\* byte that the next allocation refuses, from either end and in either mode, and
\* hides none that it would grant.
THEOREM ExpAllocatableIsExact == HeapsSpec => []ExpAllocatableExact
<1>1. ASSUME BlocksSound PROVE ExpAllocatableExact
  <2> SUFFICES ASSUME expLive, NEW alignment \in ExpAlignments, NEW size \in ExpRequests \cup 1..expEnd - ExpBase
               PROVE  (\E i \in DOMAIN expBlocks :
                         /\ X!Chosen(i, X!Wanted(size), X!Normalised(alignment))
                         /\ IF alignment < 0
                            THEN X!RoomBottom(expBlocks[i], X!Wanted(size), X!Normalised(alignment))
                            ELSE X!RoomTop(expBlocks[i], X!Wanted(size), X!Normalised(alignment)))
                        <=> X!Wanted(size) <= X!AllocatableSize(alignment)
    BY DEF ExpAllocatableExact, X!AllocatableExact
  <2>1. PICK n, a : n = X!Wanted(size) /\ a = X!Normalised(alignment)
    OBVIOUS
  <2>2. n \in Nat \ {0} /\ a \in Nat \ {0}
    <3>1. size \in Nat /\ alignment \in Int
      BY <1>1, HeapsAssumption DEF BlocksSound
    <3> QED BY <2>1, <3>1, ExpSame, NormalisedPositive, WantedPositive
  <2>3. PICK m : m = Len(expBlocks)
    OBVIOUS
  <2>4. /\ m \in Nat /\ DOMAIN expBlocks = 1..m
        /\ \A i \in 1..m : expBlocks[i] \in ExpBlock
    BY <1>1, <2>3, BlocksTyped
  <2>5. \A i \in 1..m : expBlocks[i].end \in Nat /\ expBlocks[i].end <= expEnd
    <3>1. Tiling(expBlocks, X!DataStart, expEnd) /\ expEnd \in Nat /\ X!DataStart \in Nat
      BY <1>1, ExpDataStart DEF BlocksSound
    <3>2. \A b \in ExpBlock : b.end \in Nat
      BY DEF ExpBlock
    <3> QED BY <2>3, <2>4, <3>1, <3>2, BlocksWithin
  <2>6. \A i \in 1..m :
          /\ X!FitInFree(expBlocks[i], a) \in Nat /\ X!FitInFree(expBlocks[i], a) <= expBlocks[i].end
          /\ X!FitInFree(expBlocks[i], a) >= n <=> X!RoomTop(expBlocks[i], n, a)
          /\ X!FitInFree(expBlocks[i], a) >= n <=> X!RoomBottom(expBlocks[i], n, a)
    BY <2>2, <2>4, FitIsRoom
  <2>7. PICK T : T = {X!FitInFree(expBlocks[i], a) : i \in {j \in 1..m : ~expBlocks[j].used}} \cup {0}
    OBVIOUS
  <2>8. X!AllocatableSize(alignment) = X!Max(T)
    BY <2>1, <2>4, <2>7 DEF X!AllocatableSize
  <2>9. T \in SUBSET Nat /\ T # {} /\ \A t \in T : t <= expEnd
    <3>1. expEnd \in Nat
      BY <1>1 DEF BlocksSound
    <3>2. \A i \in 1..m : X!FitInFree(expBlocks[i], a) \in Nat /\ X!FitInFree(expBlocks[i], a) <= expEnd
      BY <2>5, <2>6, <3>1
    <3> QED BY <2>7, <3>1, <3>2
  <2>10. X!Max(T) \in T /\ \A t \in T : t <= X!Max(T)
    <3>1. expEnd \in Nat
      BY <1>1 DEF BlocksSound
    <3> QED BY <2>9, <3>1, MaxIs
  <2>11. n <= X!Max(T) <=> \E i \in 1..m : X!Serves(i, n, a)
    <3>1. ASSUME n <= X!Max(T) PROVE \E i \in 1..m : X!Serves(i, n, a)
      <4>1. X!Max(T) # 0
        BY <2>2, <3>1
      <4>2. PICK i \in 1..m : ~expBlocks[i].used /\ X!FitInFree(expBlocks[i], a) = X!Max(T)
        BY <2>7, <2>10, <4>1
      <4>3. X!FitInFree(expBlocks[i], a) >= n
        BY <2>2, <2>6, <3>1, <4>2
      <4> QED BY <4>2, <4>3 DEF X!Serves
    <3>2. ASSUME NEW i \in 1..m, X!Serves(i, n, a) PROVE n <= X!Max(T)
      <4>1. ~expBlocks[i].used /\ X!FitInFree(expBlocks[i], a) >= n
        BY <3>2 DEF X!Serves
      <4>2. X!FitInFree(expBlocks[i], a) \in T
        BY <2>7, <4>1
      <4>3. X!FitInFree(expBlocks[i], a) \in Nat /\ X!Max(T) \in Nat
        BY <2>9, <2>10, <4>2
      <4>4. X!FitInFree(expBlocks[i], a) <= X!Max(T)
        BY <2>10, <4>2
      <4> QED BY <2>2, <4>1, <4>3, <4>4
    <3> QED BY <3>1, <3>2
  <2>12. ASSUME NEW i \in 1..m, X!Chosen(i, n, a)
         PROVE  IF alignment < 0 THEN X!RoomBottom(expBlocks[i], n, a) ELSE X!RoomTop(expBlocks[i], n, a)
    <3>1. X!FitInFree(expBlocks[i], a) >= n
      BY <2>12 DEF X!Chosen, X!Serves
    <3> QED BY <2>6, <3>1
  <2>13. (\E i \in 1..m : X!Chosen(i, n, a)) <=> \E i \in 1..m : X!Serves(i, n, a)
    <3>1. \A i \in 1..m : X!Chosen(i, n, a) => X!Serves(i, n, a)
      BY DEF X!Chosen
    <3> QED BY <1>1, <2>2, <2>3, <3>1, SomeChosen
  <2>14. (\E i \in 1..m : /\ X!Chosen(i, n, a)
                          /\ IF alignment < 0 THEN X!RoomBottom(expBlocks[i], n, a)
                             ELSE X!RoomTop(expBlocks[i], n, a))
           <=> n <= X!Max(T)
    BY <2>11, <2>12, <2>13
  <2> QED BY <2>1, <2>4, <2>8, <2>14
<1> QED BY <1>1, BlocksStaySound, PTL
-------------------------------------------------------------------------------
\* The frame heap runs in the composition as it runs alone, so all that is proved
\* of it in FrmHeapProofs holds here: the two heaps share nothing.
THEOREM FrameHeapAlone == HeapsSpec => Spec
<1>1. HeapsInit => Init
  BY DEF HeapsInit
<1>2. [HeapsNext]_<<part, vars, expVars>> => [Next]_vars
  BY DEF HeapsNext, UseFrame, UseExpanded
<1> QED BY <1>1, <1>2, PTL DEF HeapsSpec, Spec
===============================================================================
