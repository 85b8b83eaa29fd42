---------------------- MODULE ExpandableSegments_proof ----------------------
(***************************************************************************)
(* Proofs about ExpandableSegments.  The first part is about one chain of  *)
(* blocks: what splitting, merging and updating a block do to it.  The     *)
(* second part is the inductive invariant, and a lemma for every action.   *)
(***************************************************************************)
EXTENDS ExpandableSegments, FiniteSetTheorems, TLAPS

-----------------------------------------------------------------------------
\* Addresses and pages.

\* The address is the beginning of a page.
Whole(a) == a = PageSize * segmentLeft(a)

LEMMA RangeFacts ==
  /\ PageSize \in Nat /\ PageSize > 0 /\ Pages \in Nat /\ Pages > 0
  /\ RangeSize \in Nat /\ RangeSize > 0
BY SizeAssumption, AddressSpaceAssumption DEF RangeSize

\* The page that an address is in.
LEMMA Left ==
  ASSUME NEW a \in Nat
  PROVE  /\ segmentLeft(a) \in Nat
         /\ PageSize * segmentLeft(a) <= a
         /\ a < PageSize * segmentLeft(a) + PageSize
BY RangeFacts DEF segmentLeft

\* The first page that begins at an address or after it.
LEMMA Right ==
  ASSUME NEW a \in Nat
  PROVE  /\ segmentRight(a) \in Nat
         /\ PageSize * segmentRight(a) >= a
         /\ a > PageSize * segmentRight(a) - PageSize
BY RangeFacts DEF segmentRight

\* Pages are in the order of their addresses.
LEMMA PageOrder ==
  ASSUME NEW j \in Int, NEW k \in Int
  PROVE  /\ PageSize * j < PageSize * k <=> j < k
         /\ PageSize * j < PageSize * k + PageSize <=> j <= k
         /\ PageSize * j = PageSize * k <=> j = k
BY RangeFacts

\* A page is touched if it overlaps the range.
LEMMA TouchedMeaning ==
  ASSUME NEW lo \in Nat, NEW hi \in Nat, NEW k
  PROVE  k \in Touched(lo, hi) <=>
           k \in Nat /\ PageSize * k < hi /\ lo < PageSize * k + PageSize
<1> /\ segmentLeft(lo) \in Nat /\ segmentRight(hi) \in Nat
    /\ PageSize * segmentLeft(lo) <= lo /\ lo < PageSize * segmentLeft(lo) + PageSize
    /\ PageSize * segmentRight(hi) >= hi /\ hi > PageSize * segmentRight(hi) - PageSize
  BY Left, Right
<1>1. ASSUME k \in Touched(lo, hi)
      PROVE  k \in Nat /\ PageSize * k < hi /\ lo < PageSize * k + PageSize
  <2>1. k \in Int /\ segmentLeft(lo) <= k /\ k < segmentRight(hi) /\ k \in Nat
    BY <1>1 DEF Touched
  <2>2. PageSize * segmentLeft(lo) <= PageSize * k
    BY <2>1, PageOrder, RangeFacts
  <2>3. PageSize * k <= PageSize * segmentRight(hi) - PageSize
    BY <2>1, RangeFacts
  <2> QED BY <2>1, <2>2, <2>3, RangeFacts
<1>2. ASSUME k \in Nat, PageSize * k < hi, lo < PageSize * k + PageSize
      PROVE  k \in Touched(lo, hi)
  <2>1. PageSize * segmentLeft(lo) < PageSize * k + PageSize
    BY <1>2, RangeFacts
  <2>2. segmentLeft(lo) <= k
    BY <2>1, <1>2, PageOrder
  <2>3. PageSize * k < PageSize * segmentRight(hi)
    BY <1>2, RangeFacts
  <2>4. k < segmentRight(hi)
    BY <2>3, <1>2, PageOrder
  <2> QED BY <1>2, <2>2, <2>4 DEF Touched
<1> QED BY <1>1, <1>2

\* A page is within the range if it lies in it from end to end.
LEMMA WithinMeaning ==
  ASSUME NEW lo \in Nat, NEW hi \in Nat, NEW k
  PROVE  k \in Within(lo, hi) <=>
           k \in Nat /\ lo <= PageSize * k /\ PageSize * k + PageSize <= hi
<1> /\ segmentLeft(hi) \in Nat /\ segmentRight(lo) \in Nat
    /\ PageSize * segmentLeft(hi) <= hi /\ hi < PageSize * segmentLeft(hi) + PageSize
    /\ PageSize * segmentRight(lo) >= lo /\ lo > PageSize * segmentRight(lo) - PageSize
  BY Left, Right
<1>1. ASSUME k \in Within(lo, hi)
      PROVE  k \in Nat /\ lo <= PageSize * k /\ PageSize * k + PageSize <= hi
  <2>1. k \in Int /\ segmentRight(lo) <= k /\ k < segmentLeft(hi) /\ k \in Nat
    BY <1>1 DEF Within
  <2>2. PageSize * segmentRight(lo) <= PageSize * k
    BY <2>1, PageOrder, RangeFacts
  <2>3. PageSize * k + PageSize <= PageSize * segmentLeft(hi)
    BY <2>1, RangeFacts
  <2> QED BY <2>1, <2>2, <2>3, RangeFacts
<1>2. ASSUME k \in Nat, lo <= PageSize * k, PageSize * k + PageSize <= hi
      PROVE  k \in Within(lo, hi)
  <2>1. PageSize * segmentRight(lo) < PageSize * k + PageSize
    BY <1>2, RangeFacts
  <2>2. segmentRight(lo) <= k
    BY <2>1, <1>2, PageOrder
  <2>3. PageSize * k < PageSize * segmentLeft(hi)
    BY <1>2, RangeFacts
  <2>4. k < segmentLeft(hi)
    BY <2>3, <1>2, PageOrder
  <2> QED BY <1>2, <2>2, <2>4 DEF Within
<1> QED BY <1>1, <1>2

-----------------------------------------------------------------------------
\* Chains of blocks.

BlockType ==
  [size : 1..RangeSize, mapped : BOOLEAN, allocated : BOOLEAN,
   uses : SUBSET Streams, events : SUBSET Streams]

\* What holds of each block: only a mapped block is used, an unmapped one consists of
\* whole pages, and an allocated one has no events.
BlockOK(c, a) ==
  /\ ~c[a].mapped => allocatable(c[a]) /\ Whole(a) /\ Whole(End(c, a))
  /\ c[a].allocated => c[a].events = {}

Chain(c) ==
  /\ c \in [DOMAIN c -> BlockType]
  /\ Tiled(c)
  /\ \A a \in DOMAIN c : BlockOK(c, a)

\* No two neighbours could be merged, but for the block at e.
CoalescedBut(c, e) ==
  \A x, y \in DOMAIN c :
    End(c, x) = y /\ x # e /\ y # e /\ allocatable(c[x]) /\ allocatable(c[y])
      => c[x].mapped # c[y].mapped
Coalesced(c) ==
  \A x, y \in DOMAIN c :
    End(c, x) = y /\ allocatable(c[x]) /\ allocatable(c[y]) => c[x].mapped # c[y].mapped

\* The mapped blocks are those that have pages, of the set m.
BackedBy(c, m) ==
  \A a \in DOMAIN c : \A k \in Touched(a, End(c, a)) : c[a].mapped <=> k \in m

LEMMA ChainFacts ==
  ASSUME NEW c, Chain(c), NEW a \in DOMAIN c
  PROVE  /\ c[a] \in BlockType
         /\ a \in Nat /\ a < RangeSize
         /\ c[a].size \in Nat /\ c[a].size > 0
         /\ End(c, a) \in Nat /\ End(c, a) = a + c[a].size /\ a < End(c, a)
         /\ End(c, a) <= RangeSize
         /\ BlockOK(c, a)
<1>1. c[a] \in BlockType /\ BlockOK(c, a)
  BY DEF Chain
<1>2. a \in 0..RangeSize - 1 /\ c[a].size \in 1..RangeSize - a
  BY DEF Chain, Tiled
<1>3. a \in Nat /\ a < RangeSize /\ c[a].size \in Nat /\ c[a].size > 0
      /\ a + c[a].size <= RangeSize
  BY <1>2, RangeFacts
<1> QED BY <1>1, <1>3 DEF End

\* Two blocks do not overlap.
LEMMA Disjoint ==
  ASSUME NEW c, Chain(c), NEW a \in DOMAIN c, NEW b \in DOMAIN c, a # b
  PROVE  End(c, a) <= b \/ End(c, b) <= a
<1>1. a \in Nat /\ b \in Nat
  BY ChainFacts
<1>2. a < b \/ b < a
  BY <1>1
<1> QED BY <1>2 DEF Chain, Tiled

\* Where a block ends, the next one begins.
LEMMA NextBlock ==
  ASSUME NEW c, Chain(c), NEW a \in DOMAIN c, End(c, a) < RangeSize
  PROVE  End(c, a) \in DOMAIN c
<1>1. a \in Nat /\ End(c, a) \in Nat /\ a < End(c, a)
  BY ChainFacts
<1>2. End(c, a) \in 0..RangeSize - 1
  BY <1>1, RangeFacts
<1>3. PICK b \in DOMAIN c : b <= End(c, a) /\ End(c, a) < End(c, b)
  BY <1>2 DEF Chain, Tiled
<1>4. b \in Nat /\ End(c, b) \in Nat
  BY ChainFacts
<1>5. b # a
  BY <1>3, <1>1
<1>6. End(c, a) <= b \/ End(c, b) <= a
  BY <1>5, Disjoint
<1> QED BY <1>6, <1>3, <1>4, <1>1

\* There is a block at 0.
LEMMA FirstBlock ==
  ASSUME NEW c, Chain(c)
  PROVE  0 \in DOMAIN c
<1>1. 0 \in 0..RangeSize - 1
  BY RangeFacts
<1>2. PICK b \in DOMAIN c : b <= 0 /\ 0 < End(c, b)
  BY <1>1 DEF Chain, Tiled
<1>3. b \in Nat
  BY ChainFacts
<1> QED BY <1>2, <1>3

\* The form in which the following lemmas show that something is a chain.
LEMMA IsChain ==
  ASSUME NEW d, d \in [DOMAIN d -> BlockType],
         \A x \in DOMAIN d :
           /\ x \in Nat /\ End(d, x) <= RangeSize
           /\ BlockOK(d, x),
         \A x, y \in DOMAIN d : x < y => End(d, x) <= y,
         \A u \in Nat : u < RangeSize => \E x \in DOMAIN d : x <= u /\ u < End(d, x)
  PROVE  Chain(d)
<1>1. ASSUME NEW x \in DOMAIN d
      PROVE  x \in 0..RangeSize - 1 /\ d[x].size \in 1..RangeSize - x
  <2>1. d[x].size \in Nat /\ d[x].size > 0
    BY RangeFacts DEF BlockType
  <2>2. x \in Nat /\ x + d[x].size <= RangeSize
    BY DEF End
  <2> QED BY <2>1, <2>2, RangeFacts
<1>2. \A u \in 0..RangeSize - 1 : \E x \in DOMAIN d : x <= u /\ u < End(d, x)
  BY RangeFacts
<1>3. Tiled(d)
  BY <1>1, <1>2 DEF Tiled
<1> QED BY <1>3 DEF Chain

-----------------------------------------------------------------------------
\* Joining two neighbours.

LEMMA JoinValues ==
  ASSUME NEW c, Chain(c), NEW a \in DOMAIN c, NEW n \in DOMAIN c, End(c, a) = n,
         NEW b \in BlockType
  PROVE  /\ DOMAIN Join(c, a, n, b) = DOMAIN c \ {n}
         /\ a \in DOMAIN c \ {n}
         /\ Join(c, a, n, b)[a] \in BlockType
         /\ Join(c, a, n, b)[a].size = c[a].size + c[n].size
         /\ Join(c, a, n, b)[a].mapped = b.mapped
         /\ Join(c, a, n, b)[a].allocated = b.allocated
         /\ Join(c, a, n, b)[a].uses = b.uses
         /\ Join(c, a, n, b)[a].events = b.events
         /\ End(Join(c, a, n, b), a) = End(c, n)
         /\ \A x \in DOMAIN c \ {n} :
              x # a => /\ Join(c, a, n, b)[x] = c[x]
                       /\ End(Join(c, a, n, b), x) = End(c, x)
<1> DEFINE d == Join(c, a, n, b)
<1>1. /\ a \in Nat /\ n \in Nat /\ n = a + c[a].size /\ c[a].size \in Nat /\ c[n].size \in Nat
      /\ c[a].size > 0 /\ n + c[n].size <= RangeSize /\ a # n /\ End(c, n) = n + c[n].size
  BY ChainFacts
<1>2. DOMAIN d = DOMAIN c \ {n}
  BY DEF Join
<1>3. a \in DOMAIN c \ {n}
  BY <1>1
<1>4. d[a] = [b EXCEPT !.size = c[a].size + c[n].size]
  BY <1>3 DEF Join
<1>5. c[a].size + c[n].size \in 1..RangeSize
  BY <1>1, RangeFacts
<1>6. /\ d[a] \in BlockType /\ d[a].size = c[a].size + c[n].size
      /\ d[a].mapped = b.mapped /\ d[a].allocated = b.allocated
      /\ d[a].uses = b.uses /\ d[a].events = b.events
  BY <1>4, <1>5 DEF BlockType
<1>7. End(d, a) = End(c, n)
  BY <1>6, <1>1 DEF End
<1>8. \A x \in DOMAIN c \ {n} : x # a => d[x] = c[x] /\ End(d, x) = End(c, x)
  BY DEF Join, End
<1> QED BY <1>2, <1>3, <1>6, <1>7, <1>8

LEMMA JoinChain ==
  ASSUME NEW c, Chain(c), NEW a \in DOMAIN c, NEW n \in DOMAIN c, End(c, a) = n,
         NEW b \in BlockType, c[a].mapped = b.mapped, c[n].mapped = b.mapped,
         allocatable(b)
  PROVE  Chain(Join(c, a, n, b))
<1> DEFINE d == Join(c, a, n, b)
<1>1. /\ DOMAIN d = DOMAIN c \ {n} /\ a \in DOMAIN d
      /\ d[a] \in BlockType /\ d[a].mapped = b.mapped /\ allocatable(d[a])
      /\ End(d, a) = End(c, n)
      /\ \A x \in DOMAIN d : x # a => d[x] = c[x] /\ End(d, x) = End(c, x)
  BY JoinValues DEF allocatable
<1>2. d = [x \in DOMAIN d |-> d[x]]
  BY DEF Join
<1> HIDE DEF d
<1>3. \A x \in DOMAIN d : x \in DOMAIN c /\ x \in Nat
  BY <1>1, ChainFacts
<1>4. /\ a \in Nat /\ n \in Nat /\ a < n /\ n < End(c, n) /\ End(c, n) <= RangeSize
      /\ End(c, n) \in Nat
  BY ChainFacts
<1>5. \A x \in DOMAIN d : d[x] \in BlockType
  BY <1>1, <1>3, ChainFacts
<1>6. ASSUME NEW x \in DOMAIN d
      PROVE  x \in Nat /\ End(d, x) <= RangeSize /\ BlockOK(d, x)
  <2>1. CASE x = a
    <3>1. BlockOK(c, a) /\ BlockOK(c, n)
      BY ChainFacts
    <3> QED BY <2>1, <3>1, <1>1, <1>4 DEF BlockOK, allocatable
  <2>2. CASE x # a
    <3>1. BlockOK(c, x) /\ End(c, x) <= RangeSize
      BY <1>3, ChainFacts
    <3> QED BY <2>2, <3>1, <1>1, <1>3 DEF BlockOK
  <2> QED BY <2>1, <2>2
<1>7. ASSUME NEW x \in DOMAIN d, NEW y \in DOMAIN d, x < y
      PROVE  End(d, x) <= y
  <2>1. x \in Nat /\ y \in Nat /\ x \in DOMAIN c /\ y \in DOMAIN c /\ y # n /\ x # n
    BY <1>3, <1>1
  <2>2. CASE x = a
    <3>1. End(c, a) <= y
      BY <2>1, <2>2, <1>7 DEF Chain, Tiled
    <3>2. n < y
      BY <3>1, <2>1, <1>4
    <3>3. End(c, n) <= y
      BY <3>2, <2>1 DEF Chain, Tiled
    <3> QED BY <3>3, <2>2, <1>1
  <2>3. CASE x # a
    <3>1. End(c, x) <= y
      BY <2>1, <1>7 DEF Chain, Tiled
    <3> QED BY <3>1, <2>3, <1>1
  <2> QED BY <2>2, <2>3
<1>8. ASSUME NEW u \in Nat, u < RangeSize
      PROVE  \E x \in DOMAIN d : x <= u /\ u < End(d, x)
  <2>1. u \in 0..RangeSize - 1
    BY <1>8, RangeFacts
  <2>2. PICK x \in DOMAIN c : x <= u /\ u < End(c, x)
    BY <2>1 DEF Chain, Tiled
  <2>3. CASE x = n
    BY <2>2, <2>3, <1>1, <1>4
  <2>4. CASE x = a
    BY <2>2, <2>4, <1>1, <1>4
  <2>5. CASE x # n /\ x # a
    BY <2>2, <2>5, <1>1
  <2> QED BY <2>3, <2>4, <2>5
<1>9. d \in [DOMAIN d -> BlockType]
  BY <1>2, <1>5
<1>10. Chain(d)
  BY <1>6, <1>7, <1>8, <1>9, IsChain
<1> QED BY <1>10 DEF d

\* The pages of the joined block are those of its parts.
LEMMA JoinBacked ==
  ASSUME NEW c, Chain(c), NEW a \in DOMAIN c, NEW n \in DOMAIN c, End(c, a) = n,
         NEW b \in BlockType, c[a].mapped = b.mapped, c[n].mapped = b.mapped,
         NEW m, BackedBy(c, m)
  PROVE  BackedBy(Join(c, a, n, b), m)
<1> DEFINE d == Join(c, a, n, b)
<1>1. /\ DOMAIN d = DOMAIN c \ {n}
      /\ d[a].mapped = b.mapped
      /\ End(d, a) = End(c, n)
      /\ \A x \in DOMAIN d : x # a => d[x] = c[x] /\ End(d, x) = End(c, x)
  BY JoinValues DEF BackedBy
<1> HIDE DEF d
<1>2. /\ a \in Nat /\ n \in Nat /\ End(c, n) \in Nat /\ End(c, a) \in Nat
  BY ChainFacts
<1>3. ASSUME NEW x \in DOMAIN d, NEW k \in Touched(x, End(d, x))
      PROVE  d[x].mapped <=> k \in m
  <2>1. CASE x = a
    <3>1. k \in Nat /\ PageSize * k < End(c, n) /\ a < PageSize * k + PageSize
      BY <1>1, <1>2, <1>3, <2>1, TouchedMeaning
    <3>2. CASE PageSize * k < n
      <4>1. k \in Touched(a, End(c, a))
        BY <3>1, <3>2, <1>2, TouchedMeaning
      <4> QED BY <4>1, <1>1, <2>1 DEF BackedBy
    <3>3. CASE ~(PageSize * k < n)
      <4>1. n < PageSize * k + PageSize
        BY <3>1, <3>3, <1>2, RangeFacts
      <4>2. k \in Touched(n, End(c, n))
        BY <3>1, <4>1, <1>2, TouchedMeaning
      <4> QED BY <4>2, <1>1, <2>1 DEF BackedBy
    <3> QED BY <3>2, <3>3
  <2>2. CASE x # a
    BY <1>1, <1>3, <2>2 DEF BackedBy
  <2> QED BY <2>1, <2>2
<1>4. BackedBy(d, m)
  BY <1>3 DEF BackedBy
<1> QED BY <1>4 DEF d

-----------------------------------------------------------------------------
\* Splitting a block.
\* There are two parts.
Inside(c, a, n) == n \in 1..c[a].size - 1

\* The chain c is d, but for the block at a, which has two parts in d.
SplitInto(c, a, n, d) ==
  /\ a + n \in Nat /\ a + n \notin DOMAIN c /\ a < a + n
  /\ DOMAIN d = DOMAIN c \cup {a + n}
  /\ d[a] \in BlockType /\ d[a].size = n /\ End(d, a) = a + n
  /\ d[a].mapped = c[a].mapped /\ d[a].allocated = c[a].allocated
  /\ d[a].uses = c[a].uses /\ d[a].events = c[a].events
  /\ d[a + n] \in BlockType /\ d[a + n].size = c[a].size - n /\ End(d, a + n) = End(c, a)
  /\ d[a + n].mapped = c[a].mapped /\ d[a + n].allocated = c[a].allocated
  /\ d[a + n].uses = c[a].uses /\ d[a + n].events = c[a].events
  /\ \A x \in DOMAIN c : x # a => d[x] = c[x] /\ End(d, x) = End(c, x)

LEMMA SplitValues ==
  ASSUME NEW c, Chain(c), NEW a \in DOMAIN c, NEW n \in Int, Inside(c, a, n)
  PROVE  SplitInto(c, a, n, Split(c, a, n))
<1> DEFINE d == Split(c, a, n)
           h == a + n
<1>1. /\ a \in Nat /\ n \in Nat /\ n > 0 /\ n < c[a].size /\ c[a].size \in Nat
      /\ a + c[a].size <= RangeSize /\ c[a] \in BlockType /\ End(c, a) = a + c[a].size
  BY ChainFacts DEF Inside
<1>2. h \in Nat /\ a < h /\ h < End(c, a)
  BY <1>1
<1>3. h \notin DOMAIN c
  <2>1. SUFFICES ASSUME h \in DOMAIN c PROVE FALSE
    OBVIOUS
  <2>2. End(c, a) <= h
    BY <2>1, <1>2 DEF Chain, Tiled
  <2> QED BY <2>2, <1>1, <1>2
<1>4. d = [x \in DOMAIN c \cup {h} |->
             IF x = a THEN [c[a] EXCEPT !.size = n]
             ELSE IF x = h THEN [c[a] EXCEPT !.size = c[a].size - n] ELSE c[x]]
  BY DEF Split, Inside
<1> HIDE DEF d
<1>5. d[a] = [c[a] EXCEPT !.size = n]
  BY <1>4
<1>6. d[h] = [c[a] EXCEPT !.size = c[a].size - n]
  BY <1>4, <1>2, <1>1
<1>7. n \in 1..RangeSize /\ c[a].size - n \in 1..RangeSize
  BY <1>1, RangeFacts
<1>8. /\ d[a] \in BlockType /\ d[a].size = n /\ d[a].mapped = c[a].mapped
      /\ d[a].allocated = c[a].allocated /\ d[a].uses = c[a].uses /\ d[a].events = c[a].events
  BY <1>5, <1>7, <1>1 DEF BlockType
<1>9. /\ d[h] \in BlockType /\ d[h].size = c[a].size - n /\ d[h].mapped = c[a].mapped
      /\ d[h].allocated = c[a].allocated /\ d[h].uses = c[a].uses /\ d[h].events = c[a].events
  BY <1>6, <1>7, <1>1 DEF BlockType
<1>10. End(d, a) = h /\ End(d, h) = End(c, a)
  BY <1>8, <1>9, <1>1 DEF End
<1>11. \A x \in DOMAIN c : x # a => d[x] = c[x] /\ End(d, x) = End(c, x)
  BY <1>3, <1>4 DEF End
<1>12. DOMAIN d = DOMAIN c \cup {h}
  BY <1>4
<1> QED BY <1>2, <1>3, <1>8, <1>9, <1>10, <1>11, <1>12 DEF d, SplitInto

LEMMA SplitChain ==
  ASSUME NEW c, Chain(c), NEW a \in DOMAIN c, NEW n \in Int
  PROVE  (~c[a].mapped /\ Inside(c, a, n) => Whole(a + n))
           => Chain(Split(c, a, n)) /\ a \in DOMAIN Split(c, a, n)
<1>1. CASE ~Inside(c, a, n)
  BY <1>1 DEF Split, Inside
<1>2. CASE Inside(c, a, n)
  <2>0. SplitInto(c, a, n, Split(c, a, n))
    BY <1>2, SplitValues
  <2> DEFINE d == Split(c, a, n)
             h == a + n
  <2>1. /\ h \in Nat /\ h \notin DOMAIN c /\ a < h
        /\ DOMAIN d = DOMAIN c \cup {h}
        /\ d[a] \in BlockType /\ d[a].size = n /\ End(d, a) = h
        /\ d[a].mapped = c[a].mapped /\ d[a].allocated = c[a].allocated
        /\ d[a].uses = c[a].uses /\ d[a].events = c[a].events
        /\ d[h] \in BlockType /\ End(d, h) = End(c, a)
        /\ d[h].mapped = c[a].mapped /\ d[h].allocated = c[a].allocated
        /\ d[h].uses = c[a].uses /\ d[h].events = c[a].events
        /\ \A x \in DOMAIN c : x # a => d[x] = c[x] /\ End(d, x) = End(c, x)
    BY <2>0 DEF SplitInto
  <2>2. d = [x \in DOMAIN d |-> d[x]]
    BY <1>2 DEF Split, Inside
  <2>3. /\ a \in Nat /\ n \in Nat /\ n > 0 /\ h < End(c, a) /\ End(c, a) \in Nat
        /\ End(c, a) <= RangeSize /\ BlockOK(c, a)
    BY <1>2, ChainFacts DEF Inside
  <2> SUFFICES ASSUME ~c[a].mapped => Whole(h) PROVE Chain(d) /\ a \in DOMAIN d
    BY <1>2
  <2>4. ~c[a].mapped => Whole(h)
    OBVIOUS
  <2> HIDE DEF d, h
  <2>5. \A x \in DOMAIN d : d[x] \in BlockType
    BY <2>1, ChainFacts
  <2>6. ASSUME NEW x \in DOMAIN d
        PROVE  x \in Nat /\ End(d, x) <= RangeSize /\ BlockOK(d, x)
    <3>1. CASE x = a
      BY <3>1, <2>1, <2>3, <2>4, RangeFacts DEF BlockOK, allocatable
    <3>2. CASE x = h
      BY <3>2, <2>1, <2>3, <2>4 DEF BlockOK, allocatable
    <3>3. CASE x # a /\ x # h
      <4>1. x \in DOMAIN c /\ d[x] = c[x] /\ End(d, x) = End(c, x)
        BY <3>3, <2>1
      <4>2. x \in Nat /\ End(c, x) <= RangeSize /\ BlockOK(c, x)
        BY <4>1, ChainFacts
      <4> QED BY <4>1, <4>2 DEF BlockOK
    <3> QED BY <3>1, <3>2, <3>3
  <2>7. ASSUME NEW x \in DOMAIN d, NEW y \in DOMAIN d, x < y
        PROVE  End(d, x) <= y
    <3>1. x \in Nat /\ y \in Nat
      BY <2>6
    <3>2. CASE x = a /\ y = h
      BY <3>2, <2>1
    <3>3. CASE x = h /\ y = a
      BY <3>3, <2>1, <2>7, <2>3
    <3>4. CASE x \in {a, h} /\ y \notin {a, h}
      <4>1. y \in DOMAIN c /\ a < y
        BY <3>4, <2>1, <2>7, <2>3, <3>1
      <4>2. End(c, a) <= y
        BY <4>1 DEF Chain, Tiled
      <4> QED BY <3>4, <4>2, <2>1, <2>3, <3>1
    <3>5. CASE x \notin {a, h} /\ y \in {a, h}
      <4>1. x \in DOMAIN c /\ x # a
        BY <3>5, <2>1
      <4>2. End(c, x) <= a \/ End(c, a) <= x
        BY <4>1, Disjoint
      <4>3. End(c, x) \in Nat
        BY <4>1, ChainFacts
      <4>4. ~(End(c, a) <= x)
        BY <3>1, <2>1, <2>3, <2>7, <3>5
      <4> QED BY <4>1, <4>2, <4>3, <4>4, <2>1, <2>3, <3>1, <3>5
    <3>6. CASE x \notin {a, h} /\ y \notin {a, h}
      <4>1. x \in DOMAIN c /\ y \in DOMAIN c /\ End(d, x) = End(c, x)
        BY <3>6, <2>1
      <4> QED BY <4>1, <2>7 DEF Chain, Tiled
    <3>7. x # y
      BY <2>7, <3>1
    <3> QED BY <3>2, <3>3, <3>4, <3>5, <3>6, <3>7
  <2>8. ASSUME NEW u \in Nat, u < RangeSize
        PROVE  \E x \in DOMAIN d : x <= u /\ u < End(d, x)
    <3>1. u \in 0..RangeSize - 1
      BY <2>8, RangeFacts
    <3>2. PICK x \in DOMAIN c : x <= u /\ u < End(c, x)
      BY <3>1 DEF Chain, Tiled
    <3>3. CASE x # a
      BY <3>2, <3>3, <2>1
    <3>4. CASE x = a /\ u < h
      BY <3>2, <3>4, <2>1
    <3>5. CASE x = a /\ ~(u < h)
      BY <3>2, <3>5, <2>1, <2>3
    <3> QED BY <3>3, <3>4, <3>5
  <2>9. d \in [DOMAIN d -> BlockType]
    BY <2>2, <2>5
  <2>10. Chain(d)
    BY <2>6, <2>7, <2>8, <2>9, IsChain
  <2> QED BY <2>10, <2>1
<1> QED BY <1>1, <1>2

\* The pages of the parts are pages of the block.
LEMMA SplitBacked ==
  ASSUME NEW c, Chain(c), NEW a \in DOMAIN c, NEW n \in Int, NEW m, BackedBy(c, m)
  PROVE  BackedBy(Split(c, a, n), m)
<1>1. CASE ~Inside(c, a, n)
  BY <1>1 DEF Split, Inside
<1>2. CASE Inside(c, a, n)
  <2>0. SplitInto(c, a, n, Split(c, a, n))
    BY <1>2, SplitValues
  <2> DEFINE d == Split(c, a, n)
             h == a + n
  <2>1. /\ h \in Nat /\ a < h
        /\ DOMAIN d = DOMAIN c \cup {h}
        /\ End(d, a) = h /\ d[a].mapped = c[a].mapped
        /\ End(d, h) = End(c, a) /\ d[h].mapped = c[a].mapped
        /\ \A x \in DOMAIN c : x # a => d[x] = c[x] /\ End(d, x) = End(c, x)
    BY <2>0 DEF SplitInto
  <2>2. a \in Nat /\ h < End(c, a) /\ End(c, a) \in Nat
    BY <1>2, ChainFacts DEF Inside
  <2> HIDE DEF d, h
  <2>3. ASSUME NEW x \in DOMAIN d, NEW k \in Touched(x, End(d, x))
        PROVE  d[x].mapped <=> k \in m
    <3>1. CASE x \in {a, h}
      <4>1. k \in Nat /\ PageSize * k < End(d, x) /\ x < PageSize * k + PageSize
        BY <2>1, <2>2, <2>3, <3>1, TouchedMeaning
      <4>2. PageSize * k < End(c, a) /\ a < PageSize * k + PageSize
        BY <4>1, <3>1, <2>1, <2>2, RangeFacts
      <4>3. k \in Touched(a, End(c, a))
        BY <4>1, <4>2, <2>2, TouchedMeaning
      <4> QED BY <4>3, <3>1, <2>1 DEF BackedBy
    <3>2. CASE x \notin {a, h}
      BY <3>2, <2>1, <2>3 DEF BackedBy
    <3> QED BY <3>1, <3>2
  <2>4. BackedBy(d, m)
    BY <2>3 DEF BackedBy
  <2> QED BY <2>4 DEF d
<1> QED BY <1>1, <1>2

-----------------------------------------------------------------------------
\* Updating a block.

LEMMA PutValues ==
  ASSUME NEW c, Chain(c), NEW a \in DOMAIN c, NEW b \in BlockType, b.size = c[a].size
  PROVE  /\ DOMAIN [c EXCEPT ![a] = b] = DOMAIN c
         /\ [c EXCEPT ![a] = b][a] = b
         /\ \A x \in DOMAIN c : x # a => [c EXCEPT ![a] = b][x] = c[x]
         /\ \A x \in DOMAIN c : End([c EXCEPT ![a] = b], x) = End(c, x)
         /\ [c EXCEPT ![a] = b] \in [DOMAIN c -> BlockType]
<1>1. c \in [DOMAIN c -> BlockType]
  BY DEF Chain
<1> QED BY <1>1 DEF End

LEMMA PutChain ==
  ASSUME NEW c, Chain(c), NEW a \in DOMAIN c, NEW b \in BlockType, b.size = c[a].size
  PROVE  /\ ~b.mapped => allocatable(b) /\ Whole(a) /\ Whole(End(c, a))
         /\ b.allocated => b.events = {}
         => Chain([c EXCEPT ![a] = b])
<1> DEFINE d == [c EXCEPT ![a] = b]
<1>1. /\ DOMAIN d = DOMAIN c /\ d[a] = b
      /\ \A x \in DOMAIN c : x # a => d[x] = c[x]
      /\ \A x \in DOMAIN c : End(d, x) = End(c, x)
      /\ d \in [DOMAIN c -> BlockType]
  BY PutValues
<1> HIDE DEF d
<1> SUFFICES ASSUME ~b.mapped => allocatable(b) /\ Whole(a) /\ Whole(End(c, a)),
                    b.allocated => b.events = {}
             PROVE  Chain(d)
  BY DEF d
<1>2. \A x \in DOMAIN c : x \in Nat /\ End(c, x) <= RangeSize /\ BlockOK(c, x)
  BY ChainFacts
<1>3. \A x \in DOMAIN d : BlockOK(d, x)
  <2>1. BlockOK(d, a)
    BY <1>1 DEF BlockOK
  <2>2. ASSUME NEW x \in DOMAIN d, x # a PROVE BlockOK(d, x)
    BY <1>1, <1>2, <2>2 DEF BlockOK
  <2> QED BY <2>1, <2>2
<1>4. \A x, y \in DOMAIN d : x < y => End(d, x) <= y
  BY <1>1 DEF Chain, Tiled
<1>5. \A u \in Nat : u < RangeSize => \E x \in DOMAIN d : x <= u /\ u < End(d, x)
  <2>1. \A u \in Nat : u < RangeSize => u \in 0..RangeSize - 1
    BY RangeFacts
  <2> QED BY <2>1, <1>1 DEF Chain, Tiled
<1> QED BY <1>1, <1>2, <1>3, <1>4, <1>5, IsChain

\* The pages of a range that begins and ends with a page.
LEMMA WholePages ==
  ASSUME NEW lo \in Nat, NEW hi \in Nat, Whole(lo), Whole(hi)
  PROVE  Touched(lo, hi) = Within(lo, hi)
<1> DEFINE i == segmentLeft(lo)
           j == segmentLeft(hi)
<1>1. i \in Nat /\ j \in Nat /\ lo = PageSize * i /\ hi = PageSize * j
  BY Left DEF Whole
<1> HIDE DEF i, j
<1>2. ASSUME NEW k \in Nat
      PROVE  k \in Touched(lo, hi) <=> k \in Within(lo, hi)
  <2>1. k \in Touched(lo, hi) <=> PageSize * k < PageSize * j /\ PageSize * i < PageSize * k + PageSize
    BY <1>1, TouchedMeaning
  <2>2. k \in Touched(lo, hi) <=> k < j /\ i <= k
    BY <2>1, <1>1, PageOrder
  <2>3. k \in Within(lo, hi) <=> PageSize * i <= PageSize * k /\ PageSize * k + PageSize <= PageSize * j
    BY <1>1, WithinMeaning
  <2>4. PageSize * i <= PageSize * k <=> i <= k
    BY <1>1, PageOrder, RangeFacts
  <2>5. PageSize * k + PageSize = PageSize * (k + 1) /\ k + 1 \in Nat
    BY RangeFacts
  <2>6. PageSize * (k + 1) <= PageSize * j <=> k + 1 <= j
    BY <2>5, <1>1, PageOrder, RangeFacts
  <2> QED BY <2>2, <2>3, <2>4, <2>5, <2>6, <1>1
<1>3. \A k \in Touched(lo, hi) : k \in Nat
  BY TouchedMeaning
<1>4. \A k \in Within(lo, hi) : k \in Nat
  BY WithinMeaning
<1> QED BY <1>2, <1>3, <1>4

\* A page within a block is no other block's.
LEMMA OtherPages ==
  ASSUME NEW c, Chain(c), NEW a \in DOMAIN c, NEW x \in DOMAIN c, x # a,
         NEW k \in Within(a, End(c, a))
  PROVE  k \notin Touched(x, End(c, x))
<1>1. a \in Nat /\ x \in Nat /\ End(c, a) \in Nat /\ End(c, x) \in Nat
  BY ChainFacts
<1>2. k \in Nat /\ a <= PageSize * k /\ PageSize * k + PageSize <= End(c, a)
  BY <1>1, WithinMeaning
<1>3. End(c, a) <= x \/ End(c, x) <= a
  BY Disjoint
<1>4. SUFFICES ASSUME PageSize * k < End(c, x), x < PageSize * k + PageSize
               PROVE  FALSE
  BY <1>1, TouchedMeaning
<1> QED BY <1>1, <1>2, <1>3, <1>4, RangeFacts

\* The block stays as mapped as it is.
LEMMA PutBacked ==
  ASSUME NEW c, Chain(c), NEW a \in DOMAIN c, NEW b \in BlockType, b.size = c[a].size,
         NEW m
  PROVE  b.mapped = c[a].mapped /\ BackedBy(c, m) => BackedBy([c EXCEPT ![a] = b], m)
<1> DEFINE d == [c EXCEPT ![a] = b]
<1>1. /\ DOMAIN d = DOMAIN c /\ d[a] = b
      /\ \A x \in DOMAIN c : x # a => d[x] = c[x]
      /\ \A x \in DOMAIN c : End(d, x) = End(c, x)
  BY PutValues
<1> HIDE DEF d
<1> SUFFICES ASSUME b.mapped = c[a].mapped, BackedBy(c, m) PROVE BackedBy(d, m)
  BY DEF d
<1>2. ASSUME NEW x \in DOMAIN d, NEW k \in Touched(x, End(d, x))
      PROVE  d[x].mapped <=> k \in m
  <2>1. k \in Touched(x, End(c, x)) /\ x \in DOMAIN c
    BY <1>1, <1>2
  <2>2. c[x].mapped <=> k \in m
    BY <2>1 DEF BackedBy
  <2> QED BY <2>1, <2>2, <1>1
<1> QED BY <1>2 DEF BackedBy

\* A block of whole pages is mapped.
LEMMA PutMapped ==
  ASSUME NEW c, Chain(c), NEW a \in DOMAIN c, Whole(a), Whole(End(c, a)),
         NEW b \in BlockType, b.size = c[a].size, NEW m
  PROVE  b.mapped /\ BackedBy(c, m)
           => BackedBy([c EXCEPT ![a] = b], m \cup Touched(a, End(c, a)))
<1> DEFINE d == [c EXCEPT ![a] = b]
<1>1. /\ DOMAIN d = DOMAIN c /\ d[a] = b
      /\ \A x \in DOMAIN c : x # a => d[x] = c[x]
      /\ \A x \in DOMAIN c : End(d, x) = End(c, x)
  BY PutValues
<1> HIDE DEF d
<1> SUFFICES ASSUME b.mapped, BackedBy(c, m)
             PROVE  BackedBy(d, m \cup Touched(a, End(c, a)))
  BY DEF d
<1>2. Touched(a, End(c, a)) = Within(a, End(c, a))
  BY ChainFacts, WholePages
<1>3. ASSUME NEW x \in DOMAIN d, NEW k \in Touched(x, End(d, x))
      PROVE  d[x].mapped <=> k \in m \cup Touched(a, End(c, a))
  <2>1. CASE x = a
    BY <2>1, <1>1, <1>3
  <2>2. CASE x # a
    <3>1. k \in Touched(x, End(c, x)) /\ x \in DOMAIN c /\ d[x] = c[x]
      BY <1>1, <1>3, <2>2
    <3>2. k \notin Within(a, End(c, a))
      BY <3>1, <2>2, OtherPages
    <3>3. c[x].mapped <=> k \in m
      BY <3>1 DEF BackedBy
    <3> QED BY <3>1, <3>2, <3>3, <1>2
  <2> QED BY <2>1, <2>2
<1> QED BY <1>3 DEF BackedBy

\* A block of whole pages is unmapped.
LEMMA PutUnmapped ==
  ASSUME NEW c, Chain(c), NEW a \in DOMAIN c, Whole(a), Whole(End(c, a)),
         NEW b \in BlockType, b.size = c[a].size, NEW m
  PROVE  ~b.mapped /\ BackedBy(c, m)
           => BackedBy([c EXCEPT ![a] = b], m \ Within(a, End(c, a)))
<1> DEFINE d == [c EXCEPT ![a] = b]
<1>1. /\ DOMAIN d = DOMAIN c /\ d[a] = b
      /\ \A x \in DOMAIN c : x # a => d[x] = c[x]
      /\ \A x \in DOMAIN c : End(d, x) = End(c, x)
  BY PutValues
<1> HIDE DEF d
<1> SUFFICES ASSUME ~b.mapped, BackedBy(c, m)
             PROVE  BackedBy(d, m \ Within(a, End(c, a)))
  BY DEF d
<1>2. Touched(a, End(c, a)) = Within(a, End(c, a))
  BY ChainFacts, WholePages
<1>3. ASSUME NEW x \in DOMAIN d, NEW k \in Touched(x, End(d, x))
      PROVE  d[x].mapped <=> k \in m \ Within(a, End(c, a))
  <2>1. CASE x = a
    BY <2>1, <1>1, <1>2, <1>3
  <2>2. CASE x # a
    <3>1. k \in Touched(x, End(c, x)) /\ x \in DOMAIN c /\ d[x] = c[x]
      BY <1>1, <1>3, <2>2
    <3>2. k \notin Within(a, End(c, a))
      BY <3>1, <2>2, OtherPages
    <3>3. c[x].mapped <=> k \in m
      BY <3>1 DEF BackedBy
    <3> QED BY <3>1, <3>2, <3>3
  <2> QED BY <2>1, <2>2
<1> QED BY <1>3 DEF BackedBy

-----------------------------------------------------------------------------
\* Merging a cached block with its neighbours.

\* Where the merged block begins.
LEMMA MergedAtValues ==
  ASSUME NEW c, Chain(c), NEW a \in DOMAIN c
  PROVE  /\ MergesPrev(c, a) = {} => MergedAt(c, a) = a
         /\ MergesPrev(c, a) # {} =>
              /\ MergedAt(c, a) \in DOMAIN c /\ End(c, MergedAt(c, a)) = a
              /\ MergedAt(c, a) < a
              /\ allocatable(c[MergedAt(c, a)])
              /\ c[MergedAt(c, a)].mapped = c[a].mapped
<1>1. MergesPrev(c, a) = {} => MergedAt(c, a) = a
  BY DEF MergedAt
<1>2. ASSUME MergesPrev(c, a) # {}
      PROVE  /\ MergedAt(c, a) \in DOMAIN c /\ End(c, MergedAt(c, a)) = a
             /\ MergedAt(c, a) < a
             /\ allocatable(c[MergedAt(c, a)])
             /\ c[MergedAt(c, a)].mapped = c[a].mapped
  <2>1. MergedAt(c, a) \in MergesPrev(c, a)
    BY <1>2 DEF MergedAt
  <2>2. /\ MergedAt(c, a) \in DOMAIN c /\ End(c, MergedAt(c, a)) = a
        /\ allocatable(c[MergedAt(c, a)])
        /\ c[MergedAt(c, a)].mapped = c[a].mapped
    BY <2>1 DEF MergesPrev, Merges
  <2> QED BY <2>2, ChainFacts
<1> QED BY <1>1, <1>2

LEMMA MergePrev ==
  ASSUME NEW c, Chain(c), NEW a \in DOMAIN c, allocatable(c[a])
  PROVE  LET d == try_merge_prev(c, a)
             p == MergedAt(c, a)
         IN  /\ Chain(d) /\ p \in DOMAIN d /\ p <= a /\ p \in DOMAIN c
             /\ p # a => End(c, p) = a /\ allocatable(c[p])
             /\ allocatable(d[p]) /\ d[p].mapped = c[a].mapped /\ End(d, p) = End(c, a)
             /\ \A x \in DOMAIN d : x # p => x \in DOMAIN c /\ x # a /\ d[x] = c[x]
             /\ \A x \in DOMAIN c : x # a => x \in DOMAIN d
             /\ \A m : BackedBy(c, m) => BackedBy(d, m)
             /\ CoalescedBut(c, a) =>
                  \A x \in DOMAIN d : End(d, x) = p /\ allocatable(d[x])
                                        => d[x].mapped # d[p].mapped
<1> DEFINE d == try_merge_prev(c, a)
           p == MergedAt(c, a)
<1>0. a \in Nat
  BY ChainFacts
<1>1. CASE MergesPrev(c, a) = {}
  <2>1. d = c /\ p = a
    BY <1>1, MergedAtValues DEF try_merge_prev
  <2>2. ASSUME NEW x \in DOMAIN c, End(c, x) = a, allocatable(c[x])
        PROVE  c[x].mapped # c[a].mapped
    BY <1>1, <2>2 DEF MergesPrev, Merges
  <2> QED BY <2>1, <2>2, <1>0
<1>2. CASE MergesPrev(c, a) # {}
  <2> HIDE DEF p
  <2>1. /\ p \in DOMAIN c /\ End(c, p) = a /\ p < a /\ allocatable(c[p])
        /\ c[p].mapped = c[a].mapped /\ p \in Nat
    BY <1>2, MergedAtValues, ChainFacts DEF p
  <2>2. d = Join(c, p, a, c[a])
    BY <1>2 DEF try_merge_prev, p
  <2> HIDE DEF d
  <2>3. c[a] \in BlockType
    BY ChainFacts
  <2>4. Chain(d)
    BY <2>1, <2>2, <2>3, JoinChain
  <2>5. /\ DOMAIN d = DOMAIN c \ {a} /\ p \in DOMAIN d
        /\ d[p].mapped = c[a].mapped /\ allocatable(d[p])
        /\ End(d, p) = End(c, a)
        /\ \A x \in DOMAIN d : x # p => d[x] = c[x] /\ End(d, x) = End(c, x)
    BY <2>1, <2>2, <2>3, JoinValues DEF allocatable
  <2>6. \A m : BackedBy(c, m) => BackedBy(d, m)
    BY <2>1, <2>2, <2>3, JoinBacked
  <2>7. ASSUME CoalescedBut(c, a), NEW x \in DOMAIN d, End(d, x) = p, allocatable(d[x])
        PROVE  d[x].mapped # d[p].mapped
    <3>1. x # p
      BY <2>4, <2>7, ChainFacts
    <3>2. x \in DOMAIN c /\ x # a /\ End(c, x) = p /\ d[x] = c[x]
      BY <2>5, <2>7, <3>1
    <3>3. c[x].mapped # c[p].mapped
      BY <3>2, <2>7, <2>1 DEF CoalescedBut
    <3> QED BY <3>2, <3>3, <2>5, <2>1
  <2>8. p <= a /\ \A x \in DOMAIN d : x # p => x \in DOMAIN c /\ x # a /\ d[x] = c[x]
    BY <2>1, <2>5, <1>0
  <2>9. \A x \in DOMAIN c : x # a => x \in DOMAIN d
    BY <2>5
  <2>10. CoalescedBut(c, a) =>
           \A x \in DOMAIN d : End(d, x) = p /\ allocatable(d[x]) => d[x].mapped # d[p].mapped
    BY <2>7
  <2> QED BY <2>1, <2>4, <2>5, <2>6, <2>8, <2>9, <2>10 DEF d, p
<1> QED BY <1>1, <1>2

LEMMA MergeNext ==
  ASSUME NEW c, Chain(c), NEW a \in DOMAIN c, allocatable(c[a])
  PROVE  LET d == try_merge_next(c, a)
         IN  /\ Chain(d) /\ a \in DOMAIN d
             /\ allocatable(d[a]) /\ d[a].mapped = c[a].mapped
             /\ End(d, a) \in Nat /\ End(c, a) <= End(d, a)
             /\ \A x \in DOMAIN d : x # a => x \in DOMAIN c /\ d[x] = c[x]
             /\ \A x \in DOMAIN c : x \in DOMAIN d \/ (allocatable(c[x]) /\ x # a)
             /\ \A m : BackedBy(c, m) => BackedBy(d, m)
             /\ CoalescedBut(c, a) /\ (\A x \in DOMAIN c : End(c, x) = a /\ allocatable(c[x])
                                         => c[x].mapped # c[a].mapped)
                  => Coalesced(d)
<1> DEFINE d == try_merge_next(c, a)
           n == End(c, a)
<1>0. a \in Nat /\ n \in Nat /\ a < n /\ c[a] \in BlockType
  BY ChainFacts
<1> HIDE DEF n
<1>1. CASE ~(n \in DOMAIN c /\ Merges(c[a], c[n]))
  <2>1. d = c
    BY <1>1 DEF try_merge_next, n
  <2>2. ASSUME n \in DOMAIN c, allocatable(c[n])
        PROVE  c[a].mapped # c[n].mapped
    BY <1>1, <2>2 DEF Merges
  <2>3. ASSUME CoalescedBut(c, a),
               \A x \in DOMAIN c : End(c, x) = a /\ allocatable(c[x])
                                     => c[x].mapped # c[a].mapped
        PROVE  Coalesced(c)
    <3>1. ASSUME NEW x \in DOMAIN c, NEW y \in DOMAIN c, End(c, x) = y,
                 allocatable(c[x]), allocatable(c[y])
          PROVE  c[x].mapped # c[y].mapped
      <4>1. CASE x = a
        BY <4>1, <3>1, <2>2 DEF n
      <4>2. CASE y = a
        BY <4>2, <3>1, <2>3
      <4>3. CASE x # a /\ y # a
        BY <4>3, <3>1, <2>3 DEF CoalescedBut
      <4> QED BY <4>1, <4>2, <4>3
    <3> QED BY <3>1 DEF Coalesced
  <2> QED BY <2>1, <2>3, <1>0 DEF n
<1>2. CASE n \in DOMAIN c /\ Merges(c[a], c[n])
  <2>1. n \in DOMAIN c /\ allocatable(c[n]) /\ c[n].mapped = c[a].mapped
    BY <1>2 DEF Merges
  <2>2. d = Join(c, a, n, c[a])
    BY <1>2 DEF try_merge_next, n
  <2> HIDE DEF d
  <2>4. Chain(d)
    BY <1>0, <2>1, <2>2, JoinChain DEF n
  <2>5. /\ DOMAIN d = DOMAIN c \ {n} /\ a \in DOMAIN d
        /\ d[a].mapped = c[a].mapped /\ allocatable(d[a])
        /\ End(d, a) = End(c, n)
        /\ \A x \in DOMAIN d : x # a => d[x] = c[x] /\ End(d, x) = End(c, x)
    BY <1>0, <2>1, <2>2, JoinValues DEF allocatable, n
  <2>6. \A m : BackedBy(c, m) => BackedBy(d, m)
    BY <1>0, <2>1, <2>2, JoinBacked DEF n
  <2>7. End(c, n) \in Nat /\ n < End(c, n)
    BY <2>1, ChainFacts
  <2>8. ASSUME CoalescedBut(c, a),
               \A x \in DOMAIN c : End(c, x) = a /\ allocatable(c[x])
                                     => c[x].mapped # c[a].mapped
        PROVE  Coalesced(d)
    <3>1. ASSUME NEW x \in DOMAIN d, NEW y \in DOMAIN d, End(d, x) = y,
                 allocatable(d[x]), allocatable(d[y])
          PROVE  d[x].mapped # d[y].mapped
      <4>0. x \in DOMAIN c /\ y \in DOMAIN c /\ x # n /\ y # n
        BY <2>5
      <4>1. CASE x = a
        <5>1. y # a /\ End(c, n) = y /\ c[y] = d[y]
          BY <4>1, <2>5, <2>7, <1>0, <3>1
        <5>2. n # a /\ allocatable(c[y])
          BY <1>0, <5>1, <3>1
        <5>3. c[n].mapped # c[y].mapped
          BY <2>8, <5>1, <5>2, <4>0, <2>1 DEF CoalescedBut
        <5> QED BY <5>1, <5>3, <2>5, <2>1, <4>1
      <4>2. CASE x # a /\ y = a
        BY <4>2, <3>1, <2>8, <2>5, <4>0
      <4>3. CASE x # a /\ y # a
        BY <4>3, <3>1, <2>8, <2>5, <4>0 DEF CoalescedBut
      <4> QED BY <4>1, <4>2, <4>3
    <3> QED BY <3>1 DEF Coalesced
  <2>9. \A x \in DOMAIN c : x \in DOMAIN d \/ (allocatable(c[x]) /\ x # a)
    BY <2>1, <2>5, <1>0
  <2> QED BY <2>4, <2>5, <2>6, <2>7, <2>8, <2>9, <1>0 DEF d, n
<1> QED BY <1>1, <1>2

\* The blocks in use stay as they are.
KeepsUsed(c, d) == \A x \in DOMAIN c : ~allocatable(c[x]) => x \in DOMAIN d /\ d[x] = c[x]

\* The blocks of d are blocks of c, but for the one at p.
OthersKept(c, d, p) == \A x \in DOMAIN d : x # p => x \in DOMAIN c /\ d[x] = c[x]

\* Merged as a whole: the result is a chain again, backed by the same pages, without
\* neighbours that could be merged; blocks in use and the other blocks are as before.
LEMMA MergedFacts ==
  ASSUME NEW c, Chain(c), NEW a \in DOMAIN c, allocatable(c[a])
  PROVE  /\ Chain(Merged(c, a))
         /\ MergedAt(c, a) \in DOMAIN Merged(c, a) /\ MergedAt(c, a) \in DOMAIN c
         /\ MergedAt(c, a) <= a
         /\ MergedAt(c, a) # a => End(c, MergedAt(c, a)) = a
         /\ allocatable(Merged(c, a)[MergedAt(c, a)])
         /\ Merged(c, a)[MergedAt(c, a)].mapped = c[a].mapped
         /\ OthersKept(c, Merged(c, a), MergedAt(c, a))
         /\ KeepsUsed(c, Merged(c, a))
         /\ \A m : BackedBy(c, m) => BackedBy(Merged(c, a), m)
         /\ CoalescedBut(c, a) => Coalesced(Merged(c, a))
<1> DEFINE d == try_merge_prev(c, a)
           p == MergedAt(c, a)
           e == try_merge_next(d, p)
<1>0. e = Merged(c, a)
  BY DEF Merged
<1>1. /\ Chain(d) /\ p \in DOMAIN d /\ p <= a /\ p \in DOMAIN c
      /\ p # a => End(c, p) = a /\ allocatable(c[p])
      /\ allocatable(d[p]) /\ d[p].mapped = c[a].mapped /\ End(d, p) = End(c, a)
      /\ \A x \in DOMAIN d : x # p => x \in DOMAIN c /\ x # a /\ d[x] = c[x]
      /\ \A x \in DOMAIN c : x # a => x \in DOMAIN d
  BY MergePrev
<1>2. \A m : BackedBy(c, m) => BackedBy(d, m)
  BY MergePrev
<1>3. CoalescedBut(c, a) => \A x \in DOMAIN d : End(d, x) = p /\ allocatable(d[x])
                                                  => d[x].mapped # d[p].mapped
  BY MergePrev
<1> HIDE DEF d, p
<1>4. /\ Chain(e) /\ p \in DOMAIN e
      /\ allocatable(e[p]) /\ e[p].mapped = d[p].mapped
      /\ \A x \in DOMAIN e : x # p => x \in DOMAIN d /\ e[x] = d[x]
      /\ \A x \in DOMAIN d : x \in DOMAIN e \/ (allocatable(d[x]) /\ x # p)
  BY <1>1, MergeNext
<1>5. \A m : BackedBy(d, m) => BackedBy(e, m)
  BY <1>1, MergeNext
<1>6. CoalescedBut(d, p) /\ (\A x \in DOMAIN d : End(d, x) = p /\ allocatable(d[x])
                                                   => d[x].mapped # d[p].mapped)
        => Coalesced(e)
  BY <1>1, MergeNext
<1> HIDE DEF e
<1>7. ASSUME CoalescedBut(c, a) PROVE CoalescedBut(d, p)
  <2>1. ASSUME NEW x \in DOMAIN d, NEW y \in DOMAIN d, End(d, x) = y, x # p, y # p,
               allocatable(d[x]), allocatable(d[y])
        PROVE  d[x].mapped # d[y].mapped
    <3>1. x \in DOMAIN c /\ y \in DOMAIN c /\ x # a /\ y # a /\ d[x] = c[x] /\ d[y] = c[y]
      BY <2>1, <1>1
    <3>2. End(c, x) = y
      BY <3>1, <2>1 DEF End
    <3> QED BY <3>1, <3>2, <2>1, <1>7 DEF CoalescedBut
  <2> QED BY <2>1 DEF CoalescedBut
<1>8. CoalescedBut(c, a) => Coalesced(e)
  BY <1>3, <1>6, <1>7
<1>9. ASSUME NEW x \in DOMAIN c, ~allocatable(c[x])
      PROVE  x \in DOMAIN e /\ e[x] = c[x]
  <2>1. x # a /\ x # p
    BY <1>9, <1>1
  <2>2. x \in DOMAIN d /\ d[x] = c[x]
    BY <2>1, <1>1
  <2>3. x \in DOMAIN e
    BY <2>1, <2>2, <1>4, <1>9
  <2> QED BY <2>1, <2>2, <2>3, <1>4
<1>10. \A x \in DOMAIN e : x # p => x \in DOMAIN c /\ e[x] = c[x]
  BY <1>1, <1>4
<1>11. \A m : BackedBy(c, m) => BackedBy(e, m)
  BY <1>2, <1>5
<1>12. /\ Chain(e) /\ p \in DOMAIN e /\ p <= a /\ p \in DOMAIN c
       /\ p # a => End(c, p) = a
       /\ allocatable(e[p]) /\ e[p].mapped = c[a].mapped
  BY <1>1, <1>4
<1> QED BY <1>0, <1>8, <1>9, <1>10, <1>11, <1>12 DEF p, KeepsUsed, OthersKept

-----------------------------------------------------------------------------
\* What the operations of the allocator do to a chain.

\* Neighbours that meet at an address outside of E could not be merged.
CoalescedAt(c, E) ==
  \A x, y \in DOMAIN c :
    End(c, x) = y /\ y \notin E /\ allocatable(c[x]) /\ allocatable(c[y])
      => c[x].mapped # c[y].mapped

\* The blocks of d in use were so in c.
UsedBefore(c, d) == \A x \in DOMAIN d : allocatable(d[x]) \/ (x \in DOMAIN c /\ d[x] = c[x])

\* Splitting a block makes no neighbours that could be merged but its two parts.
LEMMA SplitCoalesced ==
  ASSUME NEW c, Chain(c), NEW a \in DOMAIN c, NEW n \in Int, NEW E
  PROVE  CoalescedAt(c, E) => CoalescedAt(Split(c, a, n), E \cup {a + n})
<1> SUFFICES ASSUME CoalescedAt(c, E) PROVE CoalescedAt(Split(c, a, n), E \cup {a + n})
  OBVIOUS
<1>1. CASE ~Inside(c, a, n)
  BY <1>1 DEF Split, Inside, CoalescedAt
<1>2. CASE Inside(c, a, n)
  <2>0. SplitInto(c, a, n, Split(c, a, n))
    BY <1>2, SplitValues
  <2> DEFINE d == Split(c, a, n)
             h == a + n
  <2>1. /\ h \in Nat /\ h \notin DOMAIN c /\ a < h
        /\ DOMAIN d = DOMAIN c \cup {h}
        /\ End(d, a) = h
        /\ d[a].mapped = c[a].mapped /\ d[a].allocated = c[a].allocated
        /\ d[a].uses = c[a].uses /\ d[a].events = c[a].events
        /\ End(d, h) = End(c, a)
        /\ d[h].mapped = c[a].mapped /\ d[h].allocated = c[a].allocated
        /\ d[h].uses = c[a].uses /\ d[h].events = c[a].events
        /\ \A x \in DOMAIN c : x # a => d[x] = c[x] /\ End(d, x) = End(c, x)
    BY <2>0 DEF SplitInto
  <2> HIDE DEF d, h
  <2>2. ASSUME NEW x \in DOMAIN d, NEW y \in DOMAIN d, End(d, x) = y, y \notin E \cup {h},
               allocatable(d[x]), allocatable(d[y])
        PROVE  d[x].mapped # d[y].mapped
    <3>1. y \in DOMAIN c /\ allocatable(c[y]) /\ d[y].mapped = c[y].mapped
      BY <2>1, <2>2 DEF allocatable
    <3>2. x # a
      BY <2>1, <2>2
    <3>3. CASE x = h
      <4>1. allocatable(c[a]) /\ End(c, a) = y /\ d[x].mapped = c[a].mapped
        BY <2>1, <2>2, <3>3 DEF allocatable
      <4> QED BY <4>1, <3>1, <2>2 DEF CoalescedAt
    <3>4. CASE x # h
      <4>1. x \in DOMAIN c /\ allocatable(c[x]) /\ End(c, x) = y /\ d[x] = c[x]
        BY <2>1, <2>2, <3>2, <3>4
      <4> QED BY <4>1, <3>1, <2>2 DEF CoalescedAt
    <3> QED BY <3>3, <3>4
  <2>3. CoalescedAt(d, E \cup {h})
    BY <2>2 DEF CoalescedAt
  <2> QED BY <2>3 DEF d, h
<1> QED BY <1>1, <1>2

\* Of the block at a only the neighbours matter then; none of them if it is in use.
LEMMA PutCoalesced ==
  ASSUME NEW c, Chain(c), NEW a \in DOMAIN c, NEW b \in BlockType, b.size = c[a].size,
         NEW E, E \subseteq {a, End(c, a)}
  PROVE  CoalescedAt(c, E) =>
           /\ CoalescedBut([c EXCEPT ![a] = b], a)
           /\ ~allocatable(b) => Coalesced([c EXCEPT ![a] = b])
<1> DEFINE d == [c EXCEPT ![a] = b]
<1>1. /\ DOMAIN d = DOMAIN c /\ d[a] = b
      /\ \A x \in DOMAIN c : x # a => d[x] = c[x]
      /\ \A x \in DOMAIN c : End(d, x) = End(c, x)
  BY PutValues
<1> HIDE DEF d
<1> SUFFICES ASSUME CoalescedAt(c, E)
             PROVE  /\ CoalescedBut(d, a)
                    /\ ~allocatable(b) => Coalesced(d)
  BY DEF d
<1>2. ASSUME NEW x \in DOMAIN d, NEW y \in DOMAIN d, End(d, x) = y, x # a, y # a,
             allocatable(d[x]), allocatable(d[y])
      PROVE  d[x].mapped # d[y].mapped
  <2>1. x \in DOMAIN c /\ y \in DOMAIN c /\ End(c, x) = y /\ d[x] = c[x] /\ d[y] = c[y]
    BY <1>1, <1>2
  <2>2. y # End(c, a)
    <3>1. End(c, a) <= x \/ End(c, x) <= a
      BY <1>2, <2>1, Disjoint
    <3> QED BY <3>1, <2>1, ChainFacts
  <2>3. y \notin E
    BY <2>2, <1>2
  <2> QED BY <2>1, <2>3, <1>2 DEF CoalescedAt
<1>3. CoalescedBut(d, a)
  BY <1>2 DEF CoalescedBut
<1>4. ASSUME ~allocatable(b) PROVE Coalesced(d)
  BY <1>2, <1>1, <1>4 DEF Coalesced
<1> QED BY <1>3, <1>4

\* alloc_found_block: a cached block is split and its first part allocated.
LEMMA AllocChain ==
  ASSUME NEW c, Chain(c), Coalesced(c), NEW a \in DOMAIN c, allocatable(c[a]),
         NEW n \in Int, n >= 1, NEW d,
         d = [Split(c, a, n) EXCEPT ![a] = [Split(c, a, n)[a] EXCEPT !.allocated = TRUE]]
  PROVE  c[a].mapped => /\ Chain(d) /\ Coalesced(d) /\ KeepsUsed(c, d)
                        /\ \A m : BackedBy(c, m) => BackedBy(d, m)
<1> SUFFICES ASSUME c[a].mapped
             PROVE  /\ Chain(d) /\ Coalesced(d) /\ KeepsUsed(c, d)
                    /\ \A m : BackedBy(c, m) => BackedBy(d, m)
  OBVIOUS
<1> DEFINE s == Split(c, a, n)
           b == [s[a] EXCEPT !.allocated = TRUE]
<1>1. Chain(s) /\ a \in DOMAIN s
  BY SplitChain
<1>2. /\ s[a].mapped /\ allocatable(s[a])
      /\ \A x \in DOMAIN c : x # a => x \in DOMAIN s /\ s[x] = c[x]
  <2>1. CASE ~Inside(c, a, n)
    BY <2>1 DEF Split, Inside
  <2>2. CASE Inside(c, a, n)
    <3>0. SplitInto(c, a, n, Split(c, a, n))
      BY <2>2, SplitValues
    <3>1. /\ s[a].mapped = c[a].mapped /\ s[a].allocated = c[a].allocated
          /\ s[a].uses = c[a].uses /\ s[a].events = c[a].events
      BY <3>0 DEF SplitInto
    <3>2. \A x \in DOMAIN c : x # a => x \in DOMAIN s /\ s[x] = c[x]
      BY <3>0 DEF SplitInto
    <3> QED BY <3>1, <3>2 DEF allocatable
  <2> QED BY <2>1, <2>2
<1>3. End(s, a) = a + n \/ s = c
  <2>1. CASE ~Inside(c, a, n)
    BY <2>1 DEF Split, Inside
  <2>2. CASE Inside(c, a, n)
    <3>1. SplitInto(c, a, n, Split(c, a, n))
      BY <2>2, SplitValues
    <3> QED BY <3>1 DEF SplitInto
  <2> QED BY <2>1, <2>2
<1>4. CoalescedAt(c, {})
  BY DEF Coalesced, CoalescedAt
<1>5. CoalescedAt(s, {a + n})
  <2>1. CoalescedAt(s, {} \cup {a + n})
    BY <1>4, SplitCoalesced
  <2> QED BY <2>1
<1>6. \A m : BackedBy(c, m) => BackedBy(s, m)
  BY SplitBacked
<1> HIDE DEF s
<1>7. s[a] \in BlockType
  BY <1>1, ChainFacts
<1>8. /\ b \in BlockType /\ b.size = s[a].size /\ b.mapped = s[a].mapped /\ b.allocated
      /\ b.events = {} /\ ~allocatable(b)
  BY <1>7, <1>2 DEF BlockType, allocatable
<1> HIDE DEF b
<1>9. Chain([s EXCEPT ![a] = b])
  BY <1>1, <1>2, <1>8, PutChain
<1>10. Coalesced([s EXCEPT ![a] = b])
  <2>1. CASE End(s, a) = a + n
    <3>1. {a + n} \subseteq {a, End(s, a)}
      BY <2>1
    <3> QED BY <3>1, <1>1, <1>5, <1>8, PutCoalesced
  <2>2. CASE s = c
    <3>1. {} \subseteq {a, End(s, a)}
      OBVIOUS
    <3> QED BY <3>1, <2>2, <1>1, <1>4, <1>8, PutCoalesced
  <2> QED BY <2>1, <2>2, <1>3
<1>11. \A m : BackedBy(s, m) => BackedBy([s EXCEPT ![a] = b], m)
  BY <1>1, <1>8, PutBacked
<1>12. d = [s EXCEPT ![a] = b]
  BY DEF s, b
<1>13. /\ DOMAIN d = DOMAIN s
       /\ \A x \in DOMAIN s : x # a => d[x] = s[x]
  BY <1>1, <1>8, <1>12, PutValues
<1>14. KeepsUsed(c, d)
  BY <1>2, <1>13 DEF KeepsUsed
<1> QED BY <1>6, <1>9, <1>10, <1>11, <1>12, <1>14

\* free_block: a block becomes cached and is merged.
LEMMA CacheChain ==
  ASSUME NEW c, Chain(c), Coalesced(c), NEW a \in DOMAIN c,
         NEW b \in BlockType, b.size = c[a].size, allocatable(b), NEW d,
         d = Merged([c EXCEPT ![a] = b], a)
  PROVE  c[a].mapped /\ b.mapped =>
           /\ Chain(d) /\ Coalesced(d)
           /\ \A x \in DOMAIN c : x # a /\ ~allocatable(c[x]) => x \in DOMAIN d /\ d[x] = c[x]
           /\ \A m : BackedBy(c, m) => BackedBy(d, m)
<1> SUFFICES ASSUME c[a].mapped, b.mapped
             PROVE  /\ Chain(d) /\ Coalesced(d)
                    /\ \A x \in DOMAIN c : x # a /\ ~allocatable(c[x])
                                              => x \in DOMAIN d /\ d[x] = c[x]
                    /\ \A m : BackedBy(c, m) => BackedBy(d, m)
  OBVIOUS
<1> DEFINE s == [c EXCEPT ![a] = b]
<1>1. /\ DOMAIN s = DOMAIN c /\ s[a] = b
      /\ \A x \in DOMAIN c : x # a => s[x] = c[x]
  BY PutValues
<1>2. Chain(s)
  BY PutChain DEF allocatable
<1>3. CoalescedBut(s, a)
  <2>1. CoalescedAt(c, {}) /\ {} \subseteq {a, End(c, a)}
    BY DEF Coalesced, CoalescedAt
  <2> QED BY <2>1, PutCoalesced
<1>4. \A m : BackedBy(c, m) => BackedBy(s, m)
  BY PutBacked
<1> HIDE DEF s
<1>5. /\ Chain(Merged(s, a))
      /\ KeepsUsed(s, Merged(s, a))
      /\ \A m : BackedBy(s, m) => BackedBy(Merged(s, a), m)
      /\ CoalescedBut(s, a) => Coalesced(Merged(s, a))
  BY <1>1, <1>2, MergedFacts
<1>6. d = Merged(s, a)
  BY DEF s
<1> QED BY <1>1, <1>3, <1>4, <1>5, <1>6 DEF KeepsUsed

\* A block that stays in use, or that waits for events now.
LEMMA UseChain ==
  ASSUME NEW c, Chain(c), Coalesced(c), NEW a \in DOMAIN c,
         NEW b \in BlockType, b.size = c[a].size, ~allocatable(b), NEW d,
         d = [c EXCEPT ![a] = b]
  PROVE  c[a].mapped /\ b.mapped /\ (b.allocated => b.events = {}) =>
           /\ Chain(d) /\ Coalesced(d)
           /\ \A m : BackedBy(c, m) => BackedBy(d, m)
<1>1. CoalescedAt(c, {}) /\ {} \subseteq {a, End(c, a)}
  BY DEF Coalesced, CoalescedAt
<1>2. Coalesced(d)
  BY <1>1, PutCoalesced
<1>3. b.mapped /\ (b.allocated => b.events = {}) => Chain(d)
  BY PutChain
<1>4. c[a].mapped /\ b.mapped => \A m : BackedBy(c, m) => BackedBy(d, m)
  <2>1. \A m : b.mapped = c[a].mapped /\ BackedBy(c, m) => BackedBy(d, m)
    BY PutBacked
  <2>2. c[a] \in BlockType
    BY ChainFacts
  <2> QED BY <2>1, <2>2 DEF BlockType
<1> QED BY <1>2, <1>3, <1>4

\* What a split leaves of the chain, whether there are two parts or not.
SplitResult(c, a, n, s) ==
  /\ a \in DOMAIN s /\ s[a].mapped = c[a].mapped /\ s[a].allocated = c[a].allocated
  /\ s[a].events = c[a].events /\ s[a].uses = c[a].uses
  /\ \A x \in DOMAIN c : x # a => x \in DOMAIN s /\ s[x] = c[x]
  /\ \A x \in DOMAIN s :
       x \notin DOMAIN c =>
         /\ s[x].mapped = c[a].mapped /\ s[x].allocated = c[a].allocated
         /\ s[x].events = c[a].events /\ s[x].uses = c[a].uses
  /\ n >= 1 /\ n <= c[a].size => End(s, a) = a + n
  /\ n >= 1 /\ n < c[a].size => a + n \in DOMAIN s /\ a + n \notin DOMAIN c
                                /\ End(s, a + n) = End(c, a)

LEMMA SplitFacts ==
  ASSUME NEW c, Chain(c), NEW a \in DOMAIN c, NEW n \in Int
  PROVE  SplitResult(c, a, n, Split(c, a, n))
<1>1. CASE ~Inside(c, a, n)
  <2>1. Split(c, a, n) = c
    BY <1>1 DEF Split, Inside
  <2>2. c[a].size \in Nat /\ End(c, a) = a + c[a].size
    BY ChainFacts
  <2>3. ~(n >= 1 /\ n < c[a].size)
    BY <1>1, <2>2 DEF Inside
  <2>4. n >= 1 /\ n <= c[a].size => n = c[a].size
    BY <2>2, <2>3
  <2> QED BY <2>1, <2>2, <2>3, <2>4 DEF SplitResult
<1>2. CASE Inside(c, a, n)
  <2>1. SplitInto(c, a, n, Split(c, a, n))
    BY <1>2, SplitValues
  <2> QED BY <2>1 DEF SplitInto, SplitResult
<1> QED BY <1>1, <1>2

\* map_block: the first part of an unmapped block is mapped and merged.
MapResult(c, t, n, u) ==
  /\ Chain(Merged(u, t)) /\ Coalesced(Merged(u, t)) /\ KeepsUsed(c, Merged(u, t))
  /\ UsedBefore(c, Merged(u, t))
  /\ MergedAt(u, t) \in DOMAIN Merged(u, t) /\ MergedAt(u, t) <= t
  /\ MergedAt(u, t) # t => MergedAt(u, t) \in DOMAIN c /\ End(c, MergedAt(u, t)) = t
  /\ allocatable(Merged(u, t)[MergedAt(u, t)])
  /\ \A x \in DOMAIN c : End(c, x) = t /\ allocatable(c[x]) /\ c[x].mapped => MergedAt(u, t) = x
  /\ \A m : BackedBy(c, m) => BackedBy(Merged(u, t), m \cup Touched(t, t + n))

\* What becomes of a cached block of whole pages when it is mapped and merged.
PartResult(s, t, u) ==
  /\ DOMAIN u = DOMAIN s /\ u[t].mapped /\ allocatable(u[t])
  /\ \A x \in DOMAIN s : x # t => u[x] = s[x]
  /\ Chain(Merged(u, t)) /\ Coalesced(Merged(u, t))
  /\ MergedAt(u, t) \in DOMAIN Merged(u, t) /\ MergedAt(u, t) \in DOMAIN u
  /\ MergedAt(u, t) <= t
  /\ MergedAt(u, t) # t => End(s, MergedAt(u, t)) = t
  /\ allocatable(Merged(u, t)[MergedAt(u, t)])
  /\ \A x \in DOMAIN Merged(u, t) :
       x # MergedAt(u, t) => x \in DOMAIN s /\ Merged(u, t)[x] = u[x]
  /\ \A x \in DOMAIN s : ~allocatable(s[x]) => x \in DOMAIN Merged(u, t) /\ Merged(u, t)[x] = s[x]
  /\ \A x \in DOMAIN s : End(s, x) = t /\ allocatable(s[x]) /\ s[x].mapped => MergedAt(u, t) = x
  /\ \A m : BackedBy(s, m) => BackedBy(Merged(u, t), m \cup Touched(t, End(s, t)))

LEMMA MapPart ==
  ASSUME NEW s, Chain(s), NEW t \in DOMAIN s, NEW b \in BlockType, b.size = s[t].size,
         b.mapped, allocatable(b), NEW u, u = [s EXCEPT ![t] = b]
  PROVE  allocatable(s[t]) /\ Whole(t) /\ Whole(End(s, t)) /\ CoalescedAt(s, {End(s, t)})
           => PartResult(s, t, u)
<1> SUFFICES ASSUME allocatable(s[t]), Whole(t), Whole(End(s, t)),
                    CoalescedAt(s, {End(s, t)})
             PROVE  PartResult(s, t, u)
  OBVIOUS
<1>1. /\ DOMAIN u = DOMAIN s /\ u[t] = b
      /\ \A x \in DOMAIN s : x # t => u[x] = s[x]
      /\ \A x \in DOMAIN s : End(u, x) = End(s, x)
  <2>1. s \in [DOMAIN s -> BlockType]
    BY DEF Chain
  <2> QED BY <2>1 DEF End
<1>2. Chain(u)
  BY PutChain DEF allocatable
<1>3. CoalescedBut(u, t)
  BY PutCoalesced
<1>4. \A m : BackedBy(s, m) => BackedBy(u, m \cup Touched(t, End(s, t)))
  BY PutMapped
<1>5. t \in DOMAIN u /\ allocatable(u[t])
  BY <1>1
<1>13. \A x \in DOMAIN s : End(s, x) = t /\ allocatable(s[x]) /\ s[x].mapped => MergedAt(u, t) = x
  <2>1. SUFFICES ASSUME NEW x \in DOMAIN s, End(s, x) = t, allocatable(s[x]), s[x].mapped
                 PROVE  MergedAt(u, t) = x
    OBVIOUS
  <2>2. x # t /\ x < t
    BY <2>1, ChainFacts
  <2>3. x \in MergesPrev(u, t)
    BY <1>1, <2>1, <2>2 DEF MergesPrev, Merges
  <2>4. /\ MergedAt(u, t) \in DOMAIN u /\ End(u, MergedAt(u, t)) = t /\ MergedAt(u, t) < t
    BY <1>2, <1>5, <2>3, MergedAtValues
  <2>5. SUFFICES ASSUME MergedAt(u, t) # x PROVE FALSE
    OBVIOUS
  <2>6. End(u, x) <= MergedAt(u, t) \/ End(u, MergedAt(u, t)) <= x
    BY <1>1, <1>2, <2>4, <2>5, Disjoint
  <2>7. t \in Nat /\ x \in Nat /\ MergedAt(u, t) \in Nat
    BY <1>1, <1>2, <2>4, ChainFacts
  <2> QED BY <1>1, <2>1, <2>2, <2>4, <2>6, <2>7
<1> DEFINE e == Merged(u, t)
           p == MergedAt(u, t)
<1>6. /\ Chain(e) /\ p \in DOMAIN e /\ p \in DOMAIN u /\ p <= t
      /\ p # t => End(u, p) = t
      /\ allocatable(e[p])
  BY <1>2, <1>5, MergedFacts
<1>10. OthersKept(u, e, p) /\ KeepsUsed(u, e)
  BY <1>2, <1>5, MergedFacts
<1>12. /\ \A m : BackedBy(u, m) => BackedBy(e, m)
       /\ CoalescedBut(u, t) => Coalesced(e)
  BY <1>2, <1>5, MergedFacts
<1> HIDE DEF e, p
<1>7. \A x \in DOMAIN s : ~allocatable(s[x]) => x \in DOMAIN e /\ e[x] = s[x]
  BY <1>1, <1>10 DEF KeepsUsed
<1>8. \A m : BackedBy(s, m) => BackedBy(e, m \cup Touched(t, End(s, t)))
  BY <1>4, <1>12
<1>9. p # t => End(s, p) = t
  BY <1>1, <1>6
<1> QED BY <1>1, <1>3, <1>5, <1>6, <1>7, <1>8, <1>9, <1>10, <1>12, <1>13
       DEF PartResult, OthersKept, e, p

LEMMA MapChain ==
  ASSUME NEW c, Chain(c), Coalesced(c), NEW t \in DOMAIN c,
         NEW n \in Int, n >= 1, n <= c[t].size, Whole(t + n), NEW u,
         u = [Split(c, t, n) EXCEPT ![t] = [Split(c, t, n)[t] EXCEPT !.mapped = TRUE]]
  PROVE  ~c[t].mapped => MapResult(c, t, n, u)
<1> SUFFICES ASSUME ~c[t].mapped PROVE MapResult(c, t, n, u)
  OBVIOUS
<1>1. t \in Nat /\ allocatable(c[t]) /\ Whole(t)
  BY ChainFacts DEF BlockOK
<1>2. PICK s : s = Split(c, t, n)
  OBVIOUS
<1>3. Chain(s) /\ t \in DOMAIN s
  BY <1>2, SplitChain
<1>4. SplitResult(c, t, n, s)
  BY <1>2, SplitFacts
<1>5. CoalescedAt(s, {t + n})
  <2>1. CoalescedAt(c, {})
    BY DEF Coalesced, CoalescedAt
  <2>2. CoalescedAt(s, {} \cup {t + n})
    BY <1>2, <2>1, SplitCoalesced
  <2> QED BY <2>2
<1>6. \A m : BackedBy(c, m) => BackedBy(s, m)
  BY <1>2, SplitBacked
<1>7. /\ End(s, t) = t + n /\ allocatable(s[t])
      /\ \A x \in DOMAIN c : x # t => x \in DOMAIN s /\ s[x] = c[x]
      /\ \A x \in DOMAIN s : x \notin DOMAIN c => allocatable(s[x])
  BY <1>1, <1>4 DEF SplitResult, allocatable
<1>8. s[t] \in BlockType
  BY <1>3, ChainFacts
<1>9. PICK b : b = [s[t] EXCEPT !.mapped = TRUE]
  OBVIOUS
<1>10. b \in BlockType /\ b.size = s[t].size /\ b.mapped /\ allocatable(b)
  BY <1>7, <1>8, <1>9 DEF BlockType, allocatable
<1>11. u = [s EXCEPT ![t] = b]
  BY <1>2, <1>9
<1>12. allocatable(s[t]) /\ Whole(t) /\ Whole(End(s, t)) /\ CoalescedAt(s, {End(s, t)})
  BY <1>1, <1>5, <1>7
<1>13. PartResult(s, t, u)
  BY <1>3, <1>10, <1>11, <1>12, MapPart
<1>19. \A x \in DOMAIN c : End(c, x) = t /\ allocatable(c[x]) /\ c[x].mapped => MergedAt(u, t) = x
  <2>1. SUFFICES ASSUME NEW x \in DOMAIN c, End(c, x) = t, allocatable(c[x]), c[x].mapped
                 PROVE  MergedAt(u, t) = x
    OBVIOUS
  <2>2. x # t
    BY <2>1, ChainFacts
  <2>3. x \in DOMAIN s /\ s[x] = c[x]
    BY <2>2, <1>7
  <2>4. End(s, x) = t
    BY <2>1, <2>3 DEF End
  <2> QED BY <2>1, <2>3, <2>4, <1>13 DEF PartResult
<1> DEFINE e == Merged(u, t)
           p == MergedAt(u, t)
<1>14. /\ DOMAIN u = DOMAIN s /\ allocatable(u[t])
       /\ \A x \in DOMAIN s : x # t => u[x] = s[x]
       /\ Chain(e) /\ Coalesced(e) /\ p \in DOMAIN e /\ p \in DOMAIN u /\ p <= t
       /\ p # t => End(s, p) = t
       /\ allocatable(e[p])
       /\ \A x \in DOMAIN e : x # p => x \in DOMAIN s /\ e[x] = u[x]
       /\ \A x \in DOMAIN s : ~allocatable(s[x]) => x \in DOMAIN e /\ e[x] = s[x]
       /\ \A m : BackedBy(s, m) => BackedBy(e, m \cup Touched(t, t + n))
  BY <1>7, <1>13 DEF PartResult
<1> HIDE DEF e, p
<1>15. KeepsUsed(c, e)
  <2>1. ASSUME NEW x \in DOMAIN c, ~allocatable(c[x]) PROVE x \in DOMAIN e /\ e[x] = c[x]
    <3>1. x # t
      BY <2>1, <1>1
    <3>2. x \in DOMAIN s /\ s[x] = c[x]
      BY <3>1, <1>7
    <3> QED BY <3>2, <2>1, <1>14
  <2> QED BY <2>1 DEF KeepsUsed
<1>16. UsedBefore(c, e)
  <2>1. ASSUME NEW x \in DOMAIN e, ~allocatable(e[x]) PROVE x \in DOMAIN c /\ e[x] = c[x]
    <3>1. x # p /\ x \in DOMAIN s /\ e[x] = u[x]
      BY <2>1, <1>14
    <3>2. x # t /\ u[x] = s[x]
      BY <3>1, <2>1, <1>14
    <3>3. x \in DOMAIN c
      BY <3>1, <3>2, <2>1, <1>7
    <3> QED BY <3>1, <3>2, <3>3, <1>7
  <2> QED BY <2>1 DEF UsedBefore
<1>17. p # t => p \in DOMAIN c /\ End(c, p) = t
  <2>1. SUFFICES ASSUME p # t PROVE p \in DOMAIN c /\ End(c, p) = t
    OBVIOUS
  <2>2. p \in DOMAIN s /\ End(s, p) = t /\ p \in Nat /\ p < t
    BY <2>1, <1>1, <1>14, <1>3, ChainFacts
  <2>3. p \in DOMAIN c
    <3>1. SUFFICES ASSUME p \notin DOMAIN c PROVE FALSE
      OBVIOUS
    <3>2. CASE ~Inside(c, t, n)
      BY <3>1, <3>2, <2>2, <1>2 DEF Split, Inside
    <3>3. CASE Inside(c, t, n)
      <4>1. SplitInto(c, t, n, s)
        BY <3>3, <1>2, SplitValues
      <4>2. p = t + n
        BY <4>1, <3>1, <2>2 DEF SplitInto
      <4> QED BY <4>2, <1>1, <2>2
    <3> QED BY <3>2, <3>3
  <2>4. s[p] = c[p]
    BY <2>1, <2>3, <1>7
  <2> QED BY <2>2, <2>3, <2>4 DEF End
<1>18. \A m : BackedBy(c, m) => BackedBy(e, m \cup Touched(t, t + n))
  BY <1>6, <1>14
<1> QED BY <1>14, <1>15, <1>16, <1>17, <1>18, <1>19 DEF MapResult, e, p

\* A page begins where it begins.
LEMMA PageBegin ==
  ASSUME NEW k \in Nat
  PROVE  segmentLeft(PageSize * k) = k /\ segmentRight(PageSize * k) = k
<1>1. PageSize * k \in Nat
  BY RangeFacts
<1> DEFINE l == segmentLeft(PageSize * k)
           r == segmentRight(PageSize * k)
<1>2. l \in Nat /\ r \in Nat
      /\ PageSize * l <= PageSize * k /\ PageSize * k < PageSize * l + PageSize
      /\ PageSize * r >= PageSize * k /\ PageSize * k > PageSize * r - PageSize
  BY <1>1, Left, Right
<1> HIDE DEF l, r
<1>3. PageSize * l < PageSize * k + PageSize /\ PageSize * k < PageSize * r + PageSize
      /\ PageSize * r < PageSize * k + PageSize
  BY <1>2, RangeFacts
<1>4. l <= k /\ k <= l /\ r <= k /\ k <= r
  BY <1>2, <1>3, PageOrder
<1>5. l = k /\ r = k
  BY <1>2, <1>4
<1> QED BY <1>5 DEF l, r

\* The pages that a whole range of addresses is rounded to, outwards.
LEMMA TouchedSize ==
  ASSUME NEW lo \in Nat, NEW hi \in Nat, Whole(lo), lo < hi
  PROVE  /\ IsFiniteSet(Touched(lo, hi)) /\ Cardinality(Touched(lo, hi)) \in Nat
         /\ PageSize * Cardinality(Touched(lo, hi)) \in Nat
         /\ PageSize * Cardinality(Touched(lo, hi)) >= 1
         /\ lo + PageSize * Cardinality(Touched(lo, hi)) >= hi
         /\ Whole(lo + PageSize * Cardinality(Touched(lo, hi)))
         /\ Touched(lo, lo + PageSize * Cardinality(Touched(lo, hi))) = Touched(lo, hi)
         /\ \A e \in Nat : hi <= e /\ Whole(e) => lo + PageSize * Cardinality(Touched(lo, hi)) <= e
<1> DEFINE i == segmentLeft(lo)
           j == segmentRight(hi)
<1>1. i \in Nat /\ j \in Nat /\ lo = PageSize * i /\ PageSize * j >= hi
      /\ hi > PageSize * j - PageSize
  BY Left, Right DEF Whole
<1>2. Touched(lo, hi) = i..j - 1
  BY DEF Touched
<1> HIDE DEF i, j
<1>3. PageSize * i < PageSize * j
  BY <1>1, RangeFacts
<1>4. i < j
  BY <1>1, <1>3, PageOrder
<1>5. IsFiniteSet(i..j - 1) /\ Cardinality(i..j - 1) = j - i
  <2>1. i \in Int /\ j - 1 \in Int /\ ~(i > j - 1) /\ (j - 1) - i + 1 = j - i
    BY <1>1, <1>4
  <2> QED BY <2>1, FS_Interval
<1>6. lo + PageSize * (j - i) = PageSize * j /\ PageSize * (j - i) \in Nat
      /\ PageSize * (j - i) >= 1 /\ PageSize * j \in Nat
  BY <1>1, <1>3, <1>4, RangeFacts
<1>7. segmentLeft(PageSize * j) = j /\ segmentRight(PageSize * j) = j
  BY <1>1, PageBegin
<1>9. Touched(lo, PageSize * j) = i..j - 1
  BY <1>7 DEF Touched, i
<1>10. ASSUME NEW e \in Nat, hi <= e, Whole(e) PROVE PageSize * j <= e
  <2> DEFINE l == segmentLeft(e)
  <2>1. l \in Nat /\ e = PageSize * l
    BY <1>10, Left DEF Whole
  <2> HIDE DEF l
  <2>2. PageSize * j < PageSize * l + PageSize
    BY <2>1, <1>1, <1>10, RangeFacts
  <2>3. j <= l
    BY <2>1, <2>2, <1>1, PageOrder
  <2> QED BY <2>1, <2>3, <1>1, RangeFacts
<1> QED BY <1>1, <1>2, <1>4, <1>5, <1>6, <1>7, <1>9, <1>10 DEF Whole

\* And inwards.
LEMMA WithinSize ==
  ASSUME NEW lo \in Nat, NEW hi \in Nat, Within(lo, hi) # {}
  PROVE  LET first == PageSize * segmentRight(lo)
             n == PageSize * Cardinality(Within(lo, hi))
         IN  /\ IsFiniteSet(Within(lo, hi)) /\ Cardinality(Within(lo, hi)) \in Nat
             /\ first \in Nat /\ n \in Nat /\ n >= 1
             /\ lo <= first /\ first + n <= hi
             /\ Whole(first) /\ Whole(first + n)
             /\ Within(first, first + n) = Within(lo, hi)
<1> DEFINE i == segmentRight(lo)
           j == segmentLeft(hi)
<1>1. i \in Nat /\ j \in Nat /\ lo <= PageSize * i /\ PageSize * j <= hi
  BY Left, Right
<1>2. Within(lo, hi) = i..j - 1
  BY DEF Within
<1> HIDE DEF i, j
<1>3. i < j
  BY <1>1, <1>2
<1>4. IsFiniteSet(i..j - 1) /\ Cardinality(i..j - 1) = j - i
  <2>1. i \in Int /\ j - 1 \in Int /\ ~(i > j - 1) /\ (j - 1) - i + 1 = j - i
    BY <1>1, <1>3
  <2> QED BY <2>1, FS_Interval
<1>5. PageSize * i + PageSize * (j - i) = PageSize * j /\ PageSize * (j - i) \in Nat
      /\ PageSize * (j - i) >= 1 /\ PageSize * i \in Nat /\ PageSize * j \in Nat
  BY <1>1, <1>3, RangeFacts
<1>6. \A k \in Nat : segmentLeft(PageSize * k) = k /\ segmentRight(PageSize * k) = k
  BY PageBegin
<1>7. Within(PageSize * i, PageSize * j) = i..j - 1
  BY <1>1, <1>6 DEF Within
<1>8. Whole(PageSize * i) /\ Whole(PageSize * j)
  BY <1>1, <1>6 DEF Whole
<1>9. PageSize * Cardinality(Within(lo, hi)) = PageSize * (j - i)
  BY <1>2, <1>4
<1>10. /\ IsFiniteSet(Within(lo, hi)) /\ Cardinality(Within(lo, hi)) \in Nat
       /\ Within(PageSize * i, PageSize * j) = Within(lo, hi)
  BY <1>1, <1>2, <1>3, <1>4, <1>7
<1> QED BY <1>1, <1>5, <1>8, <1>9, <1>10 DEF i

LEMMA KeepsUsedOn ==
  ASSUME NEW c, NEW d, NEW e, KeepsUsed(c, d), KeepsUsed(d, e)
  PROVE  KeepsUsed(c, e)
BY DEF KeepsUsed

\* What unmap_block leaves: the pages within the block at a are unmapped, and the
\* block that holds them is a cached one.
UnmapResult(c, a, e) ==
  /\ Chain(e) /\ Coalesced(e) /\ KeepsUsed(c, e)
  /\ \E p \in DOMAIN e : allocatable(e[p]) /\ ~e[p].mapped
  /\ \A m : BackedBy(c, m) => BackedBy(e, m \ Within(a, End(c, a)))

\* What becomes of a cached block of whole pages when it is unmapped and merged.
UnmapPart(s, t, u) ==
  /\ DOMAIN u = DOMAIN s
  /\ Chain(Merged(u, t)) /\ Coalesced(Merged(u, t)) /\ KeepsUsed(s, Merged(u, t))
  /\ \E p \in DOMAIN Merged(u, t) : allocatable(Merged(u, t)[p]) /\ ~Merged(u, t)[p].mapped
  /\ \A m : BackedBy(s, m) => BackedBy(Merged(u, t), m \ Within(t, End(s, t)))

LEMMA UnmapPartFacts ==
  ASSUME NEW s, Chain(s), NEW t \in DOMAIN s, NEW b \in BlockType, b.size = s[t].size,
         ~b.mapped, allocatable(b), NEW u, u = [s EXCEPT ![t] = b]
  PROVE  allocatable(s[t]) /\ Whole(t) /\ Whole(End(s, t)) /\ CoalescedAt(s, {t, End(s, t)})
           => UnmapPart(s, t, u)
<1> SUFFICES ASSUME allocatable(s[t]), Whole(t), Whole(End(s, t)),
                    CoalescedAt(s, {t, End(s, t)})
             PROVE  UnmapPart(s, t, u)
  OBVIOUS
<1>1. /\ DOMAIN u = DOMAIN s /\ u[t] = b
      /\ \A x \in DOMAIN s : x # t => u[x] = s[x]
      /\ \A x \in DOMAIN s : End(u, x) = End(s, x)
  <2>1. s \in [DOMAIN s -> BlockType]
    BY DEF Chain
  <2> QED BY <2>1 DEF End
<1>2. Chain(u)
  BY PutChain DEF allocatable
<1>3. CoalescedBut(u, t)
  BY PutCoalesced
<1>4. \A m : BackedBy(s, m) => BackedBy(u, m \ Within(t, End(s, t)))
  BY PutUnmapped
<1>5. t \in DOMAIN u /\ allocatable(u[t])
  BY <1>1
<1> DEFINE e == Merged(u, t)
           p == MergedAt(u, t)
<1>6. /\ Chain(e) /\ p \in DOMAIN e /\ allocatable(e[p])
      /\ e[p].mapped = u[t].mapped
  BY <1>2, <1>5, MergedFacts
<1>7. KeepsUsed(u, e)
  BY <1>2, <1>5, MergedFacts
<1>8. /\ \A m : BackedBy(u, m) => BackedBy(e, m)
      /\ CoalescedBut(u, t) => Coalesced(e)
  BY <1>2, <1>5, MergedFacts
<1> HIDE DEF e, p
<1>9. KeepsUsed(s, e)
  BY <1>1, <1>7 DEF KeepsUsed
<1>10. \A m : BackedBy(s, m) => BackedBy(e, m \ Within(t, End(s, t)))
  BY <1>4, <1>8
<1>11. \E q \in DOMAIN e : allocatable(e[q]) /\ ~e[q].mapped
  BY <1>1, <1>6
<1> QED BY <1>1, <1>3, <1>6, <1>8, <1>9, <1>10, <1>11 DEF UnmapPart, e, p

LEMMA UnmapChain ==
  ASSUME NEW c, Chain(c), Coalesced(c), NEW a \in DOMAIN c, Within(a, End(c, a)) # {},
         NEW first, first = PageSize * segmentRight(a),
         NEW n, n = PageSize * Cardinality(Within(a, End(c, a))),
         NEW d, d = Split(Split(c, a, first - a), first, n),
         NEW u, u = [d EXCEPT ![first] = [d[first] EXCEPT !.mapped = FALSE]]
  PROVE  allocatable(c[a]) /\ c[a].mapped => UnmapResult(c, a, Merged(u, first))
<1> SUFFICES ASSUME allocatable(c[a]), c[a].mapped
             PROVE  UnmapResult(c, a, Merged(u, first))
  OBVIOUS
<1>1. a \in Nat /\ End(c, a) \in Nat /\ c[a].size \in Nat /\ End(c, a) = a + c[a].size
  BY ChainFacts
<1>2. /\ first \in Nat /\ n \in Nat /\ n >= 1
      /\ a <= first /\ first + n <= End(c, a)
      /\ Whole(first) /\ Whole(first + n)
      /\ Within(first, first + n) = Within(a, End(c, a))
  BY <1>1, WithinSize
<1>3. PICK s : s = Split(c, a, first - a)
  OBVIOUS
<1>4. first - a \in Int /\ a + (first - a) = first
  BY <1>1, <1>2
<1>5. Chain(s) /\ a \in DOMAIN s
  BY <1>3, <1>4, SplitChain
<1>6. SplitResult(c, a, first - a, s)
  BY <1>3, <1>4, SplitFacts
<1>7. CoalescedAt(c, {})
  BY DEF Coalesced, CoalescedAt
<1>8. CoalescedAt(s, {first})
  <2>1. CoalescedAt(s, {} \cup {a + (first - a)})
    BY <1>3, <1>4, <1>7, SplitCoalesced
  <2> QED BY <2>1, <1>4
<1>9. \A m : BackedBy(c, m) => BackedBy(s, m)
  BY <1>3, <1>4, SplitBacked
<1>10. KeepsUsed(c, s)
  BY <1>6 DEF SplitResult, KeepsUsed
<1>11. /\ first \in DOMAIN s /\ End(s, first) = End(c, a)
       /\ s[first].mapped /\ allocatable(s[first])
  <2>1. CASE first = a
    <3>1. ~(first - a \in 1..c[a].size - 1)
      BY <1>1, <2>1
    <3>2. s = c
      BY <1>3, <3>1 DEF Split
    <3> QED BY <3>2, <2>1
  <2>2. CASE first # a
    <3>1. first - a >= 1 /\ first - a < c[a].size
      BY <1>1, <1>2, <2>2
    <3>2. first \in DOMAIN s /\ first \notin DOMAIN c /\ End(s, first) = End(c, a)
      BY <1>6, <3>1, <1>4 DEF SplitResult
    <3> QED BY <3>2, <1>6 DEF SplitResult, allocatable
  <2> QED BY <2>1, <2>2
<1>12. n <= s[first].size
  BY <1>5, <1>11, <1>2, ChainFacts
<1>13. d = Split(s, first, n)
  BY <1>3
<1>14. Chain(d) /\ first \in DOMAIN d
  BY <1>13, <1>5, <1>11, <1>2, SplitChain
<1>15. SplitResult(s, first, n, d)
  BY <1>13, <1>5, <1>11, <1>2, SplitFacts
<1>16. CoalescedAt(d, {first, first + n})
  <2>1. CoalescedAt(d, {first} \cup {first + n})
    BY <1>13, <1>5, <1>11, <1>2, <1>8, SplitCoalesced
  <2>2. {first} \cup {first + n} = {first, first + n}
    OBVIOUS
  <2> QED BY <2>1, <2>2
<1>17. \A m : BackedBy(s, m) => BackedBy(d, m)
  BY <1>13, <1>5, <1>11, <1>2, SplitBacked
<1>18. KeepsUsed(s, d)
  BY <1>11, <1>15 DEF SplitResult, KeepsUsed
<1>19. End(d, first) = first + n /\ allocatable(d[first])
  BY <1>11, <1>12, <1>15, <1>2 DEF SplitResult, allocatable
<1>20. PICK b : b = [d[first] EXCEPT !.mapped = FALSE]
  OBVIOUS
<1>21. b \in BlockType /\ b.size = d[first].size /\ ~b.mapped /\ allocatable(b)
  <2>1. d[first] \in BlockType
    BY <1>14, ChainFacts
  <2> QED BY <2>1, <1>19, <1>20 DEF BlockType, allocatable
<1>22. u = [d EXCEPT ![first] = b]
  BY <1>20
<1>23. allocatable(d[first]) /\ Whole(first) /\ Whole(End(d, first))
       /\ CoalescedAt(d, {first, End(d, first)})
  BY <1>2, <1>16, <1>19
<1>24. UnmapPart(d, first, u)
  BY <1>14, <1>21, <1>22, <1>23, UnmapPartFacts
<1>25. KeepsUsed(c, Merged(u, first))
  <2>1. KeepsUsed(d, Merged(u, first))
    BY <1>24 DEF UnmapPart
  <2>2. KeepsUsed(c, d)
    BY <1>10, <1>18 DEF KeepsUsed
  <2> QED BY <2>1, <2>2, KeepsUsedOn
<1>26. \A m : BackedBy(c, m) => BackedBy(Merged(u, first), m \ Within(a, End(c, a)))
  BY <1>2, <1>9, <1>17, <1>19, <1>24 DEF UnmapPart
<1> QED BY <1>24, <1>25, <1>26 DEF UnmapPart, UnmapResult

\* The pages of a segment and the blocks in them.
LEMMA AllPages == Touched(0, RangeSize) = PageIds
<1>1. RangeSize = PageSize * Pages /\ Pages \in Nat /\ 0 = PageSize * 0 /\ 0 \in Nat
  BY RangeFacts DEF RangeSize
<1>2. segmentRight(PageSize * Pages) = Pages /\ segmentLeft(PageSize * 0) = 0
  BY <1>1, PageBegin
<1> QED BY <1>1, <1>2 DEF Touched, PageIds

LEMMA BlockPages ==
  ASSUME NEW c, Chain(c), NEW a \in DOMAIN c
  PROVE  /\ Touched(a, End(c, a)) \subseteq PageIds
         /\ Within(a, End(c, a)) \subseteq Touched(a, End(c, a))
<1>1. a \in Nat /\ End(c, a) \in Nat /\ End(c, a) <= RangeSize
  BY ChainFacts
<1>2. ASSUME NEW k \in Touched(a, End(c, a)) PROVE k \in PageIds
  <2>1. k \in Nat /\ PageSize * k < RangeSize /\ 0 < PageSize * k + PageSize
    BY <1>1, TouchedMeaning, RangeFacts
  <2>2. k \in Touched(0, RangeSize)
    BY <2>1, RangeFacts, TouchedMeaning
  <2> QED BY <2>2, AllPages
<1>3. ASSUME NEW k \in Within(a, End(c, a)) PROVE k \in Touched(a, End(c, a))
  <2>1. k \in Nat /\ a <= PageSize * k /\ PageSize * k + PageSize <= End(c, a)
    BY <1>1, WithinMeaning
  <2>2. PageSize * k < End(c, a) /\ a < PageSize * k + PageSize
    BY <2>1, <1>1, RangeFacts
  <2> QED BY <2>1, <2>2, <1>1, TouchedMeaning
<1> QED BY <1>2, <1>3

\* A new segment is one unmapped block.
LEMMA NewChain ==
  ASSUME NEW c, c = [a \in {0} |-> Block(RangeSize, FALSE)]
  PROVE  /\ Chain(c) /\ Coalesced(c) /\ BackedBy(c, {}) /\ 0 \in DOMAIN c
         /\ \A b \in DOMAIN c : allocatable(c[b])
<1>1. /\ DOMAIN c = {0} /\ c[0].size = RangeSize /\ ~c[0].mapped /\ ~c[0].allocated
      /\ c[0].uses = {} /\ c[0].events = {} /\ c[0] \in BlockType
  BY RangeFacts DEF Block, BlockType
<1>2. c = [x \in DOMAIN c |-> c[x]]
  OBVIOUS
<1>3. allocatable(c[0]) /\ End(c, 0) = RangeSize
  <2>1. 0 + RangeSize = RangeSize
    BY RangeFacts
  <2> HIDE DEF RangeSize
  <2> QED BY <1>1, <2>1 DEF allocatable, End
<1>4. Whole(0) /\ Whole(RangeSize)
  <2>1. RangeSize = PageSize * Pages /\ Pages \in Nat /\ 0 = PageSize * 0 /\ 0 \in Nat
    BY RangeFacts DEF RangeSize
  <2>2. segmentLeft(PageSize * Pages) = Pages /\ segmentLeft(PageSize * 0) = 0
    BY <2>1, PageBegin
  <2> QED BY <2>1, <2>2 DEF Whole
<1>5. BlockOK(c, 0)
  BY <1>1, <1>3, <1>4 DEF BlockOK
<1>6. c \in [DOMAIN c -> BlockType]
  BY <1>1, <1>2
<1>7. \A x \in DOMAIN c : x \in Nat /\ End(c, x) <= RangeSize /\ BlockOK(c, x)
  BY <1>1, <1>3, <1>5, RangeFacts
<1>8. \A x, y \in DOMAIN c : x < y => End(c, x) <= y
  BY <1>1
<1>9. \A u \in Nat : u < RangeSize => \E x \in DOMAIN c : x <= u /\ u < End(c, x)
  BY <1>1, <1>3, RangeFacts
<1>10. Chain(c)
  BY <1>6, <1>7, <1>8, <1>9, IsChain
<1>11. Coalesced(c)
  BY <1>1, <1>3, RangeFacts DEF Coalesced
<1>12. BackedBy(c, {})
  BY <1>1 DEF BackedBy
<1> QED BY <1>1, <1>3, <1>10, <1>11, <1>12

\* A segment of one unmapped block has no pages.
LEMMA NothingMapped ==
  ASSUME NEW c, Chain(c), DOMAIN c = {0}, NEW m, m \subseteq PageIds, BackedBy(c, m)
  PROVE  ~c[0].mapped => m = {}
<1>1. 0 \in Nat /\ End(c, 0) \in Nat /\ End(c, 0) <= RangeSize
  BY ChainFacts
<1>2. RangeSize - 1 \in 0..RangeSize - 1
  BY RangeFacts
<1>3. RangeSize - 1 < End(c, 0)
  BY <1>2 DEF Chain, Tiled
<1>4. End(c, 0) = RangeSize
  BY <1>1, <1>3, RangeFacts
<1> QED BY <1>4, AllPages DEF BackedBy

\* Where the blocks that begin within n addresses are free, and there are so many.
Room(c, a, n) ==
  /\ a + n <= RangeSize
  /\ \A b \in DOMAIN c : a <= b /\ b < a + n => allocatable(c[b])

\* "free -> unmapped -> *": a candidate that is mapped and too small is followed by an
\* unmapped block.
LEMMA NextToMap ==
  ASSUME NEW c, Chain(c), Coalesced(c), NEW a \in DOMAIN c, NEW n \in Nat, n > 0,
         Room(c, a, n), c[a].mapped, c[a].size < n
  PROVE  End(c, a) \in DOMAIN c /\ ~c[End(c, a)].mapped
<1>1. a \in Nat /\ End(c, a) \in Nat /\ End(c, a) = a + c[a].size /\ c[a].size \in Nat
      /\ c[a].size > 0
  BY ChainFacts
<1>2. a + n <= RangeSize /\ a <= End(c, a) /\ End(c, a) < a + n /\ a < a + n
  BY <1>1 DEF Room
<1>3. End(c, a) \in DOMAIN c
  BY <1>1, <1>2, RangeFacts, NextBlock
<1>4. allocatable(c[a]) /\ allocatable(c[End(c, a)])
  BY <1>1, <1>2, <1>3 DEF Room
<1> QED BY <1>3, <1>4 DEF Coalesced

\* Mapping a part keeps the room, from where the candidate begins then.
LEMMA MapKeepsRoom ==
  ASSUME NEW c, Chain(c), NEW a \in DOMAIN c, NEW n \in Nat, n > 0, Room(c, a, n),
         NEW t \in DOMAIN c, t = a \/ (End(c, a) = t /\ c[a].mapped), NEW k, NEW u,
         MapResult(c, t, k, u)
  PROVE  Room(Merged(u, t), MergedAt(u, t), n)
<1> DEFINE e == Merged(u, t)
           p == MergedAt(u, t)
<1>1. /\ UsedBefore(c, e) /\ p \in DOMAIN e /\ p <= t
      /\ p # t => p \in DOMAIN c /\ End(c, p) = t
      /\ allocatable(e[p]) /\ Chain(e)
      /\ \A x \in DOMAIN c : End(c, x) = t /\ allocatable(c[x]) /\ c[x].mapped => p = x
  BY DEF MapResult
<1> HIDE DEF e, p
<1>2. a \in Nat /\ t \in Nat /\ p \in Nat /\ a + n <= RangeSize /\ RangeSize \in Nat
  BY <1>1, ChainFacts, RangeFacts DEF Room
<1>3. allocatable(c[a])
  BY <1>2 DEF Room
<1>4. CASE p = a
  <2>1. ASSUME NEW b \in DOMAIN e, p <= b, b < p + n PROVE allocatable(e[b])
    BY <1>1, <1>4, <2>1 DEF UsedBefore, Room
  <2> QED BY <2>1, <1>2, <1>4 DEF Room, e, p
<1>5. CASE p # a
  <2>1. t = a /\ p # t /\ p \in DOMAIN c /\ End(c, p) = a /\ p < a
    BY <1>1, <1>2, <1>3, <1>5
  <2>2. ASSUME NEW b \in DOMAIN e, p <= b, b < p + n PROVE allocatable(e[b])
    <3>1. CASE b = p
      BY <3>1, <1>1
    <3>2. CASE b # p
      <4>1. SUFFICES ASSUME ~allocatable(e[b]) PROVE FALSE
        OBVIOUS
      <4>2. b \in DOMAIN c /\ e[b] = c[b] /\ b \in Nat
        BY <4>1, <1>1, ChainFacts DEF UsedBefore
      <4>3. End(c, p) <= b \/ End(c, b) <= p
        BY <2>1, <3>2, <4>2, Disjoint
      <4>4. b < End(c, b) /\ End(c, b) \in Nat
        BY <4>2, ChainFacts
      <4>5. a <= b /\ b < a + n
        BY <4>2, <4>3, <4>4, <2>1, <2>2, <1>2
      <4> QED BY <4>1, <4>2, <4>5 DEF Room
    <3> QED BY <3>1, <3>2
  <2>3. p + n <= RangeSize
    BY <2>1, <1>2
  <2> QED BY <2>2, <2>3 DEF Room, e, p
<1> QED BY <1>4, <1>5

-----------------------------------------------------------------------------
\* Counting pages.

LEMMA PagesFinite ==
  ASSUME NEW S, S \subseteq Segments \X PageIds
  PROVE  IsFiniteSet(S) /\ Cardinality(S) \in Nat
<1>1. 1 \in Int /\ MaxSegments \in Int /\ 0 \in Int /\ Pages - 1 \in Int
  BY SizeAssumption, AddressSpaceAssumption
<1>2. IsFiniteSet(Segments) /\ IsFiniteSet(PageIds)
  BY <1>1, FS_Interval DEF Segments, PageIds
<1>3. IsFiniteSet(Segments \X PageIds)
  BY <1>2, FS_Product
<1>4. IsFiniteSet(S)
  BY <1>3, FS_Subset
<1> QED BY <1>4, FS_CardinalityType

LEMMA SomePages ==
  ASSUME NEW S, S \subseteq PageIds
  PROVE  IsFiniteSet(S) /\ Cardinality(S) \in Nat
<1>1. 0 \in Int /\ Pages - 1 \in Int
  BY AddressSpaceAssumption
<1>2. IsFiniteSet(PageIds)
  BY <1>1, FS_Interval DEF PageIds
<1>3. IsFiniteSet(S)
  BY <1>2, FS_Subset
<1> QED BY <1>3, FS_CardinalityType

\* The pages S of one segment count as many as S.
LEMMA SegmentPages ==
  ASSUME NEW g, NEW S, S \subseteq PageIds
  PROVE  IsFiniteSet({g} \X S) /\ Cardinality({g} \X S) = Cardinality(S)
<1>1. IsFiniteSet(S) /\ Cardinality(S) \in Nat
  BY SomePages
<1>2. IsFiniteSet({g}) /\ Cardinality({g}) = 1
  BY FS_Singleton
<1>3. IsFiniteSet({g} \X S) /\ Cardinality({g} \X S) = 1 * Cardinality(S)
  BY <1>1, <1>2, FS_Product
<1> QED BY <1>1, <1>3

LEMMA AddPages ==
  ASSUME NEW A, A \subseteq Segments \X PageIds, NEW g \in Segments,
         NEW S, S \subseteq PageIds
  PROVE  /\ Cardinality(A \cup ({g} \X S)) <= Cardinality(A) + Cardinality(S)
         /\ A \cap ({g} \X S) = {}
              => Cardinality(A \cup ({g} \X S)) = Cardinality(A) + Cardinality(S)
<1>1. IsFiniteSet(A) /\ Cardinality(A) \in Nat /\ Cardinality(S) \in Nat
  BY PagesFinite, SomePages
<1>2. IsFiniteSet({g} \X S) /\ Cardinality({g} \X S) = Cardinality(S)
  BY SegmentPages
<1>3. Cardinality(A \cup ({g} \X S)) =
        Cardinality(A) + Cardinality({g} \X S) - Cardinality(A \cap ({g} \X S))
  BY <1>1, <1>2, FS_Union
<1>4. Cardinality(A \cap ({g} \X S)) \in Nat
  BY <1>1, FS_Intersection, FS_CardinalityType
<1>5. Cardinality({}) = 0
  BY FS_EmptySet
<1> QED BY <1>1, <1>2, <1>3, <1>4, <1>5

LEMMA RemovePages ==
  ASSUME NEW A, A \subseteq Segments \X PageIds, NEW g \in Segments,
         NEW S, S \subseteq PageIds, {g} \X S \subseteq A
  PROVE  Cardinality(A \ ({g} \X S)) = Cardinality(A) - Cardinality(S)
<1>1. IsFiniteSet(A) /\ Cardinality(A) \in Nat /\ Cardinality(S) \in Nat
  BY PagesFinite, SomePages
<1>2. IsFiniteSet({g} \X S) /\ Cardinality({g} \X S) = Cardinality(S)
  BY SegmentPages
<1>3. Cardinality(A \ ({g} \X S)) = Cardinality(A) - Cardinality(A \cap ({g} \X S))
  BY <1>1, FS_Difference
<1>4. A \cap ({g} \X S) = {g} \X S
  OBVIOUS
<1> QED BY <1>2, <1>3, <1>4

-----------------------------------------------------------------------------
(***************************************************************************)
(* The inductive invariant.                                                *)
(***************************************************************************)
KernelType == [seg : Segments, lo : Nat, hi : Nat]
WorkType == [kernel : KernelType, stream : Streams, replay : BOOLEAN]
SegmentType ==
  [live : BOOLEAN, stream : Streams \cup {None}, pool : {None, "default", "graph"},
   peers : SUBSET Peers, handles : SUBSET PageIds, mapped : SUBSET PageIds,
   stray : SUBSET PageIds, shared : SUBSET PageIds, access : SUBSET (PageIds \X Peers)]
CallType ==
  [at : {"idle", "events", "search", "find", "map", "sync", "release"},
   stream : Streams \cup {None}, size : Requests \cup {0},
   pool : {None, "default", "graph"}, retry : BOOLEAN, seg : Segments \cup {0}, pos : Nat]
GraphType ==
  [state : {"none", "capturing", "captured", "freeable", "erased"},
   stream : Streams \cup {None}, count : Int, kernels : SUBSET KernelType]

Types ==
  /\ scenario \in Scenarios
  /\ segment \in [Segments -> SegmentType]
  /\ chain = [g \in Segments |-> chain[g]]
  /\ peers \subseteq Peers
  /\ handle_type \in {"unspecified", "fabric", "posix"}
  /\ graph \in GraphType
  /\ call \in CallType
  /\ work \subseteq WorkType
  /\ faults \in 0..1

\* The blocks of a segment, and what the driver has mapped for it.
SegmentOK(s, c, p) ==
  IF s.live
  THEN /\ Chain(c) /\ Coalesced(c) /\ BackedBy(c, s.mapped)
       /\ s.mapped \cup s.stray \subseteq s.handles /\ s.mapped \cap s.stray = {}
       /\ s.stream \in Streams /\ s.peers = p /\ s.mapped \X p \subseteq s.access
  ELSE s = NoSegment /\ c = NoBlocks

SegmentInv == \A g \in Segments : SegmentOK(segment[g], chain[g], peers)

Handles == PagesWith(LAMBDA g : segment[g].handles)
MappedPages == PagesWith(LAMBDA g : segment[g].mapped)

MemoryInv ==
  /\ Cardinality(Handles) <= Memory
  /\ total = PageSize * Cardinality(MappedPages)
  /\ scenario.faults = 0 =>
       faults = 0 /\ \A g \in Segments : segment[g].handles = segment[g].mapped

\* While the client is in try_allocate_expandable_block, its candidate has room.
CallInv ==
  /\ call.at \in {"events", "search", "find", "map"} => call.size # 0
  /\ call.size # 0 => call.stream \in Streams /\ call.pool # None
  /\ call.pool = "graph" => call.stream = graph.stream /\ graph.state # "none"
  /\ call.at = "map" =>
       /\ call.seg \in Live
       /\ call.pos \in DOMAIN chain[call.seg]
       /\ HasSpace(chain[call.seg], call.pos)

\* The graph's kernels use its pool, which is not unmapped while it exists.
GraphInv ==
  /\ graph.state \notin {"capturing", "captured"} => graph.kernels = {}
  /\ \A g \in Live : segment[g].pool = "graph" =>
       segment[g].stream = graph.stream /\ graph.state # "none"
  /\ \A k \in graph.kernels :
       /\ k.seg \in Live /\ segment[k.seg].pool = "graph"
       /\ Touched(k.lo, k.hi) \subseteq segment[k.seg].mapped

\* What keeps the pages of a kernel mapped: it runs on the stream of the segment, or its
\* block waits for it.
Held(w, c) ==
  /\ ~w.replay
  /\ w.kernel.lo \in DOMAIN c /\ End(c, w.kernel.lo) = w.kernel.hi
  /\ w.stream \in c[w.kernel.lo].uses \cup c[w.kernel.lo].events

WorkOK(w) ==
  /\ w.kernel.seg \in Live
  /\ Touched(w.kernel.lo, w.kernel.hi) \subseteq segment[w.kernel.seg].mapped
  /\ w.stream = segment[w.kernel.seg].stream \/ Held(w, chain[w.kernel.seg])

WorkInv == scenario.replay = "capture stream" => \A w \in work : WorkOK(w)

IInv == Types /\ SegmentInv /\ MemoryInv /\ CallInv /\ GraphInv /\ WorkInv

-----------------------------------------------------------------------------
\* What several actions have in common.

\* What the invariant says of a segment that is reserved.
LEMMA LiveSegment ==
  ASSUME IInv, NEW g \in Live
  PROVE  /\ g \in Segments /\ segment[g] \in SegmentType /\ segment[g].live
         /\ Chain(chain[g]) /\ Coalesced(chain[g]) /\ BackedBy(chain[g], segment[g].mapped)
         /\ segment[g].mapped \subseteq segment[g].handles
         /\ segment[g].stray \subseteq segment[g].handles
         /\ segment[g].mapped \cap segment[g].stray = {}
         /\ segment[g].stream \in Streams /\ segment[g].peers = peers
         /\ segment[g].mapped \X peers \subseteq segment[g].access
<1>1. g \in Segments /\ segment[g].live
  BY DEF Live
<1>2. SegmentOK(segment[g], chain[g], peers) /\ segment[g] \in SegmentType
  BY <1>1 DEF IInv, SegmentInv, Types
<1> QED BY <1>1, <1>2 DEF SegmentOK

\* A used block is mapped, with all its pages.
LEMMA UsedPages ==
  ASSUME NEW c, Chain(c), NEW m, BackedBy(c, m), NEW a \in DOMAIN c
  PROVE  c[a].mapped => Touched(a, End(c, a)) \subseteq m
BY DEF BackedBy

\* The chains, the segments and what counts them stay.
LEMMA SameMemory ==
  ASSUME IInv, UNCHANGED <<scenario, deviceVars, peers>>
  PROVE  SegmentInv' /\ MemoryInv' /\ Live' = Live
<1>1. SegmentInv'
  BY DEF IInv, SegmentInv, deviceVars
<1>2. MemoryInv'
  BY DEF IInv, MemoryInv, deviceVars, Handles, MappedPages, PagesWith
<1>3. Live' = Live
  BY DEF Live, deviceVars
<1> QED BY <1>1, <1>2, <1>3

\* The blocks of one segment change.
LEMMA SegmentChain ==
  ASSUME IInv, NEW g \in Live, NEW d, Chain(d), Coalesced(d), BackedBy(d, segment[g].mapped),
         chain' = [chain EXCEPT ![g] = d],
         UNCHANGED <<scenario, segment, total, peers, handle_type, faults>>
  PROVE  SegmentInv' /\ MemoryInv' /\ Live' = Live /\ (chain = [h \in Segments |-> chain[h]])'
<1>1. chain = [h \in Segments |-> chain[h]] /\ g \in Segments
  BY DEF IInv, Types, Live
<1>2. chain'[g] = d /\ \A h \in Segments : h # g => chain'[h] = chain[h]
  BY <1>1
<1>3. ASSUME NEW h \in Segments PROVE SegmentOK(segment[h], chain'[h], peers)
  <2>1. SegmentOK(segment[h], chain[h], peers)
    BY DEF IInv, SegmentInv
  <2>2. CASE h = g
    BY <2>1, <2>2, <1>2 DEF SegmentOK, Live
  <2>3. CASE h # g
    BY <2>1, <2>3, <1>2
  <2> QED BY <2>2, <2>3
<1>4. SegmentInv'
  BY <1>3 DEF SegmentInv
<1>5. MemoryInv'
  BY DEF IInv, MemoryInv, Handles, MappedPages, PagesWith
<1>6. Live' = Live
  BY DEF Live
<1>7. chain' = [h \in Segments |-> chain'[h]]
  BY <1>1
<1> QED BY <1>4, <1>5, <1>6, <1>7

\* The graph's pool does not depend on the blocks.
LEMMA SameGraph ==
  ASSUME IInv, UNCHANGED <<segment, graph>>
  PROVE  GraphInv'
BY DEF IInv, GraphInv, Live

\* Kernels may finish.
LEMMA SameWork ==
  ASSUME IInv, work' \subseteq work, UNCHANGED <<scenario, segment, chain>>
  PROVE  WorkInv'
<1>1. ASSUME scenario.replay = "capture stream", NEW w \in work' PROVE WorkOK(w)'
  <2>1. WorkOK(w)
    BY <1>1 DEF IInv, WorkInv
  <2> QED BY <2>1 DEF WorkOK, Live
<1> QED BY <1>1 DEF WorkInv

\* A kernel that a block in use holds is held as long as the block is.
LEMMA KeepsHeld ==
  ASSUME NEW c, NEW d, NEW a, \A x \in DOMAIN c : x # a /\ ~allocatable(c[x])
                                     => x \in DOMAIN d /\ d[x] = c[x],
         NEW w, Held(w, c), w.kernel.lo # a
  PROVE  Held(w, d)
<1>1. w.kernel.lo \in DOMAIN c /\ ~allocatable(c[w.kernel.lo])
  BY DEF Held, allocatable
<1>2. w.kernel.lo \in DOMAIN d /\ d[w.kernel.lo] = c[w.kernel.lo]
  BY <1>1
<1> QED BY <1>2 DEF Held, End

\* The blocks in use other than the one at a stay as they are, and a kernel that waits
\* for that one does so still.
KeepsUsedBut(c, d, a) ==
  \A x \in DOMAIN c : x # a /\ ~allocatable(c[x]) => x \in DOMAIN d /\ d[x] = c[x]
StillHeld(g, a, c, d) ==
  \A w \in work : w.kernel.seg = g /\ w.kernel.lo = a /\ Held(w, c) => Held(w, d)

LEMMA ChainWork ==
  ASSUME IInv, NEW g \in Live, NEW d, chain' = [chain EXCEPT ![g] = d],
         UNCHANGED <<scenario, segment, work>>, NEW a,
         KeepsUsedBut(chain[g], d, a), StillHeld(g, a, chain[g], d)
  PROVE  WorkInv'
<1>1. chain'[g] = d /\ \A h \in Segments : h # g => chain'[h] = chain[h]
  BY DEF IInv, Types, Live
<1>2. ASSUME scenario.replay = "capture stream", NEW w \in work PROVE WorkOK(w)'
  <2>1. WorkOK(w)
    BY <1>2 DEF IInv, WorkInv
  <2>2. w.kernel.seg \in Segments
    BY <2>1 DEF WorkOK, Live
  <2>3. Held(w, chain[w.kernel.seg]) => Held(w, chain'[w.kernel.seg])
    <3>1. CASE w.kernel.seg # g
      BY <3>1, <2>2, <1>1
    <3>2. CASE w.kernel.seg = g /\ w.kernel.lo = a
      BY <3>2, <1>1 DEF StillHeld
    <3>3. CASE w.kernel.seg = g /\ w.kernel.lo # a
      <4>1. Held(w, chain[g]) => Held(w, d)
        BY <3>3, KeepsHeld DEF KeepsUsedBut
      <4> QED BY <4>1, <3>3, <1>1
    <3> QED BY <3>1, <3>2, <3>3
  <2> QED BY <2>1, <2>3 DEF WorkOK, Live
<1> QED BY <1>2 DEF WorkInv

-----------------------------------------------------------------------------
\* The actions that leave the memory as it is.

LEMMA ScenarioFacts ==
  ASSUME IInv
  PROVE  /\ scenario.streams \subseteq Streams /\ scenario.peers \subseteq Peers
         /\ scenario \in Scenarios
BY ScenarioAssumption DEF IInv, Types

LEMMA InitIInv == Init => IInv
<1> SUFFICES ASSUME Init PROVE IInv
  OBVIOUS
<1>1. NoSegment \in SegmentType
  BY DEF NoSegment, SegmentType
<1>2. Types
  <2>1. scenario \in Scenarios /\ faults \in 0..1
    BY ScenarioAssumption DEF Init
  <2>2. graph \in GraphType /\ call \in CallType
    BY DEF Init, GraphType, CallType, Idle
  <2>3. segment \in [Segments -> SegmentType] /\ chain = [g \in Segments |-> chain[g]]
    BY <1>1 DEF Init
  <2> QED BY <2>1, <2>2, <2>3 DEF Init, Types
<1>3. SegmentInv
  BY DEF Init, SegmentInv, SegmentOK, NoSegment
<1>4. Handles = {} /\ MappedPages = {}
  BY DEF Init, Handles, MappedPages, PagesWith, NoSegment
<1>5. MemoryInv
  <2>1. Cardinality({}) = 0 /\ PageSize * 0 = 0 /\ 0 <= Memory
    BY FS_EmptySet, SizeAssumption
  <2>2. \A g \in Segments : segment[g].handles = segment[g].mapped
    BY DEF Init, NoSegment
  <2> QED BY <1>4, <2>1, <2>2 DEF Init, MemoryInv
<1>6. CallInv
  BY DEF Init, CallInv, Idle, None
<1>7. GraphInv
  BY DEF Init, GraphInv, Live, NoSegment
<1>8. WorkInv
  BY DEF Init, WorkInv
<1> QED BY <1>2, <1>3, <1>5, <1>6, <1>7, <1>8 DEF IInv

LEMMA MallocInv ==
  ASSUME IInv, NEW s \in Streams, NEW n \in Requests, Malloc(s, n) PROVE IInv'
<1> USE DEF Malloc
<1>1. n \in Nat /\ n # 0
  BY SizeAssumption
<1>2. /\ call'.at \in {"search", "events"} /\ call'.stream = s /\ call'.size = n
      /\ call'.pool \in {"default", "graph"}
      /\ call'.pool = "graph" => graph.state = "capturing" /\ s = graph.stream
      /\ call' \in CallType
  BY DEF CallType, Idle, Capturing
<1>3. Types'
  BY <1>2 DEF IInv, Types, deviceVars
<1>4. SegmentInv' /\ MemoryInv' /\ GraphInv' /\ WorkInv'
  BY SameMemory, SameGraph, SameWork DEF deviceVars
<1>5. CallInv'
  BY <1>1, <1>2 DEF CallInv, None
<1> QED BY <1>3, <1>4, <1>5 DEF IInv

\* Steps of a call that is not mapping, and whose request stays.
LEMMA CallStep ==
  ASSUME IInv, UNCHANGED <<scenario, deviceVars, peers, graph, work>>, call' \in CallType,
         call'.at # "map", call' = Idle \/
           (/\ call'.stream = call.stream /\ call'.size = call.size /\ call'.pool = call.pool
            /\ call'.at \in {"events", "search", "find"} => call.size # 0)
  PROVE  IInv'
<1>1. Types'
  BY DEF IInv, Types, deviceVars
<1>2. SegmentInv' /\ MemoryInv' /\ GraphInv' /\ WorkInv'
  BY SameMemory, SameGraph, SameWork DEF deviceVars
<1>3. CallInv'
  BY DEF IInv, CallInv, Idle, None
<1> QED BY <1>1, <1>2, <1>3 DEF IInv

LEMMA EmptyCacheInv == IInv /\ EmptyCache => IInv'
<1> SUFFICES ASSUME IInv, EmptyCache PROVE IInv'
  OBVIOUS
<1>1. /\ call' \in CallType /\ call'.at = "sync" /\ call'.size = 0 /\ call'.pool = None
  BY DEF EmptyCache, CallType, Idle
<1>2. Types'
  BY <1>1 DEF IInv, Types, deviceVars, EmptyCache
<1>3. SegmentInv' /\ MemoryInv' /\ GraphInv' /\ WorkInv'
  BY SameMemory, SameGraph, SameWork DEF deviceVars, EmptyCache
<1>4. CallInv'
  BY <1>1 DEF CallInv, None
<1> QED BY <1>2, <1>3, <1>4 DEF IInv

LEMMA IdleType == Idle \in CallType
BY DEF Idle, CallType

LEMMA EventsInv == IInv /\ (ProcessEvents \/ SynchronizeEvents) => IInv'
<1> SUFFICES ASSUME IInv, ProcessEvents \/ SynchronizeEvents PROVE IInv'
  OBVIOUS
<1>1. UNCHANGED <<scenario, deviceVars, peers, graph, work>>
  BY DEF ProcessEvents, SynchronizeEvents
<1>2. call \in CallType
  BY DEF IInv, Types
<1>3. PICK at \in {"search", "release"} : call' = [call EXCEPT !.at = at]
  BY DEF ProcessEvents, SynchronizeEvents
<1>4. at = "search" => call.size # 0
  BY <1>2, <1>3 DEF ProcessEvents, SynchronizeEvents, IInv, CallInv, CallType
<1>5. /\ call' \in CallType /\ call'.at = at /\ call'.stream = call.stream
      /\ call'.size = call.size /\ call'.pool = call.pool
  BY <1>2, <1>3 DEF CallType
<1> QED BY <1>1, <1>4, <1>5, CallStep

LEMMA CompleteInv == \A w : IInv /\ Complete(w) => IInv'
<1> SUFFICES ASSUME IInv, NEW w, Complete(w) PROVE IInv'
  OBVIOUS
<1>1. Types'
  BY DEF IInv, Types, deviceVars, Complete
<1>2. SegmentInv' /\ MemoryInv' /\ GraphInv' /\ WorkInv' /\ Live' = Live
  BY SameMemory, SameGraph, SameWork DEF deviceVars, Complete
<1>3. CallInv'
  BY <1>2 DEF IInv, CallInv, Complete, deviceVars, HasSpace
<1> QED BY <1>1, <1>2, <1>3 DEF IInv

LEMMA CaptureInv ==
  IInv /\ ((\E s \in Streams : CaptureBegin(s)) \/ CaptureEnd \/ Reset) => IInv'
<1> SUFFICES ASSUME IInv, (\E s \in Streams : CaptureBegin(s)) \/ CaptureEnd \/ Reset
             PROVE  IInv'
  OBVIOUS
<1>1. UNCHANGED <<scenario, deviceVars, peers, call, work>> /\ call.at = "idle"
  BY DEF CaptureBegin, CaptureEnd, Reset, Ready
<1>2. graph \in GraphType
  BY DEF IInv, Types
<1>3. /\ graph' \in GraphType /\ graph'.kernels \subseteq graph.kernels
      /\ graph'.state # "none"
      /\ graph'.state \in {"capturing", "captured"} \/ graph'.kernels = {}
      /\ graph'.stream = graph.stream \/ graph.state = "none"
  <2>1. CASE \E s \in Streams : CaptureBegin(s)
    <3>1. PICK s \in Streams : CaptureBegin(s)
      BY <2>1
    <3>2. graph' = [graph EXCEPT !.state = "capturing", !.stream = s] /\ graph.state = "none"
      BY <3>1 DEF CaptureBegin
    <3> QED BY <1>2, <3>2 DEF GraphType
  <2>2. CASE CaptureEnd
    BY <1>2, <2>2 DEF CaptureEnd, GraphType
  <2>3. CASE Reset
    BY <1>2, <2>3 DEF Reset, GraphType
  <2> QED BY <2>1, <2>2, <2>3
<1>4. Types'
  BY <1>1, <1>3 DEF IInv, Types, deviceVars
<1>5. SegmentInv' /\ MemoryInv' /\ WorkInv' /\ Live' = Live
  BY <1>1, SameMemory, SameWork DEF deviceVars
<1>6. GraphInv'
  BY <1>1, <1>3, <1>5 DEF IInv, GraphInv, deviceVars
<1>7. CallInv'
  BY <1>1, <1>3 DEF IInv, CallInv
<1> QED BY <1>4, <1>5, <1>6, <1>7 DEF IInv

LEMMA LaunchInv ==
  ASSUME IInv, NEW g \in Live, NEW a \in DOMAIN chain[g], NEW s \in Streams, Launch(g, a, s)
  PROVE  IInv'
<1> DEFINE c == chain[g]
           kernel == [seg |-> g, lo |-> a, hi |-> End(c, a)]
<1>1. /\ g \in Segments /\ Chain(c) /\ BackedBy(c, segment[g].mapped)
      /\ segment[g].stream \in Streams
  BY LiveSegment
<1>2. a \in Nat /\ End(c, a) \in Nat /\ c[a] \in BlockType /\ BlockOK(c, a)
  BY <1>1, ChainFacts
<1>3. c[a].allocated /\ s \in {segment[g].stream} \cup c[a].uses /\ call.at = "idle"
      /\ UNCHANGED <<scenario, deviceVars, peers, call>>
  BY DEF Launch, Ready
<1>4. c[a].mapped
  BY <1>2, <1>3 DEF BlockOK, allocatable, BlockType
<1>5. Touched(a, End(c, a)) \subseteq segment[g].mapped
  BY <1>1, <1>4, UsedPages
<1>6. kernel \in KernelType /\ kernel.seg = g /\ kernel.lo = a /\ kernel.hi = End(c, a)
  BY <1>1, <1>2 DEF KernelType
<1> HIDE DEF kernel
<1>7. SegmentInv' /\ MemoryInv' /\ Live' = Live
  BY <1>3, SameMemory
<1>8. graph'.stream = graph.stream /\ graph'.state = graph.state => CallInv'
  BY <1>3 DEF IInv, CallInv
<1>9. CASE /\ Capturing /\ segment[g].pool = "graph" /\ UNCHANGED work
           /\ graph' = [graph EXCEPT !.kernels = graph.kernels \cup {kernel}]
  <2>1. graph \in GraphType
    BY DEF IInv, Types
  <2>2. /\ graph' \in GraphType /\ graph'.kernels = graph.kernels \cup {kernel}
        /\ graph'.state = "capturing" /\ graph.state = "capturing"
        /\ graph'.stream = graph.stream
    BY <1>6, <1>9, <2>1 DEF GraphType, Capturing
  <2>3. Types'
    BY <1>3, <1>9, <2>2 DEF IInv, Types, deviceVars
  <2>4. WorkInv'
    BY <1>3, <1>9, SameWork DEF deviceVars
  <2>5. GraphInv'
    BY <1>3, <1>5, <1>6, <1>7, <1>9, <2>2 DEF IInv, GraphInv, deviceVars
  <2> QED BY <1>7, <1>8, <2>2, <2>3, <2>4, <2>5 DEF IInv
<1>10. CASE /\ UNCHANGED graph
            /\ work' = work \cup {[kernel |-> kernel, stream |-> s, replay |-> FALSE]}
  <2> DEFINE w == [kernel |-> kernel, stream |-> s, replay |-> FALSE]
  <2>1. w \in WorkType /\ w.kernel = kernel /\ w.stream = s /\ ~w.replay
    BY <1>6 DEF WorkType
  <2> HIDE DEF w
  <2>2. work' = work \cup {w}
    BY <1>10 DEF w
  <2>3. Types'
    BY <1>3, <1>10, <2>1, <2>2 DEF IInv, Types, deviceVars
  <2>4. WorkOK(w)
    BY <1>3, <1>5, <1>6, <2>1 DEF WorkOK, Held
  <2>5. WorkInv'
    <3>1. ASSUME scenario.replay = "capture stream", NEW v \in work' PROVE WorkOK(v)'
      <4>1. WorkOK(v)
        BY <2>2, <2>4, <3>1 DEF IInv, WorkInv
      <4> QED BY <4>1, <1>3 DEF WorkOK, Live, deviceVars
    <3> QED BY <3>1, <1>3 DEF WorkInv
  <2>6. GraphInv'
    BY <1>3, <1>10, SameGraph DEF deviceVars
  <2> QED BY <1>7, <1>8, <1>10, <2>3, <2>5, <2>6 DEF IInv
<1> QED BY <1>9, <1>10 DEF Launch, kernel, Capturing

LEMMA ReplayInv == ASSUME IInv, NEW s \in Streams, Replay(s) PROVE IInv'
<1>1. UNCHANGED <<scenario, deviceVars, peers, graph, call>> /\ call.at = "idle"
      /\ (scenario.replay = "capture stream" => s = graph.stream)
  BY DEF Replay, Ready
<1> DEFINE new == {[kernel |-> k, stream |-> s, replay |-> TRUE] : k \in graph.kernels}
<1>2. work' = work \cup new
  BY DEF Replay
<1>3. ASSUME NEW v \in new
      PROVE  /\ v \in WorkType /\ v.kernel \in graph.kernels /\ v.stream = s
  <2>1. graph.kernels \subseteq KernelType
    BY DEF IInv, Types, GraphType
  <2>2. PICK k \in graph.kernels : v = [kernel |-> k, stream |-> s, replay |-> TRUE]
    OBVIOUS
  <2> QED BY <2>1, <2>2 DEF WorkType
<1> HIDE DEF new
<1>4. Types'
  BY <1>1, <1>2, <1>3 DEF IInv, Types, deviceVars
<1>5. SegmentInv' /\ MemoryInv' /\ Live' = Live /\ GraphInv'
  BY <1>1, SameMemory, SameGraph DEF deviceVars
<1>6. CallInv'
  BY <1>1 DEF IInv, CallInv
<1>7. ASSUME scenario.replay = "capture stream", NEW v \in work' PROVE WorkOK(v)'
  <2>1. WorkOK(v)
    <3>1. CASE v \in work
      BY <3>1, <1>7 DEF IInv, WorkInv
    <3>2. CASE v \in new
      BY <3>2, <1>1, <1>3, <1>7 DEF IInv, GraphInv, WorkOK
    <3> QED BY <3>1, <3>2, <1>2
  <2> QED BY <2>1, <1>1 DEF WorkOK, Live, deviceVars
<1>8. WorkInv'
  BY <1>1, <1>7 DEF WorkInv
<1> QED BY <1>4, <1>5, <1>6, <1>8 DEF IInv

-----------------------------------------------------------------------------
\* The actions on the memory of one segment that leave its pages.

\* addPeer gives the new device access to every handle.
LEMMA AddPeerAccessInv == ASSUME IInv, NEW p \in Peers, AddPeerAccess(p) PROVE IInv'
<1>1. /\ UNCHANGED <<scenario, chain, total, handle_type, graph, call, work, faults>>
      /\ peers' = peers \cup {p} /\ call.at = "idle"
      /\ segment' = [g \in Segments |->
           IF g \in Live
           THEN [segment[g] EXCEPT !.peers = segment[g].peers \cup {p},
                   !.access = segment[g].access \cup (segment[g].handles \X {p})]
           ELSE segment[g]]
  BY DEF AddPeerAccess, Ready
<1>2. ASSUME NEW g \in Segments
      PROVE  /\ segment'[g] \in SegmentType /\ segment'[g].live = segment[g].live
             /\ segment'[g].stream = segment[g].stream /\ segment'[g].pool = segment[g].pool
             /\ segment'[g].handles = segment[g].handles
             /\ segment'[g].mapped = segment[g].mapped /\ segment'[g].stray = segment[g].stray
             /\ g \notin Live => segment'[g] = segment[g]
             /\ g \in Live => /\ segment'[g].peers = segment[g].peers \cup {p}
                              /\ segment'[g].access = segment[g].access \cup (segment[g].handles \X {p})
  <2>1. segment[g] \in SegmentType
    BY DEF IInv, Types
  <2> QED BY <1>1, <2>1 DEF SegmentType
<1>3. Live' = Live
  BY <1>2 DEF Live
<1>4. Types'
  <2>1. segment' = [g \in Segments |-> segment'[g]]
    BY <1>1
  <2>2. segment' \in [Segments -> SegmentType]
    BY <1>2, <2>1
  <2> QED BY <1>1, <2>2 DEF IInv, Types
<1>5. SegmentInv'
  <2>1. ASSUME NEW g \in Segments PROVE SegmentOK(segment'[g], chain[g], peers')
    <3>1. SegmentOK(segment[g], chain[g], peers)
      BY DEF IInv, SegmentInv
    <3>2. CASE g \in Live
      <4>1. /\ Chain(chain[g]) /\ Coalesced(chain[g]) /\ BackedBy(chain[g], segment[g].mapped)
            /\ segment[g].mapped \cup segment[g].stray \subseteq segment[g].handles
            /\ segment[g].mapped \cap segment[g].stray = {}
            /\ segment[g].stream \in Streams /\ segment[g].peers = peers
            /\ segment[g].mapped \X peers \subseteq segment[g].access /\ segment[g].live
        BY <3>2, LiveSegment
      <4>2. segment[g].mapped \X (peers \cup {p})
              \subseteq segment[g].access \cup (segment[g].handles \X {p})
        BY <4>1
      <4>3. /\ segment'[g].live /\ segment'[g].mapped = segment[g].mapped
            /\ segment'[g].handles = segment[g].handles
            /\ segment'[g].stray = segment[g].stray
            /\ segment'[g].stream = segment[g].stream /\ segment'[g].peers = peers'
            /\ segment'[g].mapped \X peers' \subseteq segment'[g].access
        <5>1. /\ segment'[g].live /\ segment'[g].mapped = segment[g].mapped
              /\ segment'[g].handles = segment[g].handles
              /\ segment'[g].stray = segment[g].stray
              /\ segment'[g].stream = segment[g].stream
          BY <4>1, <1>2
        <5>2. /\ segment'[g].peers = segment[g].peers \cup {p}
              /\ segment'[g].access = segment[g].access \cup (segment[g].handles \X {p})
          BY <3>2, <1>2
        <5> QED BY <4>1, <4>2, <5>1, <5>2, <1>1
      <4> QED BY <4>1, <4>3 DEF SegmentOK
    <3>3. CASE g \notin Live
      BY <3>1, <3>3, <1>2 DEF SegmentOK, Live
    <3> QED BY <3>2, <3>3
  <2> QED BY <2>1, <1>1 DEF SegmentInv
<1>6. MemoryInv'
  <2>1. Handles' = Handles /\ MappedPages' = MappedPages
    BY <1>2 DEF Handles, MappedPages, PagesWith
  <2> QED BY <2>1, <1>1, <1>2 DEF IInv, MemoryInv
<1>7. CallInv'
  BY <1>1, <1>3 DEF IInv, CallInv
<1>8. GraphInv'
  <2>1. \A k \in graph.kernels : k.seg \in Segments
    BY DEF IInv, GraphInv, Live
  <2>2. ASSUME NEW h \in Live, segment'[h].pool = "graph"
        PROVE  segment'[h].stream = graph.stream /\ graph.state # "none"
    <3>1. h \in Segments
      BY DEF Live
    <3> QED BY <2>2, <3>1, <1>2, <1>3 DEF IInv, GraphInv
  <2>3. ASSUME NEW k \in graph.kernels
        PROVE  /\ k.seg \in Live /\ segment'[k.seg].pool = "graph"
               /\ Touched(k.lo, k.hi) \subseteq segment'[k.seg].mapped
    BY <2>1, <1>2, <1>3 DEF IInv, GraphInv
  <2>4. graph.state \notin {"capturing", "captured"} => graph.kernels = {}
    BY DEF IInv, GraphInv
  <2>5. graph' = graph
    BY <1>1
  <2> QED BY <2>2, <2>3, <2>4, <2>5, <1>3 DEF GraphInv
<1>9. WorkInv'
  <2>1. ASSUME scenario.replay = "capture stream", NEW w \in work PROVE WorkOK(w)'
    <3>1. WorkOK(w)
      BY <2>1 DEF IInv, WorkInv
    <3> QED BY <3>1, <1>1, <1>2, <1>3 DEF WorkOK, Live
  <2> QED BY <2>1, <1>1 DEF WorkInv
<1> QED BY <1>4, <1>5, <1>6, <1>7, <1>8, <1>9 DEF IInv

LEMMA ShareIpcHandleInv ==
  ASSUME IInv, NEW g \in Live, NEW a \in DOMAIN chain[g], ShareIpcHandle(g, a) PROVE IInv'
<1> DEFINE more == Touched(a, End(chain[g], a))
<1>1. /\ UNCHANGED <<scenario, chain, total, peers, handle_type, graph, call, work, faults>>
      /\ call.at = "idle"
      /\ segment' = [segment EXCEPT ![g].shared = segment[g].shared \cup more]
  BY DEF ShareIpcHandle, Ready
<1>2. more \subseteq PageIds /\ g \in Segments
  BY LiveSegment, BlockPages
<1> HIDE DEF more
<1>3. ASSUME NEW h \in Segments
      PROVE  /\ segment'[h] \in SegmentType /\ segment'[h].live = segment[h].live
             /\ segment'[h].stream = segment[h].stream /\ segment'[h].pool = segment[h].pool
             /\ segment'[h].handles = segment[h].handles
             /\ segment'[h].mapped = segment[h].mapped /\ segment'[h].stray = segment[h].stray
             /\ segment'[h].peers = segment[h].peers /\ segment'[h].access = segment[h].access
             /\ h \notin Live => segment'[h] = segment[h]
  <2>1. segment[h] \in SegmentType /\ segment \in [Segments -> SegmentType]
    BY DEF IInv, Types
  <2> QED BY <1>1, <1>2, <2>1 DEF SegmentType
<1>4. Live' = Live
  BY <1>3 DEF Live
<1>5. Types'
  <2>1. segment' \in [Segments -> SegmentType]
    <3>1. segment \in [Segments -> SegmentType]
      BY DEF IInv, Types
    <3>2. segment' = [h \in Segments |-> segment'[h]]
      BY <1>1, <3>1
    <3> QED BY <1>3, <3>2
  <2> QED BY <1>1, <2>1 DEF IInv, Types
<1>6. SegmentInv'
  <2>1. ASSUME NEW h \in Segments PROVE SegmentOK(segment'[h], chain[h], peers)
    <3>1. SegmentOK(segment[h], chain[h], peers)
      BY DEF IInv, SegmentInv
    <3> QED BY <3>1, <1>3 DEF SegmentOK, Live
  <2> QED BY <2>1, <1>1 DEF SegmentInv
<1>7. MemoryInv'
  <2>1. Handles' = Handles /\ MappedPages' = MappedPages
    BY <1>3 DEF Handles, MappedPages, PagesWith
  <2> QED BY <2>1, <1>1, <1>3 DEF IInv, MemoryInv
<1>8. CallInv'
  BY <1>1, <1>4 DEF IInv, CallInv
<1>9. GraphInv'
  <2>1. \A k \in graph.kernels : k.seg \in Segments
    BY DEF IInv, GraphInv, Live
  <2>2. ASSUME NEW h \in Live, segment'[h].pool = "graph"
        PROVE  segment'[h].stream = graph.stream /\ graph.state # "none"
    <3>1. h \in Segments
      BY DEF Live
    <3> QED BY <2>2, <3>1, <1>3, <1>4 DEF IInv, GraphInv
  <2>3. ASSUME NEW k \in graph.kernels
        PROVE  /\ k.seg \in Live /\ segment'[k.seg].pool = "graph"
               /\ Touched(k.lo, k.hi) \subseteq segment'[k.seg].mapped
    BY <2>1, <1>3, <1>4 DEF IInv, GraphInv
  <2>4. graph.state \notin {"capturing", "captured"} => graph.kernels = {}
    BY DEF IInv, GraphInv
  <2>5. graph' = graph
    BY <1>1
  <2> QED BY <2>2, <2>3, <2>4, <2>5, <1>4 DEF GraphInv
<1>10. WorkInv'
  <2>1. ASSUME scenario.replay = "capture stream", NEW w \in work PROVE WorkOK(w)'
    <3>1. WorkOK(w)
      BY <2>1 DEF IInv, WorkInv
    <3> QED BY <3>1, <1>1, <1>3, <1>4 DEF WorkOK, Live
  <2> QED BY <2>1, <1>1 DEF WorkInv
<1> QED BY <1>5, <1>6, <1>7, <1>8, <1>9, <1>10 DEF IInv

-----------------------------------------------------------------------------
\* The actions on the blocks of one segment.

LEMMA ChainStep ==
  ASSUME IInv, NEW g \in Live, NEW d, Chain(d), Coalesced(d),
         BackedBy(d, segment[g].mapped), chain' = [chain EXCEPT ![g] = d],
         UNCHANGED <<scenario, segment, total, peers, handle_type, faults, work>>,
         graph' \in GraphType, graph'.state = graph.state, graph'.stream = graph.stream,
         graph'.kernels = graph.kernels,
         call' = Idle \/ (call' = call /\ call.at # "map"), WorkInv'
  PROVE  IInv'
<1>1. SegmentInv' /\ MemoryInv' /\ Live' = Live /\ (chain = [h \in Segments |-> chain[h]])'
  BY SegmentChain
<1>2. Types'
  BY <1>1, IdleType DEF IInv, Types
<1>3. CallInv'
  BY DEF IInv, CallInv, Idle, None
<1>4. GraphInv'
  BY <1>1 DEF IInv, GraphInv
<1> QED BY <1>1, <1>2, <1>3, <1>4 DEF IInv

LEMMA RecordStreamInv ==
  ASSUME IInv, NEW g \in Live, NEW a \in DOMAIN chain[g], NEW s \in Streams,
         RecordStream(g, a, s)
  PROVE  IInv'
<1>1. PICK c : c = chain[g]
  OBVIOUS
<1>2. /\ g \in Segments /\ Chain(c) /\ Coalesced(c) /\ BackedBy(c, segment[g].mapped)
  BY <1>1, LiveSegment
<1>3. PICK b : b = [c[a] EXCEPT !.uses = c[a].uses \cup {s}]
  OBVIOUS
<1>4. PICK d : d = [c EXCEPT ![a] = b]
  OBVIOUS
<1>5. /\ chain' = [chain EXCEPT ![g] = d] /\ c[a].allocated /\ call.at = "idle"
      /\ UNCHANGED <<scenario, segment, total, peers, handle_type, graph, call, work, faults>>
  BY <1>1, <1>3, <1>4 DEF RecordStream, Ready
<1>6. c[a] \in BlockType /\ BlockOK(c, a)
  BY <1>1, <1>2, ChainFacts
<1>7. /\ b \in BlockType /\ b.size = c[a].size /\ b.mapped = c[a].mapped /\ b.allocated
      /\ b.events = c[a].events /\ c[a].uses \subseteq b.uses
  BY <1>3, <1>5, <1>6 DEF BlockType
<1>8. c[a].mapped /\ ~allocatable(b) /\ b.events = {}
  BY <1>5, <1>6, <1>7 DEF BlockOK, allocatable, BlockType
<1>9. Chain(d) /\ Coalesced(d) /\ BackedBy(d, segment[g].mapped)
  BY <1>1, <1>2, <1>4, <1>7, <1>8, UseChain
<1>10. /\ DOMAIN d = DOMAIN c /\ d[a] = b /\ End(d, a) = End(c, a)
       /\ \A x \in DOMAIN c : x # a => d[x] = c[x]
  BY <1>1, <1>4, <1>7 DEF End
<1>11. StillHeld(g, a, c, d) /\ KeepsUsedBut(c, d, a)
  BY <1>7, <1>10 DEF Held, StillHeld, KeepsUsedBut
<1>12. WorkInv'
  BY <1>1, <1>5, <1>11, ChainWork
<1>13. graph \in GraphType
  BY DEF IInv, Types
<1> QED BY <1>5, <1>9, <1>12, <1>13, ChainStep

\* The kernels that wait for a block held it through its events; when none is left the
\* block is cached.
Unheld(g, a, c) == \A w \in work : ~(w.kernel.seg = g /\ w.kernel.lo = a /\ Held(w, c))

LEMMA CacheStep ==
  ASSUME IInv, NEW g \in Live, NEW c, c = chain[g], NEW a \in DOMAIN c, c[a].mapped,
         NEW b \in BlockType, b.size = c[a].size, b.mapped, allocatable(b),
         NEW d, d = Merged([c EXCEPT ![a] = b], a),
         chain' = [chain EXCEPT ![g] = d],
         Unheld(g, a, c),
         UNCHANGED <<scenario, segment, total, peers, handle_type, graph, call, work, faults>>,
         call.at # "map"
  PROVE  IInv'
<1>1. /\ g \in Segments /\ Chain(c) /\ Coalesced(c) /\ BackedBy(c, segment[g].mapped)
  BY LiveSegment
<1>2. Chain(d) /\ Coalesced(d) /\ BackedBy(d, segment[g].mapped) /\ KeepsUsedBut(c, d, a)
  BY <1>1, CacheChain DEF KeepsUsedBut
<1>3. StillHeld(g, a, c, d)
  BY DEF StillHeld, Unheld
<1>5. WorkInv'
  BY <1>2, <1>3, ChainWork
<1>4. graph \in GraphType
  BY DEF IInv, Types
<1> QED BY <1>2, <1>4, <1>5, ChainStep

LEMMA FreeBlockInv ==
  ASSUME IInv, NEW g \in Live, NEW a \in DOMAIN chain[g], FreeBlock(g, a) PROVE IInv'
<1>1. PICK c : c = chain[g]
  OBVIOUS
<1>2. PICK b : b = [c[a] EXCEPT !.uses = {}, !.events = {}]
  OBVIOUS
<1>3. PICK d : d = Merged([c EXCEPT ![a] = b], a)
  OBVIOUS
<1>4. /\ chain' = [chain EXCEPT ![g] = d] /\ call.at \in {"events", "sync"}
      /\ Pending(c[a]) /\ Happened(g, a)
      /\ UNCHANGED <<scenario, segment, total, peers, handle_type, graph, call, work, faults>>
  BY <1>1, <1>2, <1>3 DEF FreeBlock
<1>5. Chain(c)
  BY <1>1, LiveSegment
<1>6. c[a] \in BlockType /\ BlockOK(c, a)
  BY <1>1, <1>5, ChainFacts
<1>7. c[a].mapped /\ ~c[a].allocated
  BY <1>4, <1>6 DEF BlockOK, Pending, BlockType
<1>8. /\ b \in BlockType /\ b.size = c[a].size /\ b.mapped /\ allocatable(b)
  BY <1>2, <1>6, <1>7 DEF BlockType, allocatable
<1>9. ASSUME NEW w \in work, w.kernel.seg = g, w.kernel.lo = a, Held(w, c) PROVE FALSE
  <2>1. w.kernel.hi = End(c, a) /\ ~w.replay /\ w.stream \in c[a].uses \cup c[a].events
    BY <1>9 DEF Held
  <2>2. w.kernel \in KernelType
    BY DEF IInv, Types, WorkType
  <2>3. w.kernel = [seg |-> g, lo |-> a, hi |-> End(c, a)]
    BY <2>1, <2>2, <1>9 DEF KernelType
  <2> QED BY <2>1, <2>3, <1>1, <1>4 DEF Happened
<1>10. Unheld(g, a, c)
  BY <1>9 DEF Unheld
<1> QED BY <1>1, <1>3, <1>4, <1>7, <1>8, <1>10, CacheStep

LEMMA FreeInv ==
  ASSUME IInv, NEW g \in Live, NEW a \in DOMAIN chain[g], Free(g, a) PROVE IInv'
<1>1. PICK c : c = chain[g]
  OBVIOUS
<1>2. /\ c[a].allocated /\ call.at = "idle"
      /\ UNCHANGED <<scenario, segment, total, peers, handle_type, graph, call, work, faults>>
  BY <1>1 DEF Free, Ready
<1>3. Chain(c) /\ Coalesced(c) /\ BackedBy(c, segment[g].mapped)
  BY <1>1, LiveSegment
<1>4. c[a] \in BlockType /\ BlockOK(c, a)
  BY <1>1, <1>3, ChainFacts
<1>5. c[a].mapped /\ c[a].events = {}
  BY <1>2, <1>4 DEF BlockOK, allocatable, BlockType
<1>6. CASE c[a].uses = {}
  <2>1. PICK b : b = [c[a] EXCEPT !.allocated = FALSE]
    OBVIOUS
  <2>2. PICK d : d = Merged([c EXCEPT ![a] = b], a)
    OBVIOUS
  <2>3. chain' = [chain EXCEPT ![g] = d]
    BY <1>1, <1>6, <2>1, <2>2 DEF Free
  <2>4. b \in BlockType /\ b.size = c[a].size /\ b.mapped /\ allocatable(b)
    BY <1>4, <1>5, <1>6, <2>1 DEF BlockType, allocatable
  <2>5. Unheld(g, a, c)
    BY <1>5, <1>6 DEF Held, Unheld
  <2> QED BY <1>1, <1>2, <1>5, <2>2, <2>3, <2>4, <2>5, CacheStep
<1>7. CASE c[a].uses # {}
  <2>1. PICK b : b = IF Capturing THEN [c[a] EXCEPT !.allocated = FALSE]
                     ELSE [c[a] EXCEPT !.allocated = FALSE, !.uses = {}, !.events = c[a].uses]
    OBVIOUS
  <2>2. PICK d : d = [c EXCEPT ![a] = b]
    OBVIOUS
  <2>3. chain' = [chain EXCEPT ![g] = d]
    BY <1>1, <1>7, <2>1, <2>2 DEF Free
  <2>4. /\ b \in BlockType /\ b.size = c[a].size /\ b.mapped /\ ~b.allocated
        /\ b.uses \cup b.events = c[a].uses \cup c[a].events
    BY <1>4, <1>5, <2>1 DEF BlockType
  <2>5. ~allocatable(b)
    BY <1>7, <2>4 DEF allocatable
  <2>6. Chain(d) /\ Coalesced(d) /\ BackedBy(d, segment[g].mapped)
    BY <1>1, <1>3, <1>5, <2>2, <2>4, <2>5, UseChain
  <2>7. /\ DOMAIN d = DOMAIN c /\ d[a] = b /\ End(d, a) = End(c, a)
        /\ \A x \in DOMAIN c : x # a => d[x] = c[x]
    BY <1>1, <2>2, <2>4 DEF End
  <2>8. StillHeld(g, a, c, d) /\ KeepsUsedBut(c, d, a)
    BY <2>4, <2>7 DEF Held, StillHeld, KeepsUsedBut
  <2>9. WorkInv'
    BY <1>1, <1>2, <2>3, <2>8, ChainWork
  <2>10. graph \in GraphType
    BY DEF IInv, Types
  <2> QED BY <1>2, <2>3, <2>6, <2>9, <2>10, ChainStep
<1> QED BY <1>6, <1>7

\* alloc_found_block takes a cached block for the request, whatever becomes of count.
LEMMA AllocStep ==
  ASSUME IInv, NEW g \in Live, NEW a \in DOMAIN chain[g], alloc_found_block(g, a),
         chain[g][a].mapped, allocatable(chain[g][a]), call.size \in Nat, call.size # 0,
         UNCHANGED <<scenario, segment, total, peers, handle_type, faults, work>>,
         graph' \in GraphType, graph'.state = graph.state, graph'.stream = graph.stream,
         graph'.kernels = graph.kernels, call' = Idle
  PROVE  IInv'
<1>1. PICK c : c = chain[g]
  OBVIOUS
<1>2. Chain(c) /\ Coalesced(c) /\ BackedBy(c, segment[g].mapped)
  BY <1>1, LiveSegment
<1>3. PICK n : n = call.size
  OBVIOUS
<1>4. PICK d : d = [Split(c, a, n) EXCEPT ![a] = [Split(c, a, n)[a] EXCEPT !.allocated = TRUE]]
  OBVIOUS
<1>5. chain' = [chain EXCEPT ![g] = d]
  BY <1>1, <1>3, <1>4 DEF alloc_found_block
<1>6. n \in Int /\ n >= 1
  BY <1>3
<1>7. Chain(d) /\ Coalesced(d) /\ KeepsUsed(c, d) /\ BackedBy(d, segment[g].mapped)
  BY <1>1, <1>2, <1>4, <1>6, AllocChain
<1>8. StillHeld(g, a, c, d) /\ KeepsUsedBut(c, d, a)
  BY <1>1, <1>7 DEF Held, allocatable, StillHeld, KeepsUsedBut, KeepsUsed
<1>9. WorkInv'
  BY <1>1, <1>5, <1>8, ChainWork
<1> QED BY <1>5, <1>7, <1>9, ChainStep

LEMMA GetFreeBlockInv == IInv /\ GetFreeBlock => IInv'
<1> SUFFICES ASSUME IInv, GetFreeBlock PROVE IInv'
  OBVIOUS
<1>1. /\ call.at = "search"
      /\ UNCHANGED <<scenario, segment, total, peers, handle_type, graph, work, faults>>
  BY DEF GetFreeBlock
<1>2. call \in CallType /\ call.size \in Nat /\ call.size # 0 /\ graph \in GraphType
  BY <1>1, SizeAssumption DEF IInv, Types, CallInv, CallType
<1>3. CASE \E x \in Fitting : alloc_found_block(x[1], x[2]) /\ call' = Idle
  <2>1. PICK x \in Fitting : alloc_found_block(x[1], x[2]) /\ call' = Idle
    BY <1>3
  <2>2. x \in AllBlocks /\ allocatable(BlockAt(x)) /\ BlockAt(x).mapped
    BY DEF Fitting
  <2>3. x[1] \in Live /\ x[2] \in DOMAIN chain[x[1]]
    BY <2>2 DEF AllBlocks
  <2> QED BY <1>1, <1>2, <2>1, <2>2, <2>3, AllocStep DEF BlockAt
<1>4. CASE call' = [call EXCEPT !.at = "find"] /\ UNCHANGED chain
  <2>1. /\ call' \in CallType /\ call'.at = "find" /\ call'.stream = call.stream
        /\ call'.size = call.size /\ call'.pool = call.pool
    BY <1>2, <1>4 DEF CallType
  <2> QED BY <1>1, <1>2, <1>4, <2>1, CallStep DEF deviceVars
<1> QED BY <1>3, <1>4 DEF GetFreeBlock

LEMMA AllocBlockInv == IInv /\ AllocBlock => IInv'
<1> SUFFICES ASSUME IInv, AllocBlock PROVE IInv'
  OBVIOUS
<1>1. /\ call.at = "map" /\ LargeEnough /\ alloc_found_block(call.seg, call.pos)
      /\ call' = Idle
      /\ UNCHANGED <<scenario, segment, total, peers, handle_type, work, faults>>
  BY DEF AllocBlock
<1>2. call \in CallType /\ call.size \in Nat /\ call.size # 0 /\ graph \in GraphType
  BY <1>1, SizeAssumption DEF IInv, Types, CallInv, CallType
<1>3. /\ call.seg \in Live /\ call.pos \in DOMAIN chain[call.seg]
      /\ HasSpace(chain[call.seg], call.pos)
  BY <1>1 DEF IInv, CallInv
<1>4. call.pos \in Nat
  BY <1>2 DEF CallType
<1>5. allocatable(chain[call.seg][call.pos])
  BY <1>2, <1>3, <1>4 DEF HasSpace
<1>6. chain[call.seg][call.pos].mapped
  BY <1>1 DEF LargeEnough, Candidate
<1>7. /\ graph' \in GraphType /\ graph'.state = graph.state /\ graph'.stream = graph.stream
      /\ graph'.kernels = graph.kernels
  BY <1>2 DEF AllocBlock, GraphType
<1> QED BY <1>1, <1>2, <1>3, <1>5, <1>6, <1>7, AllocStep

-----------------------------------------------------------------------------
\* The actions on a segment and its blocks.

\* One segment becomes s, with the blocks d.
OneSegment(g, s, d) ==
  /\ segment' \in [Segments -> SegmentType] /\ chain' = [h \in Segments |-> chain'[h]]
  /\ segment'[g] = s /\ chain'[g] = d
  /\ \A h \in Segments : h # g => segment'[h] = segment[h] /\ chain'[h] = chain[h]
  /\ Live' = IF s.live THEN Live \cup {g} ELSE Live \ {g}
  /\ SegmentInv'

LEMMA SegmentStep ==
  ASSUME IInv, NEW g \in Segments, NEW s \in SegmentType, NEW d, SegmentOK(s, d, peers),
         segment' = [segment EXCEPT ![g] = s], chain' = [chain EXCEPT ![g] = d],
         peers' = peers
  PROVE  OneSegment(g, s, d)
<1>1. segment \in [Segments -> SegmentType] /\ chain = [h \in Segments |-> chain[h]]
  BY DEF IInv, Types
<1>2. /\ segment' \in [Segments -> SegmentType] /\ chain' = [h \in Segments |-> chain'[h]]
      /\ segment'[g] = s /\ chain'[g] = d
      /\ \A h \in Segments : h # g => segment'[h] = segment[h] /\ chain'[h] = chain[h]
  BY <1>1
<1>3. Live' = IF s.live THEN Live \cup {g} ELSE Live \ {g}
  BY <1>2 DEF Live
<1>4. ASSUME NEW h \in Segments PROVE SegmentOK(segment'[h], chain'[h], peers')
  <2>1. SegmentOK(segment[h], chain[h], peers)
    BY DEF IInv, SegmentInv
  <2> QED BY <2>1, <1>2
<1>5. SegmentInv'
  BY <1>4 DEF SegmentInv
<1> QED BY <1>2, <1>3, <1>5 DEF OneSegment

LEMMA StartAtFacts ==
  ASSUME NEW c, NEW a \in DOMAIN c
  PROVE  StartAt(c, a) \in DOMAIN c
BY DEF StartAt

LEMMA FindExpandableBlockInv == IInv /\ FindExpandableBlock => IInv'
<1> SUFFICES ASSUME IInv, FindExpandableBlock PROVE IInv'
  OBVIOUS
<1>1. /\ call.at = "find"
      /\ UNCHANGED <<scenario, total, peers, handle_type, graph, work, faults>>
  BY DEF FindExpandableBlock
<1>2. /\ call \in CallType /\ call.size \in Nat /\ call.size # 0 /\ call.size <= RangeSize
      /\ call.stream \in Streams /\ call.pool # None
      /\ (call.pool = "graph" => call.stream = graph.stream /\ graph.state # "none")
  BY <1>1, SizeAssumption DEF IInv, Types, CallInv, CallType, RangeSize
<1>3. CASE call' = Idle /\ UNCHANGED <<segment, chain>>
  BY <1>1, <1>3, CallStep, IdleType DEF deviceVars, Idle
<1>4. CASE /\ UNCHANGED <<segment, chain>>
           /\ \E x \in AllBlocks :
                /\ HasSpace(chain[x[1]], StartAt(chain[x[1]], x[2]))
                /\ call' = [call EXCEPT !.at = "map", !.seg = x[1],
                                        !.pos = StartAt(chain[x[1]], x[2])]
  <2>1. PICK x \in AllBlocks :
          /\ HasSpace(chain[x[1]], StartAt(chain[x[1]], x[2]))
          /\ call' = [call EXCEPT !.at = "map", !.seg = x[1],
                                  !.pos = StartAt(chain[x[1]], x[2])]
    BY <1>4
  <2>0. PICK g \in Live : x \in {g} \X DOMAIN chain[g]
    BY DEF AllBlocks
  <2>2. PICK a \in DOMAIN chain[g] : x = <<g, a>>
    BY <2>0
  <2>3. PICK p : p = StartAt(chain[g], a)
    OBVIOUS
  <2>4. p \in DOMAIN chain[g] /\ p \in Nat /\ g \in Segments
    BY <2>3, StartAtFacts, LiveSegment, ChainFacts
  <2>5. HasSpace(chain[g], p) /\ call' = [call EXCEPT !.at = "map", !.seg = g, !.pos = p]
    BY <2>1, <2>2, <2>3
  <2>6. /\ call' \in CallType /\ call'.at = "map" /\ call'.stream = call.stream
        /\ call'.size = call.size /\ call'.pool = call.pool /\ call'.seg = g /\ call'.pos = p
    BY <1>2, <2>4, <2>5 DEF CallType
  <2>7. Types'
    BY <1>1, <1>4, <2>6 DEF IInv, Types
  <2>8. SegmentInv' /\ MemoryInv' /\ GraphInv' /\ WorkInv' /\ Live' = Live
    BY <1>1, <1>4, SameMemory, SameGraph, SameWork DEF deviceVars
  <2>9. HasSpace(chain[g], p)'
    BY <1>4, <2>5, <2>6 DEF HasSpace
  <2>10. CallInv'
    BY <1>1, <1>2, <1>4, <2>4, <2>6, <2>8, <2>9 DEF CallInv
  <2> QED BY <2>7, <2>8, <2>10 DEF IInv
<1>5. CASE \E g \in Segments \ Live :
             /\ segment' = [segment EXCEPT ![g] =
                  [NoSegment EXCEPT !.live = TRUE, !.stream = call.stream,
                                    !.pool = call.pool, !.peers = peers]]
             /\ chain' = [chain EXCEPT ![g] = [a \in {0} |-> Block(RangeSize, FALSE)]]
             /\ call' = [call EXCEPT !.at = "map", !.seg = g, !.pos = 0]
  <2>1. PICK g \in Segments \ Live :
             /\ segment' = [segment EXCEPT ![g] =
                  [NoSegment EXCEPT !.live = TRUE, !.stream = call.stream,
                                    !.pool = call.pool, !.peers = peers]]
             /\ chain' = [chain EXCEPT ![g] = [a \in {0} |-> Block(RangeSize, FALSE)]]
             /\ call' = [call EXCEPT !.at = "map", !.seg = g, !.pos = 0]
    BY <1>5
  <2>2. PICK s : s = [NoSegment EXCEPT !.live = TRUE, !.stream = call.stream,
                                       !.pool = call.pool, !.peers = peers]
    OBVIOUS
  <2>3. /\ s \in SegmentType /\ s.live /\ s.stream = call.stream /\ s.pool = call.pool
        /\ s.peers = peers /\ s.handles = {} /\ s.mapped = {} /\ s.access = {}
        /\ s.stray = {}
    BY <1>2, <2>2 DEF NoSegment, SegmentType, CallType, IInv, Types
  <2>4. PICK d : d = [a \in {0} |-> Block(RangeSize, FALSE)]
    OBVIOUS
  <2>5. /\ Chain(d) /\ Coalesced(d) /\ BackedBy(d, {}) /\ 0 \in DOMAIN d
        /\ \A b \in DOMAIN d : allocatable(d[b])
    BY <1>2, <2>4, NewChain
  <2>6. segment' = [segment EXCEPT ![g] = s] /\ chain' = [chain EXCEPT ![g] = d]
    BY <2>1, <2>2, <2>4
  <2>7. SegmentOK(s, d, peers)
    BY <1>2, <2>3, <2>5 DEF SegmentOK
  <2>8. OneSegment(g, s, d)
    BY <1>1, <2>3, <2>6, <2>7, SegmentStep
  <2>9. /\ segment' \in [Segments -> SegmentType] /\ chain' = [h \in Segments |-> chain'[h]]
        /\ segment'[g] = s /\ chain'[g] = d
        /\ \A h \in Segments : h # g => segment'[h] = segment[h] /\ chain'[h] = chain[h]
        /\ Live' = Live \cup {g} /\ SegmentInv'
    BY <2>3, <2>8 DEF OneSegment
  <2>10. segment[g].handles = {} /\ segment[g].mapped = {}
    BY DEF IInv, SegmentInv, SegmentOK, Live, NoSegment
  <2>11. /\ call' \in CallType /\ call'.at = "map" /\ call'.stream = call.stream
         /\ call'.size = call.size /\ call'.pool = call.pool /\ call'.seg = g /\ call'.pos = 0
    BY <1>2, <2>1 DEF CallType
  <2>12. Types'
    BY <1>1, <2>9, <2>11 DEF IInv, Types
  <2>13. MemoryInv'
    <3>1. Handles' = Handles /\ MappedPages' = MappedPages
      BY <2>3, <2>9, <2>10 DEF Handles, MappedPages, PagesWith
    <3>2. \A h \in Segments :
            segment[h].handles = segment[h].mapped => segment'[h].handles = segment'[h].mapped
      BY <2>3, <2>9
    <3> QED BY <1>1, <3>1, <3>2 DEF IInv, MemoryInv
  <2>14. CallInv'
    <3>1. HasSpace(d, 0)'
      BY <1>2, <2>5, <2>11, RangeFacts DEF HasSpace
    <3> QED BY <1>1, <1>2, <2>5, <2>9, <2>11, <3>1 DEF CallInv
  <2>15. GraphInv'
    <3>1. ASSUME NEW h \in Live', segment'[h].pool = "graph"
          PROVE  segment'[h].stream = graph.stream /\ graph.state # "none"
      <4>1. CASE h = g
        BY <4>1, <3>1, <2>3, <2>9, <1>2
      <4>2. CASE h # g
        <5>1. h \in Live /\ h \in Segments
          BY <4>2, <2>9 DEF Live
        <5> QED BY <4>2, <5>1, <3>1, <2>9 DEF IInv, GraphInv
      <4> QED BY <4>1, <4>2
    <3>2. ASSUME NEW k \in graph.kernels
          PROVE  /\ k.seg \in Live' /\ segment'[k.seg].pool = "graph"
                 /\ Touched(k.lo, k.hi) \subseteq segment'[k.seg].mapped
      <4>1. k.seg \in Live /\ k.seg \in Segments /\ k.seg # g
        BY DEF IInv, GraphInv, Live
      <4> QED BY <4>1, <2>9 DEF IInv, GraphInv
    <3>3. graph.state \notin {"capturing", "captured"} => graph.kernels = {}
      BY DEF IInv, GraphInv
    <3>4. graph' = graph
      BY <1>1
    <3> QED BY <3>1, <3>2, <3>3, <3>4 DEF GraphInv
  <2>16. WorkInv'
    <3>1. ASSUME scenario.replay = "capture stream", NEW w \in work PROVE WorkOK(w)'
      <4>1. WorkOK(w)
        BY <3>1 DEF IInv, WorkInv
      <4>2. w.kernel.seg \in Live /\ w.kernel.seg \in Segments /\ w.kernel.seg # g
        BY <4>1 DEF WorkOK, Live
      <4> QED BY <4>1, <4>2, <2>9 DEF WorkOK
    <3> QED BY <3>1, <1>1 DEF WorkInv
  <2> QED BY <2>9, <2>12, <2>13, <2>14, <2>15, <2>16 DEF IInv
<1> QED BY <1>3, <1>4, <1>5 DEF FindExpandableBlock

\* The candidate c[a] of a call that is mapping, and the block at t that is next: its
\* pages are not mapped, and what is needed of them begins and ends with a page.
MapState(g, c, a, t, n) ==
  /\ call.at = "map" /\ call.seg = g /\ call.pos = a /\ call.size = n
  /\ g \in Live /\ g \in Segments /\ c = chain[g] /\ t = ToMap
  /\ a \in DOMAIN c /\ n \in Nat /\ n > 0 /\ Room(c, a, n)
  /\ t \in DOMAIN c /\ ~c[t].mapped
  /\ t = a \/ (End(c, a) = t /\ c[a].mapped)

NeededFacts(g, c, t, size) ==
  /\ Needed \subseteq PageIds /\ Needed \cap segment[g].mapped = {}
  /\ size = PageSize * Cardinality(Needed) /\ size \in Nat /\ size >= 1 /\ size <= c[t].size
  /\ Whole(t + size) /\ Needed = Touched(t, t + size)

LEMMA MappingState ==
  ASSUME IInv, Mapping
  PROVE  MapState(call.seg, chain[call.seg], call.pos, ToMap, call.size)
<1>1. call.at = "map" /\ ~LargeEnough
  BY DEF Mapping
<1>2. call.size \in Nat /\ call.size > 0
  BY <1>1, SizeAssumption DEF IInv, Types, CallInv, CallType
<1>3. PICK g : g = call.seg
  OBVIOUS
<1>4. PICK c : c = chain[g]
  OBVIOUS
<1>5. PICK a : a = call.pos
  OBVIOUS
<1>6. PICK n : n = call.size
  OBVIOUS
<1>7. g \in Live /\ a \in DOMAIN c /\ Room(c, a, n) /\ n \in Nat /\ n > 0
  BY <1>1, <1>2, <1>3, <1>4, <1>5, <1>6 DEF IInv, CallInv, HasSpace, Room
<1>8. g \in Segments /\ Chain(c) /\ Coalesced(c)
  BY <1>4, <1>7, LiveSegment
<1>9. PICK t : t = ToMap
  OBVIOUS
<1>10. Candidate = c[a] /\ t = IF c[a].mapped THEN End(c, a) ELSE a
  BY <1>3, <1>4, <1>5, <1>9 DEF Candidate, ToMap
<1>11. t \in DOMAIN c /\ ~c[t].mapped /\ (t = a \/ (End(c, a) = t /\ c[a].mapped))
  <2>1. CASE ~c[a].mapped
    BY <2>1, <1>7, <1>10
  <2>2. CASE c[a].mapped
    <3>1. c[a].size < n
      <4>1. c[a].size \in Nat
        BY <1>7, <1>8, ChainFacts
      <4>2. ~(c[a].size >= n)
        BY <2>2, <1>1, <1>6, <1>10 DEF LargeEnough
      <4> QED BY <4>1, <4>2, <1>7
    <3>2. End(c, a) \in DOMAIN c /\ ~c[End(c, a)].mapped
      BY <2>2, <3>1, <1>7, <1>8, NextToMap
    <3> QED BY <2>2, <3>2, <1>10
  <2> QED BY <2>1, <2>2
<1>12. MapState(g, c, a, t, n)
  BY <1>1, <1>3, <1>4, <1>5, <1>6, <1>7, <1>8, <1>9, <1>11 DEF MapState
<1> QED BY <1>3, <1>4, <1>5, <1>6, <1>9, <1>12

LEMMA NeededPages ==
  ASSUME IInv, Mapping, NEW g, NEW c, NEW a, NEW t, NEW n, MapState(g, c, a, t, n)
  PROVE  NeededFacts(g, c, t, PageSize * Cardinality(Needed))
<1>1. /\ call.seg = g /\ call.pos = a /\ call.size = n
      /\ g \in Live /\ g \in Segments /\ c = chain[g] /\ t = ToMap
      /\ a \in DOMAIN c /\ n \in Nat /\ n > 0
      /\ t \in DOMAIN c /\ ~c[t].mapped
  BY DEF MapState
<1>2. Chain(c) /\ BackedBy(c, segment[g].mapped)
  BY <1>1, LiveSegment
<1>3. /\ t \in Nat /\ c[t].size \in Nat /\ c[t].size > 0 /\ End(c, t) = t + c[t].size
      /\ Whole(t) /\ Whole(End(c, t)) /\ End(c, t) \in Nat
  BY <1>1, <1>2, ChainFacts DEF BlockOK
<1>4. Remaining \in Nat /\ Remaining > 0
  <2>1. c[a].size \in Nat
    BY <1>1, <1>2, ChainFacts
  <2>2. Candidate = c[a]
    BY <1>1 DEF Candidate
  <2>3. c[a].mapped => c[a].size < n
    BY <2>1, <2>2, <1>1 DEF Mapping, LargeEnough
  <2>4. CASE c[a].mapped
    <3>1. Remaining = n - c[a].size
      BY <2>2, <2>4, <1>1 DEF Remaining
    <3> QED BY <3>1, <2>1, <2>3, <2>4, <1>1
  <2>5. CASE ~c[a].mapped
    BY <2>2, <2>5, <1>1 DEF Remaining
  <2> QED BY <2>4, <2>5
<1>5. PICK h : h = t + IF Remaining < c[t].size THEN Remaining ELSE c[t].size
  OBVIOUS
<1>6. Needed = Touched(t, h)
  BY <1>1, <1>5 DEF Needed
<1>7. h \in Nat /\ t < h /\ h <= End(c, t)
  BY <1>3, <1>4, <1>5
<1>8. PICK size : size = PageSize * Cardinality(Needed)
  OBVIOUS
<1>9. /\ size \in Nat /\ size >= 1 /\ t + size <= End(c, t)
      /\ Whole(t + size) /\ Touched(t, t + size) = Needed
  BY <1>3, <1>6, <1>7, <1>8, TouchedSize
<1>10. size <= c[t].size
  BY <1>3, <1>9
<1>11. Needed \subseteq Touched(t, End(c, t))
  <2>1. ASSUME NEW k \in Needed PROVE k \in Touched(t, End(c, t))
    <3>1. k \in Nat /\ PageSize * k < h /\ t < PageSize * k + PageSize
      BY <1>3, <1>6, <1>7, TouchedMeaning
    <3>2. PageSize * k < End(c, t)
      BY <3>1, <1>3, <1>7, RangeFacts
    <3> QED BY <3>1, <3>2, <1>3, TouchedMeaning
  <2> QED BY <2>1
<1>12. Needed \subseteq PageIds
  BY <1>1, <1>2, <1>11, BlockPages
<1>13. Needed \cap segment[g].mapped = {}
  BY <1>1, <1>2, <1>11 DEF BackedBy
<1>14. NeededFacts(g, c, t, size)
  BY <1>8, <1>9, <1>10, <1>12, <1>13 DEF NeededFacts
<1> QED BY <1>8, <1>14

\* What more or fewer pages of one segment do to the count.
LEMMA CountFacts ==
  ASSUME IInv
  PROVE  /\ Handles \subseteq Segments \X PageIds /\ MappedPages \subseteq Segments \X PageIds
         /\ MappedPages \subseteq Handles
         /\ Cardinality(Handles) \in Nat /\ Cardinality(MappedPages) \in Nat
         /\ Cardinality(MappedPages) <= Cardinality(Handles)
<1>1. /\ Handles \subseteq Segments \X PageIds /\ MappedPages \subseteq Segments \X PageIds
  BY DEF Handles, MappedPages, PagesWith
<1>2. \A g \in Segments : segment[g].mapped \subseteq segment[g].handles
  BY DEF IInv, SegmentInv, SegmentOK, NoSegment
<1>3. MappedPages \subseteq Handles
  BY <1>2 DEF Handles, MappedPages, PagesWith
<1>4. IsFiniteSet(Handles) /\ Cardinality(Handles) \in Nat /\ Cardinality(MappedPages) \in Nat
  BY <1>1, PagesFinite
<1>5. Cardinality(MappedPages) <= Cardinality(Handles)
  BY <1>3, <1>4, FS_Subset
<1> QED BY <1>1, <1>3, <1>4, <1>5

LEMMA FreePagesLeft == FreePages = Memory - Cardinality(Handles)
BY DEF FreePages, Handles

LEMMA MoreHandles ==
  ASSUME IInv, NEW g \in Segments, NEW s, NEW d, OneSegment(g, s, d),
         NEW S, S \subseteq PageIds, s.handles = segment[g].handles \cup S
  PROVE  Cardinality(Handles') <= Cardinality(Handles) + Cardinality(S)
<1>1. Handles' = Handles \cup ({g} \X S)
  BY DEF Handles, PagesWith, OneSegment
<1> QED BY <1>1, CountFacts, AddPages

LEMMA MorePages ==
  ASSUME IInv, NEW g \in Segments, NEW s, NEW d, OneSegment(g, s, d),
         NEW S, S \subseteq PageIds, S \cap segment[g].mapped = {},
         s.mapped = segment[g].mapped \cup S
  PROVE  Cardinality(MappedPages') = Cardinality(MappedPages) + Cardinality(S)
<1>1. MappedPages' = MappedPages \cup ({g} \X S)
  BY DEF MappedPages, PagesWith, OneSegment
<1>2. MappedPages \cap ({g} \X S) = {}
  BY DEF MappedPages, PagesWith
<1> QED BY <1>1, <1>2, CountFacts, AddPages

LEMMA FewerPages ==
  ASSUME IInv, NEW g \in Segments, NEW s, NEW d, OneSegment(g, s, d),
         NEW S, S \subseteq segment[g].mapped, s.mapped = segment[g].mapped \ S
  PROVE  Cardinality(MappedPages') = Cardinality(MappedPages) - Cardinality(S)
<1>1. MappedPages' = MappedPages \ ({g} \X S)
  BY DEF MappedPages, PagesWith, OneSegment
<1>2. S \subseteq PageIds
  BY DEF IInv, Types, SegmentType
<1>3. {g} \X S \subseteq MappedPages
  BY <1>2 DEF MappedPages, PagesWith
<1> QED BY <1>1, <1>2, <1>3, CountFacts, RemovePages

LEMMA FewerHandles ==
  ASSUME IInv, NEW g \in Segments, NEW s, NEW d, OneSegment(g, s, d),
         s.handles \subseteq segment[g].handles
  PROVE  Cardinality(Handles') <= Cardinality(Handles)
<1>1. Handles' \subseteq Handles
  BY DEF Handles, PagesWith, OneSegment
<1>2. IsFiniteSet(Handles)
  BY CountFacts, PagesFinite
<1> QED BY <1>1, <1>2, FS_Subset

\* What the graph and the kernels need of a segment that stays and keeps its pages.
LEMMA KeepsPages ==
  ASSUME IInv, NEW g \in Live, NEW s, NEW d, OneSegment(g, s, d), s.live,
         s.stream = segment[g].stream, s.pool = segment[g].pool,
         segment[g].mapped \subseteq s.mapped, KeepsUsed(chain[g], d),
         UNCHANGED <<scenario, graph, work>>
  PROVE  GraphInv' /\ WorkInv' /\ Live' = Live
<1>1. /\ g \in Segments /\ segment'[g] = s /\ chain'[g] = d
      /\ \A h \in Segments : h # g => segment'[h] = segment[h] /\ chain'[h] = chain[h]
      /\ Live' = Live
  BY DEF OneSegment, Live
<1>2. ASSUME NEW h \in Segments
      PROVE  /\ segment'[h].stream = segment[h].stream /\ segment'[h].pool = segment[h].pool
             /\ segment[h].mapped \subseteq segment'[h].mapped /\ KeepsUsed(chain[h], chain'[h])
  BY <1>1 DEF KeepsUsed
<1>3. GraphInv'
  <2>1. ASSUME NEW h \in Live, segment'[h].pool = "graph"
        PROVE  segment'[h].stream = graph.stream /\ graph.state # "none"
    <3>1. h \in Segments
      BY DEF Live
    <3> QED BY <2>1, <3>1, <1>2 DEF IInv, GraphInv
  <2>2. ASSUME NEW k \in graph.kernels
        PROVE  /\ k.seg \in Live /\ segment'[k.seg].pool = "graph"
               /\ Touched(k.lo, k.hi) \subseteq segment'[k.seg].mapped
    <3>1. /\ k.seg \in Live /\ k.seg \in Segments /\ segment[k.seg].pool = "graph"
          /\ Touched(k.lo, k.hi) \subseteq segment[k.seg].mapped
      BY DEF IInv, GraphInv, Live
    <3> QED BY <3>1, <1>2
  <2>3. graph.state \notin {"capturing", "captured"} => graph.kernels = {}
    BY DEF IInv, GraphInv
  <2>4. graph' = graph
    OBVIOUS
  <2> QED BY <2>1, <2>2, <2>3, <2>4, <1>1 DEF GraphInv
<1>4. WorkInv'
  <2>1. ASSUME scenario.replay = "capture stream", NEW w \in work PROVE WorkOK(w)'
    <3>1. WorkOK(w)
      BY <2>1 DEF IInv, WorkInv
    <3>2. PICK h : h = w.kernel.seg
      OBVIOUS
    <3>3. /\ h \in Live /\ h \in Segments
          /\ Touched(w.kernel.lo, w.kernel.hi) \subseteq segment[h].mapped
          /\ w.stream = segment[h].stream \/ Held(w, chain[h])
      BY <3>1, <3>2 DEF WorkOK, Live
    <3>4. Held(w, chain[h]) => Held(w, chain'[h])
      <4>1. KeepsUsed(chain[h], chain'[h])
        BY <3>3, <1>2
      <4>2. SUFFICES ASSUME Held(w, chain[h]) PROVE Held(w, chain'[h])
        OBVIOUS
      <4>3. /\ w.kernel.lo \in DOMAIN chain[h] /\ ~allocatable(chain[h][w.kernel.lo])
        BY <4>2 DEF Held, allocatable
      <4>4. /\ w.kernel.lo \in DOMAIN chain'[h]
            /\ chain'[h][w.kernel.lo] = chain[h][w.kernel.lo]
        BY <4>1, <4>3 DEF KeepsUsed
      <4> QED BY <4>2, <4>4 DEF Held, End
    <3>5. /\ Touched(w.kernel.lo, w.kernel.hi) \subseteq segment'[h].mapped
          /\ w.stream = segment'[h].stream \/ Held(w, chain'[h])
      BY <3>3, <3>4, <1>2
    <3> QED BY <3>2, <3>3, <3>5, <1>1 DEF WorkOK
  <2> QED BY <2>1 DEF WorkInv
<1> QED BY <1>1, <1>3, <1>4

LEMMA MapBlockInv == IInv /\ MapBlock => IInv'
<1> SUFFICES ASSUME IInv, MapBlock PROVE IInv'
  OBVIOUS
<1>1. Mapping /\ Fresh = Needed /\ Cardinality(Needed) <= FreePages
  BY DEF MapBlock
<1>2. PICK g, c, a, t, n : /\ MapState(g, c, a, t, n)
                           /\ NeededFacts(g, c, t, PageSize * Cardinality(Needed))
  BY <1>1, MappingState, NeededPages
<1>3. /\ call.at = "map" /\ call.seg = g /\ call.pos = a /\ call.size = n
      /\ g \in Live /\ g \in Segments /\ c = chain[g] /\ t = ToMap
      /\ a \in DOMAIN c /\ n \in Nat /\ n > 0 /\ Room(c, a, n)
      /\ t \in DOMAIN c /\ ~c[t].mapped
      /\ t = a \/ (End(c, a) = t /\ c[a].mapped)
  BY <1>2 DEF MapState
<1>4. PICK size : size = PageSize * Cardinality(Needed)
  OBVIOUS
<1>5. PICK S : S = Needed
  OBVIOUS
<1>6. /\ S \subseteq PageIds /\ S \cap segment[g].mapped = {}
      /\ size = PageSize * Cardinality(S) /\ size \in Int /\ size >= 1 /\ size <= c[t].size
      /\ Whole(t + size) /\ S = Touched(t, t + size) /\ Cardinality(S) \in Nat
  BY <1>2, <1>4, <1>5, SomePages DEF NeededFacts
<1>7. PICK u : u = [Split(c, t, size) EXCEPT ![t] = [Split(c, t, size)[t] EXCEPT !.mapped = TRUE]]
  OBVIOUS
<1>8. PICK d : d = Merged(u, t)
  OBVIOUS
<1>9. PICK p : p = MergedAt(u, t)
  OBVIOUS
<1>10. PICK s : s = [segment[g] EXCEPT !.handles = segment[g].handles \cup S,
                        !.mapped = segment[g].mapped \cup S,
                        !.access = segment[g].access \cup (S \X segment[g].peers)]
  OBVIOUS
<1>11. /\ segment' = [segment EXCEPT ![g] = s] /\ chain' = [chain EXCEPT ![g] = d]
       /\ call' = [call EXCEPT !.pos = p] /\ total' = total + size /\ handle_type' = Probed
       /\ UNCHANGED <<scenario, peers, graph, work, faults>>
  BY <1>3, <1>4, <1>5, <1>7, <1>8, <1>9, <1>10 DEF MapBlock
<1>12. /\ segment[g] \in SegmentType /\ segment[g].live
       /\ Chain(c) /\ Coalesced(c) /\ BackedBy(c, segment[g].mapped)
       /\ segment[g].mapped \subseteq segment[g].handles
       /\ segment[g].stray \subseteq segment[g].handles
       /\ segment[g].mapped \cap segment[g].stray = {}
       /\ segment[g].stream \in Streams /\ segment[g].peers = peers
       /\ segment[g].mapped \X peers \subseteq segment[g].access /\ peers \subseteq Peers
  BY <1>3, LiveSegment DEF IInv, Types
<1>13. MapResult(c, t, size, u)
  BY <1>3, <1>6, <1>7, <1>12, MapChain
<1>14. /\ Chain(d) /\ Coalesced(d) /\ KeepsUsed(c, d) /\ p \in DOMAIN d
       /\ BackedBy(d, segment[g].mapped \cup S)
  BY <1>6, <1>8, <1>9, <1>12, <1>13 DEF MapResult
<1>15. Room(d, p, n)
  BY <1>3, <1>8, <1>9, <1>12, <1>13, MapKeepsRoom
<1>16. /\ s \in SegmentType /\ s.live /\ s.stream = segment[g].stream
       /\ s.pool = segment[g].pool /\ s.peers = peers
       /\ s.handles = segment[g].handles \cup S /\ s.mapped = segment[g].mapped \cup S
       /\ s.access = segment[g].access \cup (S \X peers) /\ s.stray = segment[g].stray
  BY <1>6, <1>10, <1>12 DEF SegmentType
<1>17. SegmentOK(s, d, peers)
  <2>1. s.mapped \X peers \subseteq s.access
    BY <1>12, <1>16
  <2>2. segment[g].handles \cap S = {}
    <3>1. \A k \in S : k \in Fresh
      BY <1>1, <1>5
    <3>2. \A k \in Fresh : k \in segment[g].handles => k < k
      BY <1>3 DEF Fresh
    <3>3. \A k \in PageIds : ~(k < k)
      BY SizeAssumption, AddressSpaceAssumption DEF PageIds
    <3> QED BY <3>1, <3>2, <3>3, <1>6
  <2>3. s.mapped \cup s.stray \subseteq s.handles /\ s.mapped \cap s.stray = {}
    BY <2>2, <1>12, <1>16
  <2> QED BY <2>1, <2>3, <1>12, <1>14, <1>16 DEF SegmentOK
<1>18. OneSegment(g, s, d)
  BY <1>3, <1>11, <1>16, <1>17, SegmentStep
<1>19. GraphInv' /\ WorkInv' /\ Live' = Live
  BY <1>3, <1>11, <1>14, <1>16, <1>18, KeepsPages
<1>20. /\ segment' \in [Segments -> SegmentType] /\ chain' = [h \in Segments |-> chain'[h]]
       /\ segment'[g] = s /\ chain'[g] = d /\ SegmentInv'
       /\ \A h \in Segments : h # g => segment'[h] = segment[h]
  BY <1>18 DEF OneSegment
<1>21. p \in Nat
  BY <1>14, ChainFacts
<1>22. /\ call' \in CallType /\ call'.at = "map" /\ call'.seg = g /\ call'.pos = p
       /\ call'.size = n /\ call'.stream = call.stream /\ call'.pool = call.pool
  BY <1>3, <1>11, <1>21 DEF IInv, Types, CallType
<1>23. handle_type' \in {"unspecified", "fabric", "posix"}
  BY <1>11 DEF Probed, IInv, Types
<1>24. Types'
  BY <1>11, <1>20, <1>22, <1>23 DEF IInv, Types
<1>25. CallInv'
  <2>1. HasSpace(d, p)'
    BY <1>15, <1>22 DEF HasSpace, Room
  <2> QED BY <1>3, <1>11, <1>14, <1>19, <1>20, <1>22, <2>1 DEF IInv, CallInv
<1>26. MemoryInv'
  <2>1. Cardinality(Handles') <= Cardinality(Handles) + Cardinality(S)
    BY <1>3, <1>6, <1>16, <1>18, MoreHandles
  <2>2. Cardinality(Handles) \in Nat /\ Cardinality(MappedPages) \in Nat
    BY CountFacts
  <2>3. Cardinality(S) <= Memory - Cardinality(Handles)
    BY <1>1, <1>5, FreePagesLeft
  <2>4. Cardinality(Handles') <= Memory
    <3>1. Cardinality(Handles') \in Nat
      <4>1. Handles' \subseteq Segments \X PageIds
        BY DEF Handles, PagesWith
      <4> QED BY <4>1, PagesFinite
    <3> QED BY <2>1, <2>2, <2>3, <3>1, <1>6, SizeAssumption
  <2>5. Cardinality(MappedPages') = Cardinality(MappedPages) + Cardinality(S)
    BY <1>3, <1>6, <1>16, <1>18, MorePages
  <2>6. total' = PageSize * Cardinality(MappedPages')
    <3>1. PICK x : x = Cardinality(MappedPages)
      OBVIOUS
    <3>2. PICK y : y = Cardinality(S)
      OBVIOUS
    <3>3. x \in Nat /\ y \in Nat /\ PageSize * (x + y) = PageSize * x + PageSize * y
      BY <1>6, <2>2, <3>1, <3>2, RangeFacts
    <3>4. total = PageSize * x
      BY <3>1 DEF IInv, MemoryInv
    <3> QED BY <1>6, <1>11, <2>5, <3>1, <3>2, <3>3, <3>4
  <2>7. scenario.faults = 0 =>
          faults = 0 /\ \A h \in Segments : segment'[h].handles = segment'[h].mapped
    <3>1. SUFFICES ASSUME scenario.faults = 0
                   PROVE  /\ faults = 0
                          /\ \A h \in Segments : segment'[h].handles = segment'[h].mapped
      OBVIOUS
    <3>2. faults = 0 /\ \A h \in Segments : segment[h].handles = segment[h].mapped
      BY <3>1 DEF IInv, MemoryInv
    <3>3. ASSUME NEW h \in Segments PROVE segment'[h].handles = segment'[h].mapped
      <4>1. CASE h = g
        BY <4>1, <3>2, <1>16, <1>20
      <4>2. CASE h # g
        BY <4>2, <3>2, <1>20
      <4> QED BY <4>1, <4>2
    <3> QED BY <3>2, <3>3
  <2> QED BY <1>11, <2>4, <2>6, <2>7 DEF MemoryInv
<1> QED BY <1>19, <1>20, <1>24, <1>25, <1>26 DEF IInv

\* Handles that are made and not mapped, or mapped for a call that fails.
HandlesAdded(g, S, D, A, s) ==
  /\ S \subseteq PageIds /\ Cardinality(S) <= FreePages
  /\ D \subseteq S /\ D \cap segment[g].mapped = {} /\ A \subseteq PageIds \X Peers
  /\ s = [segment[g] EXCEPT !.handles = segment[g].handles \cup S,
                            !.stray = segment[g].stray \cup D,
                            !.access = segment[g].access \cup A]
  /\ segment' = [segment EXCEPT ![g] = s]

LEMMA HandlesStep ==
  ASSUME IInv, NEW g \in Live, NEW S, NEW D, NEW A, NEW s, HandlesAdded(g, S, D, A, s),
         faults' \in 0..1, scenario.faults # 0,
         handle_type' \in {"unspecified", "fabric", "posix"}, call' \in CallType,
         UNCHANGED <<scenario, chain, total, peers, graph, work>>
  PROVE  /\ Types' /\ SegmentInv' /\ MemoryInv' /\ GraphInv' /\ WorkInv' /\ Live' = Live
<1>1. /\ S \subseteq PageIds /\ Cardinality(S) <= FreePages
      /\ D \subseteq S /\ D \cap segment[g].mapped = {} /\ A \subseteq PageIds \X Peers
      /\ s = [segment[g] EXCEPT !.handles = segment[g].handles \cup S,
                                !.stray = segment[g].stray \cup D,
                                !.access = segment[g].access \cup A]
      /\ segment' = [segment EXCEPT ![g] = s]
  BY DEF HandlesAdded
<1>2. /\ segment[g] \in SegmentType /\ segment[g].live /\ g \in Segments
      /\ Chain(chain[g]) /\ Coalesced(chain[g]) /\ BackedBy(chain[g], segment[g].mapped)
      /\ segment[g].mapped \subseteq segment[g].handles
      /\ segment[g].stray \subseteq segment[g].handles
      /\ segment[g].mapped \cap segment[g].stray = {}
      /\ segment[g].stream \in Streams /\ segment[g].peers = peers
      /\ segment[g].mapped \X peers \subseteq segment[g].access
  BY LiveSegment
<1>3. /\ s \in SegmentType /\ s.live /\ s.stream = segment[g].stream
      /\ s.pool = segment[g].pool /\ s.peers = peers
      /\ s.handles = segment[g].handles \cup S /\ s.mapped = segment[g].mapped
      /\ s.stray = segment[g].stray \cup D /\ s.access = segment[g].access \cup A
  BY <1>1, <1>2 DEF SegmentType
<1>4. SegmentOK(s, chain[g], peers)
  BY <1>1, <1>2, <1>3 DEF SegmentOK
<1>6. chain' = [chain EXCEPT ![g] = chain[g]]
  BY <1>2 DEF IInv, Types
<1>7. OneSegment(g, s, chain[g])
  BY <1>1, <1>2, <1>3, <1>4, <1>6, SegmentStep
<1>8. KeepsUsed(chain[g], chain[g])
  BY DEF KeepsUsed
<1>9. GraphInv' /\ WorkInv' /\ Live' = Live
  BY <1>3, <1>7, <1>8, KeepsPages
<1>10. Types' /\ SegmentInv'
  BY <1>7 DEF OneSegment, IInv, Types
<1>11. MemoryInv'
  <2>1. Cardinality(Handles') <= Cardinality(Handles) + Cardinality(S)
    BY <1>1, <1>2, <1>3, <1>7, MoreHandles
  <2>2. Cardinality(Handles) \in Nat /\ Cardinality(S) \in Nat
    BY <1>1, CountFacts, SomePages
  <2>3. Cardinality(S) <= Memory - Cardinality(Handles)
    BY <1>1, FreePagesLeft
  <2>4. Cardinality(Handles') <= Memory
    <3>1. Cardinality(Handles') \in Nat
      <4>1. Handles' \subseteq Segments \X PageIds
        BY DEF Handles, PagesWith
      <4> QED BY <4>1, PagesFinite
    <3> QED BY <2>1, <2>2, <2>3, <3>1, SizeAssumption
  <2>5. MappedPages' = MappedPages
    BY <1>3, <1>7 DEF MappedPages, PagesWith, OneSegment
  <2> QED BY <2>4, <2>5 DEF IInv, MemoryInv
<1> QED BY <1>9, <1>10, <1>11

LEMMA HandlesMade ==
  ASSUME IInv, NEW g \in Live, NEW S, S \subseteq PageIds, Cardinality(S) <= FreePages,
         segment' = [segment EXCEPT ![g].handles = segment[g].handles \cup S],
         faults' \in 0..1, scenario.faults # 0,
         handle_type' \in {"unspecified", "fabric", "posix"}, call' \in CallType,
         UNCHANGED <<scenario, chain, total, peers, graph, work>>
  PROVE  /\ Types' /\ SegmentInv' /\ MemoryInv' /\ GraphInv' /\ WorkInv' /\ Live' = Live
<1>1. PICK D, A : D = {} /\ A = {}
  OBVIOUS
<1>2. PICK s : s = [segment[g] EXCEPT !.handles = segment[g].handles \cup S,
                                      !.stray = segment[g].stray \cup D,
                                      !.access = segment[g].access \cup A]
  OBVIOUS
<1>3. segment[g] \in SegmentType
  BY LiveSegment
<1>4. s = [segment[g] EXCEPT !.handles = segment[g].handles \cup S]
  BY <1>1, <1>2, <1>3 DEF SegmentType
<1>5. segment' = [segment EXCEPT ![g] = s]
  BY <1>4
<1>6. HandlesAdded(g, S, D, A, s)
  BY <1>1, <1>2, <1>5 DEF HandlesAdded
<1> QED BY <1>6, HandlesStep

\* How a call goes on or ends after an attempt has failed.
LEMMA AfterFailure ==
  ASSUME IInv, call.at = "map", AllocFailed \/ call' = Idle
  PROVE  /\ call' \in CallType /\ call'.at # "map"
         /\ call' = Idle \/
           (/\ call'.stream = call.stream /\ call'.size = call.size /\ call'.pool = call.pool
            /\ call'.at \in {"events", "search", "find"} => call.size # 0)
<1>1. call \in CallType
  BY DEF IInv, Types
<1>2. CASE call' = Idle
  BY <1>2, IdleType DEF Idle
<1>3. CASE call' = [call EXCEPT !.at = "sync", !.retry = TRUE]
  BY <1>1, <1>3 DEF CallType
<1> QED BY <1>2, <1>3 DEF AllocFailed

LEMMA MapOutOfMemoryInv == IInv /\ MapOutOfMemory => IInv'
<1> SUFFICES ASSUME IInv, MapOutOfMemory PROVE IInv'
  OBVIOUS
<1>1. /\ call.at = "map" /\ AllocFailed /\ handle_type' = Probed
      /\ UNCHANGED <<scenario, segment, chain, total, peers, graph, work, faults>>
  BY DEF MapOutOfMemory, Mapping
<1>2. call' \in CallType /\ call'.at # "map"
  BY <1>1, AfterFailure
<1>3. handle_type' \in {"unspecified", "fabric", "posix"}
  BY <1>1 DEF Probed, IInv, Types
<1>4. Types'
  BY <1>1, <1>2, <1>3 DEF IInv, Types
<1>5. SegmentInv'
  BY <1>1 DEF IInv, SegmentInv
<1>6. MemoryInv'
  BY <1>1 DEF IInv, MemoryInv, Handles, MappedPages, PagesWith
<1>7. GraphInv' /\ WorkInv'
  BY <1>1, SameGraph, SameWork
<1>8. CallInv'
  BY <1>1, AfterFailure DEF IInv, CallInv, Idle, None
<1> QED BY <1>4, <1>5, <1>6, <1>7, <1>8 DEF IInv

LEMMA MapErrorInv == ASSUME IInv, NEW j \in PageIds, MapError(j) PROVE IInv'
<1>1. PICK made : made = {k \in Needed : k < j}
  OBVIOUS
<1>2. /\ Mapping /\ faults > 0 /\ Cardinality(made) <= FreePages /\ faults' = faults - 1
      /\ segment' = [segment EXCEPT ![call.seg].handles = segment[call.seg].handles \cup made]
      /\ handle_type' \in {"unspecified", "fabric", "posix"}
      /\ call' = call \/ AllocFailed \/ call' = Idle
      /\ UNCHANGED <<scenario, chain, total, peers, graph, work>>
  BY <1>1 DEF MapError, IInv, Types
<1>3. call.at = "map" /\ call.seg \in Live
  BY <1>2 DEF Mapping, IInv, CallInv
<1>4. made \subseteq PageIds
  BY <1>1, <1>2, MappingState, NeededPages DEF NeededFacts
<1>5. faults' \in 0..1 /\ scenario.faults # 0
  BY <1>2 DEF IInv, Types, MemoryInv
<1>6. call' \in CallType
  BY <1>2, <1>3, AfterFailure DEF IInv, Types
<1>7. Types' /\ SegmentInv' /\ MemoryInv' /\ GraphInv' /\ WorkInv' /\ Live' = Live
  BY <1>2, <1>3, <1>4, <1>5, <1>6, HandlesMade
<1>8. CallInv'
  <2>1. CASE call' = call
    <3>1. HasSpace(chain[call.seg], call.pos)'
      BY <1>2, <1>3, <2>1 DEF IInv, CallInv, HasSpace
    <3> QED BY <1>2, <1>3, <1>7, <2>1, <3>1 DEF IInv, CallInv
  <2>2. CASE AllocFailed \/ call' = Idle
    BY <1>2, <1>3, <2>2, AfterFailure DEF IInv, CallInv, Idle, None
  <2> QED BY <1>2, <2>1, <2>2
<1> QED BY <1>7, <1>8 DEF IInv

LEMMA MapAndSetAccessErrorInv ==
  ASSUME IInv, NEW j \in 0..Pages, MapAndSetAccessError(j) PROVE IInv'
<1>1. PICK done : done = {k \in Needed : k < j}
  OBVIOUS
<1>2. /\ Mapping /\ faults > 0 /\ Cardinality(Needed) <= FreePages /\ faults' = faults - 1
      /\ call' = Idle /\ handle_type' = Probed
      /\ UNCHANGED <<scenario, chain, total, peers, graph, work>>
  BY DEF MapAndSetAccessError
<1>3. PICK given \in SUBSET segment[call.seg].peers :
        segment' = [segment EXCEPT ![call.seg] =
          [segment[call.seg] EXCEPT !.handles = segment[call.seg].handles \cup Needed,
                                    !.stray = segment[call.seg].stray \cup done,
                                    !.access = segment[call.seg].access \cup (done \X given)]]
  BY <1>1 DEF MapAndSetAccessError
<1>4. call.at = "map" /\ call.seg \in Live
  BY <1>2 DEF Mapping, IInv, CallInv
<1>5. Needed \subseteq PageIds /\ Needed \cap segment[call.seg].mapped = {}
  BY <1>2, MappingState, NeededPages DEF NeededFacts
<1>6. done \subseteq Needed /\ done \cap segment[call.seg].mapped = {}
  BY <1>1, <1>5
<1>7. done \X given \subseteq PageIds \X Peers
  <2>1. segment[call.seg].peers \subseteq Peers
    BY <1>4, LiveSegment DEF SegmentType
  <2> QED BY <1>5, <1>6, <2>1
<1>8. faults' \in 0..1 /\ scenario.faults # 0 /\ call' \in CallType
  BY <1>2, IdleType DEF IInv, Types, MemoryInv
<1>9. handle_type' \in {"unspecified", "fabric", "posix"}
  BY <1>2 DEF Probed, IInv, Types
<1>10. Types' /\ SegmentInv' /\ MemoryInv' /\ GraphInv' /\ WorkInv'
  <2>1. PICK A : A = done \X given
    OBVIOUS
  <2>2. PICK s : s = [segment[call.seg] EXCEPT
                        !.handles = segment[call.seg].handles \cup Needed,
                        !.stray = segment[call.seg].stray \cup done,
                        !.access = segment[call.seg].access \cup A]
    OBVIOUS
  <2>3. segment' = [segment EXCEPT ![call.seg] = s]
    BY <1>3, <2>1, <2>2
  <2>4. PICK S : S = Needed
    OBVIOUS
  <2>5. HandlesAdded(call.seg, S, done, A, s)
    BY <1>2, <1>5, <1>6, <1>7, <2>1, <2>2, <2>3, <2>4 DEF HandlesAdded
  <2> QED BY <1>2, <1>4, <1>8, <1>9, <2>5, HandlesStep
<1>11. CallInv'
  BY <1>2 DEF CallInv, Idle, None
<1> QED BY <1>10, <1>11 DEF IInv

\* The assertion fails only after an error of the driver.
LEMMA MapAssertsInv == IInv /\ MapAsserts => IInv'
<1> SUFFICES ASSUME IInv, MapAsserts PROVE IInv'
  OBVIOUS
<1>1. /\ Mapping /\ Fresh # Needed /\ Cardinality(Fresh) <= FreePages /\ call' = Idle
      /\ segment' = [segment EXCEPT ![call.seg].handles = segment[call.seg].handles \cup Fresh]
      /\ UNCHANGED <<scenario, chain, total, peers, handle_type, graph, work, faults>>
  BY DEF MapAsserts
<1>2. call.at = "map" /\ call.seg \in Live
  BY <1>1 DEF Mapping, IInv, CallInv
<1>3. Needed \subseteq PageIds /\ Needed \cap segment[call.seg].mapped = {}
  BY <1>1, MappingState, NeededPages DEF NeededFacts
<1>4. Fresh \subseteq PageIds
  BY <1>3 DEF Fresh
<1>5. scenario.faults # 0
  <2>1. SUFFICES ASSUME scenario.faults = 0 PROVE FALSE
    OBVIOUS
  <2>2. segment[call.seg].handles = segment[call.seg].mapped
    BY <2>1, <1>2 DEF IInv, MemoryInv, Live
  <2>3. Fresh = Needed
    BY <2>2, <1>3 DEF Fresh
  <2> QED BY <2>3, <1>1
<1>6. faults' \in 0..1 /\ handle_type' \in {"unspecified", "fabric", "posix"} /\ call' \in CallType
  BY <1>1, IdleType DEF IInv, Types
<1>7. Types' /\ SegmentInv' /\ MemoryInv' /\ GraphInv' /\ WorkInv'
  BY <1>1, <1>2, <1>4, <1>5, <1>6, HandlesMade
<1>8. CallInv'
  BY <1>1 DEF CallInv, Idle, None
<1> QED BY <1>7, <1>8 DEF IInv

\* What unmap_block leaves of the segment, with the blocks e after merging.
Unmapping(s, e, pages) ==
  IF DOMAIN e = {0} THEN NoSegment
  ELSE [s EXCEPT !.handles = s.handles \ pages, !.mapped = s.mapped \ pages,
                 !.shared = s.shared \ pages, !.access = {r \in s.access : r[1] \notin pages}]

UnmapState(g, c, a, e, s, d, pages) ==
  /\ g \in Live /\ g \in Segments /\ c = chain[g] /\ a \in DOMAIN c
  /\ segment[g].pool = "graph" => graph.state = "freeable"
  /\ allocatable(c[a]) /\ c[a].mapped /\ pages = Within(a, End(c, a)) /\ pages # {}
  /\ StreamIdle(g) /\ call.at = "release"
  /\ UnmapResult(c, a, e)
  /\ s = Unmapping(segment[g], e, pages) /\ d = IF DOMAIN e = {0} THEN NoBlocks ELSE e
  /\ segment' = [segment EXCEPT ![g] = s] /\ chain' = [chain EXCEPT ![g] = d]
  /\ total' = total - PageSize * Cardinality(pages)
  /\ graph' \in GraphType /\ graph'.state = graph.state /\ graph'.stream = graph.stream
  /\ graph'.kernels = graph.kernels
  /\ UNCHANGED <<scenario, peers, handle_type, call, work, faults>>

LEMMA ReleaseState ==
  ASSUME IInv, ReleaseBlocks
  PROVE  \E g, c, a, e, s, d, pages : UnmapState(g, c, a, e, s, d, pages)
<1>1. PICK x \in Releasable : UnmapBlock(x[1], x[2])
  BY DEF ReleaseBlocks
<1>2. /\ x \in AllBlocks /\ allocatable(BlockAt(x)) /\ BlockAt(x).mapped
      /\ Within(x[2], EndOf(x)) # {}
      /\ segment[x[1]].pool = "graph" => graph.state = "freeable"
  BY <1>1 DEF Releasable, ToUnmap
<1>3. PICK g : g = x[1]
  OBVIOUS
<1>4. PICK a : a = x[2]
  OBVIOUS
<1>5. PICK c : c = chain[g]
  OBVIOUS
<1>6. /\ g \in Live /\ g \in Segments /\ a \in DOMAIN c
  BY <1>2, <1>3, <1>4, <1>5 DEF AllBlocks, Live
<1>7. /\ allocatable(c[a]) /\ c[a].mapped /\ Within(a, End(c, a)) # {}
      /\ segment[g].pool = "graph" => graph.state = "freeable"
  BY <1>2, <1>3, <1>4, <1>5 DEF BlockAt, EndOf
<1>8. PICK pages : pages = Within(a, End(c, a))
  OBVIOUS
<1>9. PICK first : first = PageSize * segmentRight(a)
  OBVIOUS
<1>10. PICK n : n = PageSize * Cardinality(Within(a, End(c, a)))
  OBVIOUS
<1>11. PICK f : f = Split(Split(c, a, first - a), first, n)
  OBVIOUS
<1>12. PICK u : u = [f EXCEPT ![first] = [f[first] EXCEPT !.mapped = FALSE]]
  OBVIOUS
<1>13. PICK e : e = Merged(u, first)
  OBVIOUS
<1>14. Chain(c) /\ Coalesced(c)
  BY <1>5, <1>6, LiveSegment
<1>15. UnmapResult(c, a, e)
  BY <1>6, <1>7, <1>9, <1>10, <1>11, <1>12, <1>13, <1>14, UnmapChain
<1>16. PICK s : s = Unmapping(segment[g], e, pages)
  OBVIOUS
<1>17. PICK d : d = IF DOMAIN e = {0} THEN NoBlocks ELSE e
  OBVIOUS
<1>18. UnmapBlock(g, a)
  BY <1>1, <1>3, <1>4
<1>19. /\ StreamIdle(g) /\ chain' = [chain EXCEPT ![g] = d]
       /\ total' = total - PageSize * Cardinality(pages)
  BY <1>5, <1>8, <1>9, <1>10, <1>11, <1>12, <1>13, <1>17, <1>18 DEF UnmapBlock
<1>20. segment' = [segment EXCEPT ![g] = s]
  BY <1>5, <1>8, <1>9, <1>10, <1>11, <1>12, <1>13, <1>16, <1>18 DEF UnmapBlock, Unmapping
<1>21. graph' = graph \/ graph' = [graph EXCEPT !.count = graph.count - 1]
  BY <1>18 DEF UnmapBlock
<1>22. /\ graph' \in GraphType /\ graph'.state = graph.state
       /\ graph'.stream = graph.stream /\ graph'.kernels = graph.kernels
  BY <1>21 DEF IInv, Types, GraphType
<1>23. call.at = "release" /\ UNCHANGED <<scenario, peers, handle_type, call, work, faults>>
  BY DEF ReleaseBlocks
<1>24. UnmapState(g, c, a, e, s, d, pages)
  BY <1>5, <1>6, <1>7, <1>8, <1>15, <1>16, <1>17, <1>19, <1>20, <1>22, <1>23 DEF UnmapState
<1> QED BY <1>24

LEMMA ReleaseBlocksInv == IInv /\ ReleaseBlocks => IInv'
<1> SUFFICES ASSUME IInv, ReleaseBlocks PROVE IInv'
  OBVIOUS
<1>1. PICK g, c, a, e, s, d, pages : UnmapState(g, c, a, e, s, d, pages)
  BY ReleaseState
<1>2. /\ g \in Live /\ g \in Segments /\ c = chain[g] /\ a \in DOMAIN c
      /\ segment[g].pool = "graph" => graph.state = "freeable"
      /\ allocatable(c[a]) /\ c[a].mapped /\ pages = Within(a, End(c, a))
      /\ StreamIdle(g) /\ call.at = "release"
      /\ UnmapResult(c, a, e)
      /\ s = Unmapping(segment[g], e, pages) /\ d = IF DOMAIN e = {0} THEN NoBlocks ELSE e
      /\ segment' = [segment EXCEPT ![g] = s] /\ chain' = [chain EXCEPT ![g] = d]
      /\ total' = total - PageSize * Cardinality(pages)
      /\ graph' \in GraphType /\ graph'.state = graph.state /\ graph'.stream = graph.stream
      /\ graph'.kernels = graph.kernels
      /\ UNCHANGED <<scenario, peers, handle_type, call, work, faults>>
  BY <1>1 DEF UnmapState
<1>3. /\ segment[g] \in SegmentType /\ segment[g].live
      /\ Chain(c) /\ Coalesced(c) /\ BackedBy(c, segment[g].mapped)
      /\ segment[g].mapped \subseteq segment[g].handles
      /\ segment[g].stray \subseteq segment[g].handles
      /\ segment[g].mapped \cap segment[g].stray = {}
      /\ segment[g].stream \in Streams /\ segment[g].peers = peers
      /\ segment[g].mapped \X peers \subseteq segment[g].access
  BY <1>2, LiveSegment
<1>4. /\ Chain(e) /\ Coalesced(e) /\ KeepsUsed(c, e)
      /\ \E p \in DOMAIN e : allocatable(e[p]) /\ ~e[p].mapped
      /\ BackedBy(e, segment[g].mapped \ pages)
  BY <1>2, <1>3 DEF UnmapResult
<1>5. pages \subseteq segment[g].mapped
  <2>1. Touched(a, End(c, a)) \subseteq segment[g].mapped
    BY <1>2, <1>3, UsedPages
  <2> QED BY <2>1, <1>2, <1>3, BlockPages
<1>6. s \in SegmentType /\ s.mapped = segment[g].mapped \ pages
      /\ s.handles \subseteq segment[g].handles
      /\ (segment[g].handles = segment[g].mapped => s.handles = s.mapped)
  <2>1. CASE DOMAIN e = {0}
    <3>1. s = NoSegment
      BY <1>2, <2>1 DEF Unmapping
    <3>2. ~e[0].mapped
      BY <1>4, <2>1
    <3>3. segment[g].mapped \ pages \subseteq PageIds
      BY <1>3 DEF SegmentType
    <3>4. segment[g].mapped \ pages = {}
      BY <1>4, <2>1, <3>2, <3>3, NothingMapped
    <3> QED BY <3>1, <3>4 DEF NoSegment, SegmentType
  <2>2. CASE DOMAIN e # {0}
    <3>1. s = [segment[g] EXCEPT !.handles = segment[g].handles \ pages,
                 !.mapped = segment[g].mapped \ pages, !.shared = segment[g].shared \ pages,
                 !.access = {r \in segment[g].access : r[1] \notin pages}]
      BY <1>2, <2>2 DEF Unmapping
    <3> QED BY <1>3, <3>1 DEF SegmentType
  <2> QED BY <2>1, <2>2
<1>7. DOMAIN e # {0} => /\ s.live /\ s.stream = segment[g].stream /\ s.pool = segment[g].pool
                        /\ s.peers = peers /\ s.handles = segment[g].handles \ pages
                        /\ s.stray = segment[g].stray
                        /\ s.access = {r \in segment[g].access : r[1] \notin pages}
  <2>1. SUFFICES ASSUME DOMAIN e # {0}
                 PROVE  /\ s.live /\ s.stream = segment[g].stream /\ s.pool = segment[g].pool
                        /\ s.peers = peers /\ s.handles = segment[g].handles \ pages
                        /\ s.stray = segment[g].stray
                        /\ s.access = {r \in segment[g].access : r[1] \notin pages}
    OBVIOUS
  <2>2. s = [segment[g] EXCEPT !.handles = segment[g].handles \ pages,
               !.mapped = segment[g].mapped \ pages, !.shared = segment[g].shared \ pages,
               !.access = {r \in segment[g].access : r[1] \notin pages}]
    BY <1>2, <2>1 DEF Unmapping
  <2> QED BY <1>3, <2>2 DEF SegmentType
<1>8. SegmentOK(s, d, peers)
  <2>1. CASE DOMAIN e = {0}
    BY <1>2, <2>1 DEF Unmapping, SegmentOK, NoSegment
  <2>2. CASE DOMAIN e # {0}
    <3>1. d = e
      BY <1>2, <2>2
    <3>2. s.mapped \X peers \subseteq s.access
      BY <1>3, <1>6, <1>7, <2>2
    <3>3. s.mapped \cup s.stray \subseteq s.handles /\ s.mapped \cap s.stray = {}
      BY <1>3, <1>5, <1>6, <1>7, <2>2
    <3> QED BY <1>3, <1>4, <1>6, <1>7, <2>2, <3>1, <3>2, <3>3 DEF SegmentOK
  <2> QED BY <2>1, <2>2
<1>9. OneSegment(g, s, d)
  BY <1>2, <1>6, <1>8, SegmentStep
<1>10. /\ segment' \in [Segments -> SegmentType] /\ chain' = [h \in Segments |-> chain'[h]]
       /\ segment'[g] = s /\ chain'[g] = d
       /\ \A h \in Segments : h # g => segment'[h] = segment[h] /\ chain'[h] = chain[h]
       /\ Live' = IF s.live THEN Live \cup {g} ELSE Live \ {g}
       /\ SegmentInv'
  BY <1>9 DEF OneSegment
<1>11. Types'
  BY <1>2, <1>10 DEF IInv, Types
<1>12. CallInv'
  BY <1>2 DEF IInv, CallInv
<1>13. MemoryInv'
  <2>1. Cardinality(Handles') <= Cardinality(Handles)
    BY <1>2, <1>6, <1>9, FewerHandles
  <2>2. Cardinality(MappedPages') = Cardinality(MappedPages) - Cardinality(pages)
    BY <1>2, <1>5, <1>6, <1>9, FewerPages
  <2>3. Cardinality(Handles) \in Nat /\ Cardinality(MappedPages) \in Nat
    BY CountFacts
  <2>4. Cardinality(pages) \in Nat
    BY <1>3, <1>5, SomePages DEF SegmentType
  <2>5. Cardinality(Handles') <= Memory
    <3>1. Cardinality(Handles') \in Nat
      <4>1. Handles' \subseteq Segments \X PageIds
        BY DEF Handles, PagesWith
      <4> QED BY <4>1, PagesFinite
    <3>2. Cardinality(Handles) <= Memory
      BY DEF IInv, MemoryInv
    <3> QED BY <2>1, <2>3, <3>1, <3>2, SizeAssumption
  <2>6. total' = PageSize * Cardinality(MappedPages')
    <3>1. PICK x : x = Cardinality(MappedPages)
      OBVIOUS
    <3>2. PICK y : y = Cardinality(pages)
      OBVIOUS
    <3>3. x \in Nat /\ y \in Nat /\ PageSize * (x - y) = PageSize * x - PageSize * y
      BY <2>3, <2>4, <3>1, <3>2, RangeFacts
    <3>4. total = PageSize * x
      BY <3>1 DEF IInv, MemoryInv
    <3> QED BY <1>2, <2>2, <3>1, <3>2, <3>3, <3>4
  <2>7. scenario.faults = 0 =>
          faults = 0 /\ \A h \in Segments : segment'[h].handles = segment'[h].mapped
    <3>1. SUFFICES ASSUME scenario.faults = 0
                   PROVE  /\ faults = 0
                          /\ \A h \in Segments : segment'[h].handles = segment'[h].mapped
      OBVIOUS
    <3>2. faults = 0 /\ \A h \in Segments : segment[h].handles = segment[h].mapped
      BY <3>1 DEF IInv, MemoryInv
    <3>3. ASSUME NEW h \in Segments PROVE segment'[h].handles = segment'[h].mapped
      <4>1. CASE h = g
        BY <4>1, <3>2, <1>6, <1>10
      <4>2. CASE h # g
        BY <4>2, <3>2, <1>10
      <4> QED BY <4>1, <4>2
    <3> QED BY <3>2, <3>3
  <2> QED BY <1>2, <2>5, <2>6, <2>7 DEF MemoryInv
<1>14. s.live => s.stream = segment[g].stream /\ s.pool = segment[g].pool
  <2>1. DOMAIN e = {0} => ~s.live
    BY <1>2 DEF Unmapping, NoSegment
  <2> QED BY <2>1, <1>7
<1>15. GraphInv'
  <2>1. ASSUME NEW h \in Live', segment'[h].pool = "graph"
        PROVE  segment'[h].stream = graph.stream /\ graph.state # "none"
    <3>1. h \in Live /\ h \in Segments
      BY <1>2, <1>10 DEF Live
    <3>2. CASE h = g
      <4>1. s.live
        BY <2>1, <3>2, <1>10 DEF Live
      <4> QED BY <2>1, <3>1, <3>2, <4>1, <1>10, <1>14 DEF IInv, GraphInv
    <3>3. CASE h # g
      BY <2>1, <3>1, <3>3, <1>10 DEF IInv, GraphInv
    <3> QED BY <3>2, <3>3
  <2>2. ASSUME NEW k \in graph.kernels
        PROVE  /\ k.seg \in Live' /\ segment'[k.seg].pool = "graph"
               /\ Touched(k.lo, k.hi) \subseteq segment'[k.seg].mapped
    <3>1. /\ k.seg \in Live /\ k.seg \in Segments /\ segment[k.seg].pool = "graph"
          /\ Touched(k.lo, k.hi) \subseteq segment[k.seg].mapped
      BY DEF IInv, GraphInv, Live
    <3>2. graph.state # "freeable"
      BY <2>2 DEF IInv, GraphInv
    <3>3. k.seg # g
      BY <3>1, <3>2, <1>2
    <3> QED BY <3>1, <3>3, <1>10
  <2>3. graph.state \notin {"capturing", "captured"} => graph.kernels = {}
    BY DEF IInv, GraphInv
  <2> QED BY <2>1, <2>2, <2>3, <1>2 DEF GraphInv
<1>16. WorkInv'
  <2>1. ASSUME scenario.replay = "capture stream", NEW w \in work PROVE WorkOK(w)'
    <3>1. WorkOK(w)
      BY <2>1 DEF IInv, WorkInv
    <3>2. /\ w.kernel.seg \in Live /\ w.kernel.seg \in Segments
          /\ Touched(w.kernel.lo, w.kernel.hi) \subseteq segment[w.kernel.seg].mapped
          /\ w.stream = segment[w.kernel.seg].stream \/ Held(w, chain[w.kernel.seg])
      BY <3>1 DEF WorkOK, Live
    <3>3. CASE w.kernel.seg # g
      BY <3>2, <3>3, <1>10 DEF WorkOK
    <3>4. CASE w.kernel.seg = g
      <4>1. PICK lo : lo = w.kernel.lo
        OBVIOUS
      <4>2. Held(w, c)
        BY <3>2, <3>4, <1>2, <2>1 DEF StreamIdle
      <4>3. /\ lo \in DOMAIN c /\ ~allocatable(c[lo]) /\ End(c, lo) = w.kernel.hi
        BY <4>1, <4>2 DEF Held, allocatable
      <4>4. lo # a
        BY <4>3, <1>2
      <4>5. lo \in DOMAIN e /\ e[lo] = c[lo]
        BY <4>3, <1>4 DEF KeepsUsed
      <4>6. DOMAIN e # {0}
        BY <4>3, <4>5, <1>4
      <4>7. d = e /\ s.live
        BY <4>6, <1>2, <1>7
      <4>8. Held(w, d)
        BY <4>1, <4>2, <4>5, <4>7 DEF Held, End
      <4>9. Touched(lo, w.kernel.hi) \subseteq segment[g].mapped \ pages
        <5>1. \A k \in pages : k \notin Touched(lo, End(c, lo))
          BY <1>2, <1>3, <4>3, <4>4, OtherPages
        <5> QED BY <5>1, <3>2, <3>4, <4>1, <4>3
      <4>10. w.kernel.seg \in Live'
        BY <3>2, <4>7, <1>10
      <4> QED BY <3>4, <4>1, <4>8, <4>9, <4>10, <1>6, <1>10 DEF WorkOK
    <3> QED BY <3>3, <3>4
  <2> QED BY <2>1, <1>2 DEF WorkInv
<1> QED BY <1>10, <1>11, <1>12, <1>13, <1>15, <1>16 DEF IInv

LEMMA ReleaseDoneInv == IInv /\ ReleaseDone => IInv'
<1> SUFFICES ASSUME IInv, ReleaseDone PROVE IInv'
  OBVIOUS
<1>1. /\ call.at = "release" /\ UNCHANGED <<scenario, deviceVars, peers, work>>
      /\ graph' = graph \/ (graph.state = "freeable" /\ graph' = [graph EXCEPT !.state = "erased"])
      /\ call' = IF call.size = 0 THEN Idle ELSE [call EXCEPT !.at = "find"]
  BY DEF ReleaseDone
<1>2. graph \in GraphType /\ call \in CallType
  BY DEF IInv, Types
<1>3. /\ graph' \in GraphType /\ graph'.stream = graph.stream /\ graph'.kernels = graph.kernels
      /\ graph'.state = graph.state \/ (graph.state = "freeable" /\ graph'.state = "erased")
  BY <1>1, <1>2 DEF GraphType
<1>4. call' \in CallType
  BY <1>1, <1>2, IdleType DEF CallType
<1>5. Types'
  BY <1>1, <1>3, <1>4 DEF IInv, Types, deviceVars
<1>6. SegmentInv' /\ MemoryInv' /\ WorkInv' /\ Live' = Live
  BY <1>1, SameMemory, SameWork DEF deviceVars
<1>7. GraphInv'
  BY <1>1, <1>3, <1>6 DEF IInv, GraphInv, deviceVars
<1>8. CallInv'
  <2>1. CASE call.size = 0
    BY <1>1, <2>1 DEF CallInv, Idle, None
  <2>2. CASE call.size # 0
    <3>1. /\ call'.at = "find" /\ call'.size = call.size /\ call'.stream = call.stream
          /\ call'.pool = call.pool
      BY <1>1, <1>2, <2>2 DEF CallType
    <3> QED BY <1>3, <2>2, <3>1 DEF IInv, CallInv
  <2> QED BY <2>1, <2>2
<1> QED BY <1>5, <1>6, <1>7, <1>8 DEF IInv

-----------------------------------------------------------------------------
\* The invariant is inductive.

LEMMA StepInv == IInv /\ Step => IInv'
<1> SUFFICES ASSUME IInv, Step PROVE IInv'
  OBVIOUS
<1>1. CASE \E g \in Live : \E a \in DOMAIN chain[g] : FreeBlock(g, a)
  BY <1>1, FreeBlockInv
<1>2. CASE ProcessEvents \/ SynchronizeEvents
  BY <1>2, EventsInv
<1>3. CASE GetFreeBlock
  BY <1>3, GetFreeBlockInv
<1>4. CASE FindExpandableBlock
  BY <1>4, FindExpandableBlockInv
<1>5. CASE MapBlock
  BY <1>5, MapBlockInv
<1>6. CASE MapOutOfMemory
  BY <1>6, MapOutOfMemoryInv
<1>7. CASE MapAsserts
  BY <1>7, MapAssertsInv
<1>8. CASE AllocBlock
  BY <1>8, AllocBlockInv
<1>9. CASE \/ \E j \in PageIds : MapError(j)
           \/ \E j \in 0..Pages : MapAndSetAccessError(j)
  BY <1>9, MapErrorInv, MapAndSetAccessErrorInv
<1>10. CASE ReleaseBlocks
  BY <1>10, ReleaseBlocksInv
<1>11. CASE ReleaseDone
  BY <1>11, ReleaseDoneInv
<1> QED BY <1>1, <1>2, <1>3, <1>4, <1>5, <1>6, <1>7, <1>8, <1>9, <1>10, <1>11 DEF Step

LEMMA ClientInv == IInv /\ Client => IInv'
<1> SUFFICES ASSUME IInv, Client PROVE IInv'
  OBVIOUS
<1>1. CASE \E s \in Streams, n \in Requests : Malloc(s, n)
  BY <1>1, MallocInv
<1>2. ASSUME NEW g \in Live, NEW a \in DOMAIN chain[g],
             \/ Free(g, a) \/ ShareIpcHandle(g, a)
             \/ \E s \in Streams : RecordStream(g, a, s) \/ Launch(g, a, s)
      PROVE  IInv'
  <2>1. CASE Free(g, a)
    BY <2>1, FreeInv
  <2>2. CASE ShareIpcHandle(g, a)
    BY <2>2, ShareIpcHandleInv
  <2>3. ASSUME NEW s \in Streams, RecordStream(g, a, s) PROVE IInv'
    BY <2>3, RecordStreamInv
  <2>4. ASSUME NEW s \in Streams, Launch(g, a, s) PROVE IInv'
    BY <2>4, LaunchInv
  <2> QED BY <1>2, <2>1, <2>2, <2>3, <2>4
<1>3. CASE (\E s \in Streams : CaptureBegin(s)) \/ CaptureEnd \/ Reset
  BY <1>3, CaptureInv
<1>4. CASE \E s \in Streams : Replay(s)
  BY <1>4, ReplayInv
<1>5. CASE EmptyCache
  BY <1>5, EmptyCacheInv
<1>6. CASE \E p \in Peers : AddPeerAccess(p)
  BY <1>6, AddPeerAccessInv
<1> QED BY <1>1, <1>2, <1>3, <1>4, <1>5, <1>6 DEF Client

LEMMA NextInv == IInv /\ [Next]_vars => IInv'
<1> SUFFICES ASSUME IInv, [Next]_vars PROVE IInv'
  OBVIOUS
<1>1. CASE Step
  BY <1>1, StepInv
<1>2. CASE Client
  BY <1>2, ClientInv
<1>3. CASE Gpu
  BY <1>3, CompleteInv DEF Gpu
<1>4. CASE UNCHANGED vars
  <2>1. UNCHANGED <<scenario, deviceVars, peers, graph, call, work>>
    BY <1>4 DEF vars, deviceVars
  <2>2. SegmentInv' /\ MemoryInv' /\ GraphInv' /\ WorkInv' /\ Live' = Live
    BY <2>1, SameMemory, SameGraph, SameWork DEF deviceVars
  <2>3. Types'
    BY <2>1 DEF IInv, Types, deviceVars
  <2>4. CallInv'
    BY <2>1, <2>2 DEF IInv, CallInv, HasSpace, deviceVars
  <2> QED BY <2>2, <2>3, <2>4 DEF IInv
<1> QED BY <1>1, <1>2, <1>3, <1>4 DEF Next, Failed

\* Every state of the allocator satisfies the inductive invariant.
THEOREM Invariance == Spec => []IInv
<1>1. Init => IInv
  BY InitIInv
<1>2. IInv /\ [Next]_vars => IInv'
  BY NextInv
<1> QED BY <1>1, <1>2, PTL DEF Spec

-----------------------------------------------------------------------------
\* What follows from it.

LEMMA BlockFacts ==
  ASSUME IInv, NEW x \in AllBlocks
  PROVE  /\ x[1] \in Live /\ x[1] \in Segments /\ x[2] \in DOMAIN chain[x[1]]
         /\ Chain(chain[x[1]]) /\ BackedBy(chain[x[1]], segment[x[1]].mapped)
         /\ BlockAt(x) = chain[x[1]][x[2]] /\ EndOf(x) = End(chain[x[1]], x[2])
<1>1. x[1] \in Live /\ x[2] \in DOMAIN chain[x[1]]
  BY DEF AllBlocks
<1> QED BY <1>1, LiveSegment DEF BlockAt, EndOf

LEMMA Agreement == IInv => DriverAgrees
<1> SUFFICES ASSUME IInv PROVE DriverAgrees
  OBVIOUS
<1>1. TypeOK
  <2>1. ASSUME NEW g \in Segments
        PROVE  /\ segment[g].handles \cup segment[g].mapped \cup segment[g].stray
                    \cup segment[g].shared \subseteq PageIds
               /\ segment[g].peers \subseteq Peers
               /\ IF g \in Live THEN Tiled(chain[g]) ELSE chain[g] = NoBlocks
    <3>1. segment[g] \in SegmentType
      BY DEF IInv, Types
    <3>2. /\ segment[g].handles \cup segment[g].mapped \cup segment[g].stray
               \cup segment[g].shared \subseteq PageIds
          /\ segment[g].peers \subseteq Peers
      BY <3>1 DEF SegmentType
    <3>3. CASE g \in Live
      <4>1. Tiled(chain[g])
        BY <3>3, LiveSegment DEF Chain
      <4> QED BY <3>2, <3>3, <4>1
    <3>4. CASE g \notin Live
      <4>1. chain[g] = NoBlocks
        BY <3>4 DEF IInv, SegmentInv, SegmentOK, Live
      <4> QED BY <3>2, <3>4, <4>1
    <3> QED BY <3>3, <3>4
  <2>2. ASSUME NEW x \in AllBlocks
        PROVE  /\ BlockAt(x).uses \cup BlockAt(x).events \subseteq Streams
               /\ ~BlockAt(x).mapped => allocatable(BlockAt(x))
    <3>1. BlockAt(x) \in BlockType /\ BlockOK(chain[x[1]], x[2])
      BY BlockFacts, ChainFacts
    <3> QED BY <3>1, BlockFacts DEF BlockType, BlockOK
  <2>3. total \in 0..Memory * PageSize
    <3>1. PICK n : n = Cardinality(MappedPages)
      OBVIOUS
    <3>2. n \in Nat /\ n <= Memory /\ total = PageSize * n
      BY <3>1, CountFacts, SizeAssumption DEF IInv, MemoryInv
    <3>3. PageSize * n \in Nat /\ PageSize * n <= Memory * PageSize
      BY <3>2, RangeFacts, SizeAssumption
    <3> QED BY <3>2, <3>3, SizeAssumption
  <2>4. /\ handle_type \in {"unspecified", "fabric", "posix"}
        /\ graph.count \in Int /\ faults \in 0..1
    BY DEF IInv, Types, GraphType
  <2> QED BY <2>1, <2>2, <2>3, <2>4 DEF TypeOK
<1>2. Backed
  <2>1. ASSUME NEW x \in AllBlocks
        PROVE  IF BlockAt(x).mapped
               THEN PagesOf(x) \subseteq segment[x[1]].mapped \ segment[x[1]].stray
               ELSE PagesOf(x) \cap segment[x[1]].mapped = {}
    <3>1. segment[x[1]].mapped \cap segment[x[1]].stray = {}
      BY BlockFacts, LiveSegment
    <3>2. IF BlockAt(x).mapped THEN PagesOf(x) \subseteq segment[x[1]].mapped
                               ELSE PagesOf(x) \cap segment[x[1]].mapped = {}
      BY BlockFacts DEF BackedBy, PagesOf
    <3> QED BY <3>1, <3>2
  <2> QED BY <2>1 DEF Backed
<1>3. Accounted
  <2>1. ASSUME NEW g \in Segments
        PROVE  /\ segment[g].mapped \cup segment[g].stray \subseteq segment[g].handles
               /\ segment[g].mapped \cap segment[g].stray = {}
    <3>1. CASE g \in Live
      BY <3>1, LiveSegment
    <3>2. CASE g \notin Live
      BY <3>2 DEF IInv, SegmentInv, SegmentOK, Live, NoSegment
    <3> QED BY <3>1, <3>2
  <2>2. /\ total = PageSize * Cardinality(MappedPages)
        /\ scenario.faults = 0 => \A g \in Segments : segment[g].handles = segment[g].mapped
    BY DEF IInv, MemoryInv
  <2> QED BY <2>1, <2>2 DEF MappedPages, Accounted
<1>4. PeersReach
  BY LiveSegment DEF PeersReach
<1> QED BY <1>1, <1>2, <1>3, <1>4 DEF DriverAgrees

\* What the allocator believes of the driver is so, through every split, merge, mapping
\* and unmapping, and after an error of muMemCreate, muMemMap or muMemSetAccess in map:
\* which blocks are mapped, how much memory it holds, and which devices reach it; pages
\* that an error left mapped are in no mapped block and keep their handles.
THEOREM AllocatorAgreesWithDriver == Spec => []DriverAgrees
BY Invariance, Agreement, PTL

\* No kernel runs on pages that have been unmapped, if a graph is replayed on the stream
\* it was captured on.
THEOREM KernelsOnMappedPages == Spec => []WorkMapped
<1>1. IInv => WorkMapped
  BY DEF IInv, WorkInv, WorkOK, WorkMapped
<1> QED BY <1>1, Invariance, PTL

\* "invariant: free -> unmapped -> *" of try_allocate_expandable_block.
THEOREM CandidateGrows == Spec => []LoopInvariant
<1>1. IInv => LoopInvariant
  <2>1. SUFFICES ASSUME IInv, Mapping PROVE LoopInvariant
    BY DEF LoopInvariant
  <2>2. MapState(call.seg, chain[call.seg], call.pos, ToMap, call.size)
    BY <2>1, MappingState
  <2>3. HasSpace(chain[call.seg], call.pos)
    BY <2>1 DEF IInv, CallInv, Mapping
  <2> QED BY <2>2, <2>3 DEF MapState, LoopInvariant
<1> QED BY <1>1, Invariance, PTL

LEMMA NothingLeft ==
  ASSUME IInv, ReleaseDone, NEW g \in InPool("default"), NEW k \in segment[g].mapped
  PROVE  \E x \in InUse : x[1] = g /\ k \in PagesOf(x)
<1>1. ToUnmap("default") = {}
  BY DEF ReleaseDone, Releasable
<1>2. g \in Live /\ segment[g].pool = "default"
  BY DEF InPool
<1>3. PICK c : c = chain[g]
  OBVIOUS
<1>4. /\ Chain(c) /\ Coalesced(c) /\ BackedBy(c, segment[g].mapped) /\ k \in PageIds
  BY <1>2, <1>3, LiveSegment DEF SegmentType
<1>5. /\ k \in Nat /\ PageSize * k \in Nat /\ PageSize * k + PageSize <= RangeSize
      /\ PageSize * k < RangeSize
  <2>1. k \in Nat /\ k + 1 <= Pages
    BY <1>4, RangeFacts DEF PageIds
  <2>2. PageSize * (k + 1) <= PageSize * Pages /\ PageSize * (k + 1) = PageSize * k + PageSize
    BY <2>1, RangeFacts
  <2> QED BY <2>1, <2>2, RangeFacts DEF RangeSize
<1>6. SUFFICES ASSUME \A x \in InUse : ~(x[1] = g /\ k \in PagesOf(x)) PROVE FALSE
  OBVIOUS
<1>7. ASSUME NEW b \in DOMAIN c, k \in Touched(b, End(c, b)) PROVE allocatable(c[b]) /\ c[b].mapped
  <2>1. PICK x : x = <<g, b>>
    OBVIOUS
  <2>2. x \in AllBlocks /\ x[1] = g /\ x[2] = b
    BY <1>2, <1>3, <2>1 DEF AllBlocks
  <2>3. BlockAt(x) = c[b] /\ PagesOf(x) = Touched(b, End(c, b))
    BY <1>3, <2>2 DEF BlockAt, PagesOf, EndOf
  <2>4. x \notin InUse
    BY <1>6, <1>7, <2>2, <2>3
  <2>5. allocatable(c[b])
    BY <2>2, <2>3, <2>4 DEF InUse
  <2> QED BY <1>4, <1>7, <2>5 DEF BackedBy
<1>8. PageSize * k \in 0..RangeSize - 1
  BY <1>5, RangeFacts
<1>9. PICK b \in DOMAIN c : b <= PageSize * k /\ PageSize * k < End(c, b)
  BY <1>4, <1>8 DEF Chain, Tiled
<1>10. b \in Nat /\ End(c, b) \in Nat
  BY <1>4, ChainFacts
<1>11. k \in Touched(b, End(c, b))
  BY <1>5, <1>9, <1>10, RangeFacts, TouchedMeaning
<1>12. allocatable(c[b]) /\ c[b].mapped
  BY <1>7, <1>11
<1>13. PageSize * k + PageSize <= End(c, b)
  <2>1. SUFFICES ASSUME End(c, b) < PageSize * k + PageSize PROVE FALSE
    BY <1>5, <1>10, RangeFacts
  <2>2. End(c, b) < RangeSize
    BY <1>5, <1>10, <2>1, RangeFacts
  <2>3. PICK n \in DOMAIN c : n = End(c, b)
    BY <1>4, <2>2, NextBlock
  <2>4. n \in Nat /\ End(c, n) \in Nat /\ n < End(c, n)
    BY <1>4, ChainFacts
  <2>5. k \in Touched(n, End(c, n))
    BY <1>5, <1>9, <2>1, <2>3, <2>4, TouchedMeaning
  <2>6. allocatable(c[n]) /\ c[n].mapped
    BY <1>7, <2>5
  <2> QED BY <1>4, <1>12, <2>3, <2>6 DEF Coalesced
<1>14. k \in Within(b, End(c, b))
  BY <1>5, <1>9, <1>10, <1>13, WithinMeaning
<1>15. PICK x : x = <<g, b>>
  OBVIOUS
<1>16. x \in AllBlocks /\ x[1] = g /\ x[2] = b
  BY <1>2, <1>3, <1>15 DEF AllBlocks
<1>17. BlockAt(x) = c[b] /\ EndOf(x) = End(c, b)
  BY <1>3, <1>16 DEF BlockAt, EndOf
<1>18. x \in ToUnmap("default")
  BY <1>2, <1>12, <1>14, <1>16, <1>17 DEF ToUnmap
<1> QED BY <1>1, <1>18

\* When release_blocks is done, a page of the default pool is mapped only where a block in
\* use touches it.
THEOREM EverythingReleased == Spec => ReleasedAll
<1>1. IInv /\ [Next]_vars =>
        [ReleaseDone =>
           \A g \in InPool("default") : \A k \in segment[g].mapped :
             \E x \in InUse : x[1] = g /\ k \in PagesOf(x)]_vars
  BY NothingLeft
<1> QED BY <1>1, Invariance, PTL DEF Spec, ReleasedAll
=============================================================================
