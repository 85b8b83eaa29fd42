------------------------ MODULE DeviceAllocator_proof ------------------------
(***************************************************************************)
(* The invariant IInv of DeviceAllocator is inductive, and the safety      *)
(* properties follow from it, for every value of the constants.  The       *)
(* lemmas on blocks come first: free_block and alloc_found_block keep the  *)
(* part of the invariant that is about blocks, the latter both for a block *)
(* taken from its pool and for one made of a segment the driver has just   *)
(* returned.                                                               *)
(***************************************************************************)
EXTENDS DeviceAllocator, FiniteSetTheorems, TLAPS

(***************************************************************************)
(* free_block replaces the blocks of Merged (the freed block u and its     *)
(* free neighbours) by one block that starts at Low.                       *)
(***************************************************************************)
MergePrev(b) == IF can_merge(b.prev) THEN b.prev ELSE 0
MergeNext(b) == IF can_merge(b.next) THEN b.next ELSE 0
Low(u, b) == IF MergePrev(b) # 0 THEN MergePrev(b) ELSE u
High(u, b) == IF MergeNext(b) # 0
                THEN MergeNext(b) + block[MergeNext(b)].size
                ELSE u + block[u].size
Merged(u, b) == {MergePrev(b), u, MergeNext(b)} \ {0}
BeforeLow(b) == IF MergePrev(b) # 0 THEN block[MergePrev(b)].prev ELSE b.prev
AfterHigh(b) == IF MergeNext(b) # 0 THEN block[MergeNext(b)].next ELSE b.next

\* The block u is out of its pool, waits for nothing and is used by no foreign
\* stream; b is its record.
Freeable(u, b) ==
  /\ u \in Blocks /\ u \notin cached
  /\ b \in Block
  /\ b.size = block[u].size /\ b.prev = block[u].prev /\ b.next = block[u].next
  /\ b.stream = block[u].stream /\ b.is_small = block[u].is_small
  /\ ~b.allocated /\ b.stream_uses = {} /\ b.event_count = 0
  /\ \A a \in Extent(u), s \in Streams : s # b.stream => pend[s][a] = 0

\* The neighbours that are merged are cached, of the same stream and pool, and
\* adjacent.
LEMMA MergeShape ==
  ASSUME IInv, NEW u, NEW STATE b, Freeable(u, b)
  PROVE  /\ MergePrev(b) # 0 =>
              /\ MergePrev(b) \in cached /\ MergePrev(b) \in Blocks
              /\ MergePrev(b) + block[MergePrev(b)].size = u
              /\ block[MergePrev(b)].next = u
              /\ block[MergePrev(b)].stream = b.stream
              /\ block[MergePrev(b)].is_small = b.is_small
         /\ MergeNext(b) # 0 =>
              /\ MergeNext(b) \in cached /\ MergeNext(b) \in Blocks
              /\ u + block[u].size = MergeNext(b)
              /\ block[MergeNext(b)].prev = u
              /\ block[MergeNext(b)].stream = b.stream
              /\ block[MergeNext(b)].is_small = b.is_small
         /\ u \in Nat /\ u > 0 /\ block[u].size \in Nat /\ block[u].size > 0
         /\ MergePrev(b) # 0 => block[MergePrev(b)].prev \notin cached
         /\ MergeNext(b) # 0 => block[MergeNext(b)].next \notin cached
<1>. USE DEF Freeable, Blocks, Units
<1>1. block \in [Units -> Block] /\ NumUnits \in Nat
  BY SizeAssumption DEF IInv, TypeOK
<1>2. u \in Units /\ u \in Nat /\ u > 0 /\ block[u].size \in Nat /\ block[u].size > 0
  BY <1>1 DEF Block
<1>3. ASSUME MergePrev(b) # 0
      PROVE  /\ MergePrev(b) \in cached /\ MergePrev(b) \in Blocks
              /\ MergePrev(b) + block[MergePrev(b)].size = u
              /\ block[MergePrev(b)].next = u
              /\ block[MergePrev(b)].stream = b.stream
              /\ block[MergePrev(b)].is_small = b.is_small
  BY <1>1, <1>2, <1>3 DEF MergePrev, IInv, Linked, FlagsMatchPools
<1>4. ASSUME MergeNext(b) # 0
      PROVE  /\ MergeNext(b) \in cached /\ MergeNext(b) \in Blocks
              /\ u + block[u].size = MergeNext(b)
              /\ block[MergeNext(b)].prev = u
              /\ block[MergeNext(b)].stream = b.stream
              /\ block[MergeNext(b)].is_small = b.is_small
  BY <1>1, <1>2, <1>4 DEF MergeNext, IInv, Linked, FlagsMatchPools
<1>5. ASSUME MergePrev(b) # 0 PROVE block[MergePrev(b)].prev \notin cached
  BY <1>1, <1>3, <1>5 DEF IInv, Linked, Coalesced, FlagsMatchPools
<1>6. ASSUME MergeNext(b) # 0 PROVE block[MergeNext(b)].next \notin cached
  BY <1>4, <1>6 DEF IInv, Coalesced
<1>. QED BY <1>2, <1>3, <1>4, <1>5, <1>6

\* What the step does to the blocks, in terms of Merged, Low and High.
FreeShape(u, b) ==
  LET lo == Low(u, b)
  IN /\ block' \in [Units -> Block] /\ cached' \subseteq Units /\ active' \subseteq Units
     /\ stats' \in [inactive_split : Int, inactive_split_bytes : Int]
     /\ lo \in Units /\ lo \in Merged(u, b) /\ Merged(u, b) \subseteq Blocks
     /\ High(u, b) \in Nat /\ lo < High(u, b) /\ High(u, b) - 1 <= NumUnits
     /\ block'[lo] = Linking(b, High(u, b) - lo, BeforeLow(b), AfterHigh(b))
     /\ Blocks' = (Blocks \ Merged(u, b)) \cup {lo}
     /\ \A a \in Blocks \ Merged(u, b) :
          block'[a] = IF a = AfterHigh(b) THEN Linking(block[a], block[a].size, lo, block[a].next)
                                          ELSE block[a]
     /\ \A a \in Units \ Blocks' : block'[a] = NoBlock
     /\ cached' = (cached \ Merged(u, b)) \cup {lo} /\ active' = active \ {u}
     /\ \A d \in Merged(u, b) : lo <= d /\ d + block[d].size <= High(u, b)
                               /\ block[d].stream = b.stream
                               /\ block[d].is_small = b.is_small
                               /\ (d = u \/ d \in cached)
     /\ \A x \in Int : lo <= x /\ x < High(u, b) =>
          \E d \in Merged(u, b) : d <= x /\ x < d + block[d].size
     /\ AfterHigh(b) # 0 => /\ AfterHigh(b) = High(u, b)
                            /\ AfterHigh(b) \in Blocks \ Merged(u, b)
     /\ BeforeLow(b) # 0 => /\ BeforeLow(b) \in Blocks \ Merged(u, b)
                            /\ block[BeforeLow(b)].next = lo
     /\ block[lo].prev = BeforeLow(b)
     /\ \A d \in Merged(u, b) \ {lo} : block[d].prev \in Merged(u, b)
     /\ \A d \in Merged(u, b) : block[d].next \in Merged(u, b) \cup {AfterHigh(b)}
     /\ AfterHigh(b) # 0 => block[AfterHigh(b)].prev \in Merged(u, b)
     /\ \E d \in Merged(u, b) :
          block[d].next = AfterHigh(b) /\ d + block[d].size = High(u, b)
     /\ AfterHigh(b) \notin cached /\ BeforeLow(b) \notin cached

\* What free_block does to the blocks, for a block that is ready to be freed.
LEMMA FreeBlockShape ==
  ASSUME IInv, NEW u, NEW STATE b, Freeable(u, b), free_block(u, b)
  PROVE  FreeShape(u, b)
<1>. DEFINE p == MergePrev(b)
            n == MergeNext(b)
            lo == Low(u, b)
            psize == IF p # 0 THEN block[p].size ELSE 0
            nsize == IF n # 0 THEN block[n].size ELSE 0
            merged == Linking(b, b.size + psize + nsize, BeforeLow(b), AfterHigh(b))
<1>1. /\ block \in [Units -> Block] /\ NumUnits \in Nat /\ Units = 1..NumUnits
      /\ cached \subseteq Units /\ active \subseteq Units
      /\ stats \in [inactive_split : Int, inactive_split_bytes : Int]
      /\ NULL \notin Streams
  BY SizeAssumption, ThreadAssumption DEF IInv, TypeOK, Units
<1>2. /\ p # 0 => /\ p \in cached /\ p \in Blocks
                  /\ p + block[p].size = u /\ block[p].next = u
                  /\ block[p].stream = b.stream /\ block[p].is_small = b.is_small
                  /\ block[p].prev \notin cached
      /\ n # 0 => /\ n \in cached /\ n \in Blocks
                  /\ u + block[u].size = n /\ block[n].prev = u
                  /\ block[n].stream = b.stream /\ block[n].is_small = b.is_small
                  /\ block[n].next \notin cached
      /\ u \in Nat /\ u > 0 /\ block[u].size \in Nat /\ block[u].size > 0
  BY MergeShape
<1>3. \A a \in Blocks : a \in Units /\ a \in Nat /\ block[a].size \in Nat /\ block[a].size > 0
                        /\ a + block[a].size - 1 <= NumUnits
  BY <1>1 DEF Blocks, Block, IInv, WellFormed
<1>4. u \in Blocks /\ b \in Block /\ u \notin cached /\ b.size = block[u].size
      /\ b.prev = block[u].prev /\ b.next = block[u].next
  BY DEF Freeable
<1>5a. /\ p # 0 => p \in Nat /\ block[p].size \in Nat /\ block[p].size > 0
       /\ n # 0 => n \in Nat /\ block[n].size \in Nat /\ block[n].size > 0
                  /\ n + block[n].size - 1 <= NumUnits
       /\ u + block[u].size - 1 <= NumUnits
  BY <1>2, <1>3, <1>4
<1>5b. /\ psize \in Nat /\ nsize \in Nat
       /\ lo = u - psize /\ High(u, b) = u + block[u].size + nsize
       /\ lo \in Nat /\ High(u, b) \in Nat /\ High(u, b) - 1 <= NumUnits
       /\ p # 0 => lo = p /\ psize = block[p].size
       /\ p = 0 => lo = u
  BY <1>2, <1>5a DEF Low, High
<1>5. lo \in Blocks /\ lo \in Merged(u, b) /\ Merged(u, b) \subseteq Blocks /\ 0 \notin Merged(u, b)
  BY <1>2, <1>3, <1>4 DEF Low, Merged
<1>5c. \A a \in Units : a \in Merged(u, b) <=> a = u \/ a = n \/ a = lo
  BY <1>1, <1>2 DEF Merged, Low
<1>. HIDE DEF psize, nsize, lo, p, n
<1>6. High(u, b) \in Nat /\ lo < High(u, b) /\ High(u, b) - 1 <= NumUnits
      /\ High(u, b) = lo + (b.size + psize + nsize)
  BY <1>2, <1>4, <1>5b
<1>7a. \A d \in Merged(u, b) : d = u \/ (d = p /\ p # 0) \/ (d = n /\ n # 0)
  BY DEF Merged, p, n
<1>7b. n # 0 => High(u, b) = n + block[n].size
  BY DEF High, n
<1>7. \A d \in Merged(u, b) : lo <= d /\ d + block[d].size <= High(u, b)
                            /\ block[d].stream = b.stream
                            /\ block[d].is_small = b.is_small
                            /\ (d = u \/ d \in cached)
  <2>. SUFFICES ASSUME NEW d \in Merged(u, b)
                PROVE  lo <= d /\ d + block[d].size <= High(u, b)
                            /\ block[d].stream = b.stream
                            /\ block[d].is_small = b.is_small
                            /\ (d = u \/ d \in cached)
    OBVIOUS
  <2>1. CASE d = u
    BY <2>1, <1>2, <1>5b DEF Freeable
  <2>2. CASE d = p /\ p # 0
    BY <2>2, <1>2, <1>5a, <1>5b
  <2>3. CASE d = n /\ n # 0
    BY <2>3, <1>2, <1>5a, <1>5b, <1>7b
  <2>. QED BY <1>7a, <2>1, <2>2, <2>3
<1>8. \A x \in Int : lo <= x /\ x < High(u, b) =>
        \E d \in Merged(u, b) : d <= x /\ x < d + block[d].size
  <2>. SUFFICES ASSUME NEW x \in Int, lo <= x, x < High(u, b)
                PROVE  \E d \in Merged(u, b) : d <= x /\ x < d + block[d].size
    OBVIOUS
  <2>1. CASE x < u
    BY <2>1, <1>2, <1>5, <1>5a, <1>5b
  <2>2. CASE u <= x /\ x < u + block[u].size
    BY <2>2, <1>2 DEF Merged
  <2>3. CASE u + block[u].size <= x
    <3>1. n # 0 /\ n \in Merged(u, b)
      BY <2>3, <1>2, <1>5b DEF nsize, Merged, n
    <3>. QED BY <3>1, <2>3, <1>2, <1>7b
  <2>. QED BY <2>1, <2>2, <2>3, <1>2
<1>9. AfterHigh(b) # 0 => AfterHigh(b) = High(u, b) /\ AfterHigh(b) \in Blocks
  BY <1>2, <1>3, <1>4 DEF AfterHigh, High, IInv, Linked, n
<1>10. AfterHigh(b) # 0 => AfterHigh(b) \notin Merged(u, b)
  BY <1>3, <1>5, <1>6, <1>7, <1>9
<1>11. /\ block[lo].prev = BeforeLow(b)
       /\ BeforeLow(b) # 0 => BeforeLow(b) \in Blocks /\ block[BeforeLow(b)].next = lo
  BY <1>2, <1>3, <1>4, <1>5 DEF BeforeLow, Low, IInv, Linked, lo, p
<1>12. BeforeLow(b) # 0 => BeforeLow(b) \notin Merged(u, b)
  <2>. SUFFICES ASSUME BeforeLow(b) # 0 PROVE BeforeLow(b) \notin Merged(u, b)
    OBVIOUS
  <2>1. lo = BeforeLow(b) + block[BeforeLow(b)].size
    BY <1>11, <1>3, <1>5 DEF IInv, Linked
  <2>. QED BY <2>1, <1>11, <1>3, <1>7
<1>13. AfterHigh(b) \notin cached /\ BeforeLow(b) \notin cached
  <2>1. 0 \notin cached
    BY <1>1
  <2>2. n = 0 => AfterHigh(b) \notin cached
    BY <1>4, <1>1, <2>1 DEF AfterHigh, MergeNext, n, IInv, FlagsMatchPools, Linked
  <2>3. p = 0 => BeforeLow(b) \notin cached
    BY <1>4, <1>1, <2>1 DEF BeforeLow, MergePrev, p, IInv, FlagsMatchPools, Linked
  <2>. QED BY <2>2, <2>3, <1>2 DEF AfterHigh, BeforeLow, p, n
<1>14. merged \in Block /\ merged.size = High(u, b) - lo
       /\ merged = Linking(b, High(u, b) - lo, BeforeLow(b), AfterHigh(b))
  <2>1. BeforeLow(b) \in 0..NumUnits /\ AfterHigh(b) \in 0..NumUnits
    BY <1>1, <1>3, <1>4, <1>9, <1>11 DEF Blocks
  <2>2. High(u, b) - lo \in 0..NumUnits /\ High(u, b) - lo = b.size + psize + nsize
    <3>1. High(u, b) - lo = b.size + psize + nsize
      BY <1>5b, <1>2, <1>4
    <3>2. lo > 0
      BY <1>5, <1>3, <1>1
    <3>3. High(u, b) - 1 <= NumUnits /\ lo < High(u, b) /\ lo \in Nat /\ High(u, b) \in Nat
      BY <1>6, <1>5b
    <3>4. High(u, b) - lo \in 0..NumUnits
      BY <3>2, <3>3, <1>1
    <3>. QED BY <3>1, <3>4
  <2>. QED BY <2>1, <2>2, <1>4 DEF Block, Linking
<1>. HIDE DEF merged
<1>15. /\ block' = [a \in Units |->
                    IF a = lo THEN merged
                    ELSE IF a = u \/ a = n THEN NoBlock
                    ELSE IF a = AfterHigh(b) THEN Linking(block[a], block[a].size, lo, block[a].next)
                    ELSE block[a]]
       /\ cached' = (cached \ {n}) \cup {lo}
       /\ active' = active \ {u}
       /\ stats' \in [inactive_split : Int, inactive_split_bytes : Int]
  <2>1. psize \in Int /\ nsize \in Int /\ merged.size \in Int
    BY <1>5b, <1>14 DEF Block
  <2>2. stats.inactive_split \in Int /\ stats.inactive_split_bytes \in Int
    BY <1>1
  <2>3. /\ cached' = (cached \ {n}) \cup {lo}
        /\ active' = active \ {u}
    BY DEF free_block, MergePrev, MergeNext, Low, lo, p, n
  <2>4. block' = [a \in Units |->
                    IF a = lo THEN merged
                    ELSE IF a = u \/ a = n THEN NoBlock
                    ELSE IF a = AfterHigh(b) THEN Linking(block[a], block[a].size, lo, block[a].next)
                    ELSE block[a]]
    BY DEF free_block, MergePrev, MergeNext, Low, BeforeLow, AfterHigh,
           psize, nsize, lo, p, n, merged
  <2>5. stats' = [inactive_split |->
                    stats.inactive_split
                      - ((IF p # 0 THEN 1 ELSE 0) + (IF n # 0 THEN 1 ELSE 0))
                      + (IF is_split(merged) THEN 1 ELSE 0),
                  inactive_split_bytes |->
                    stats.inactive_split_bytes - psize - nsize
                      + (IF is_split(merged) THEN merged.size ELSE 0)]
    BY DEF free_block, MergePrev, MergeNext, Low, BeforeLow, AfterHigh,
           psize, nsize, lo, p, n, merged
  <2>6. stats' \in [inactive_split : Int, inactive_split_bytes : Int]
    BY <2>1, <2>2, <2>5
  <2>. QED BY <2>3, <2>4, <2>6
<1>16. block' \in [Units -> Block]
  <2>1. NoBlock \in Block
    BY <1>1 DEF NoBlock, Block
  <2>2. \A a \in Units : Linking(block[a], block[a].size, lo, block[a].next) \in Block
    BY <1>1, <1>3, <1>5, lo \in 0..NumUnits DEF Block, Linking
  <2>. QED BY <1>15, <1>14, <2>1, <2>2, <1>1
<1>17. \A a \in Blocks \ Merged(u, b) :
          block'[a] = IF a = AfterHigh(b) THEN Linking(block[a], block[a].size, lo, block[a].next)
                                          ELSE block[a]
  BY <1>15, <1>5c, <1>3
<1>18. Blocks' = (Blocks \ Merged(u, b)) \cup {lo}
  <2>1. merged.size > 0
    BY <1>14, <1>6, <1>5, <1>3
  <2>2. NoBlock.size = 0
    BY DEF NoBlock
  <2>4. \A a \in Units : Linking(block[a], block[a].size, lo, block[a].next).size = block[a].size
    BY DEF Linking
  <2>. QED BY <1>15, <2>1, <2>2, <1>5c, <2>4, <1>5, <1>3 DEF Blocks
<1>19. \A a \in Units \ Blocks' : block'[a] = NoBlock
  <2>1. \A a \in Units : block[a].size = 0 => block[a] = NoBlock
    BY <1>1 DEF IInv, WellFormed, Block
  <2>2. \A a \in Units : a \notin Blocks => block[a] = NoBlock
    BY <1>1, <2>1 DEF Blocks, Block
  <2>. QED BY <2>2, <1>15, <1>18, <1>9, <1>10, <1>5c, <1>1
<1>20. cached' = (cached \ Merged(u, b)) \cup {lo}
  BY <1>15, <1>2, <1>4, <1>1 DEF Merged, Low, lo, p, n
<1>21. /\ lo \in Units
       /\ AfterHigh(b) # 0 => AfterHigh(b) \in Blocks \ Merged(u, b)
       /\ BeforeLow(b) # 0 => BeforeLow(b) \in Blocks \ Merged(u, b)
       /\ block'[lo] = Linking(b, High(u, b) - lo, BeforeLow(b), AfterHigh(b))
       /\ cached' \subseteq Units /\ active' \subseteq Units
  BY <1>1, <1>3, <1>5, <1>9, <1>10, <1>11, <1>12, <1>14, <1>15, <1>20
<1>22. \A d \in Merged(u, b) \ {lo} : block[d].prev \in Merged(u, b)
  BY <1>2, <1>3, <1>4, <1>5c, <1>5, <1>5b DEF Merged, p, n, MergePrev
<1>23. \E d \in Merged(u, b) : block[d].next = AfterHigh(b) /\ d + block[d].size = High(u, b)
  BY <1>2, <1>4 DEF Merged, AfterHigh, High
<1>24. AfterHigh(b) # 0 => block[AfterHigh(b)].prev \in Merged(u, b)
  BY <1>23, <1>5 DEF IInv, Linked
<1>25. \A d \in Merged(u, b) : block[d].next \in Merged(u, b) \cup {AfterHigh(b)}
  <2>1. u \in Merged(u, b) /\ n # 0 => n \in Merged(u, b)
    BY <1>2 DEF Merged, n
  <2>2. block[u].next = IF n # 0 THEN n ELSE AfterHigh(b)
    BY <1>2, <1>4 DEF AfterHigh, n, MergeNext
  <2>3. n # 0 => block[n].next = AfterHigh(b)
    BY DEF AfterHigh, n
  <2>. QED BY <2>1, <2>2, <2>3, <1>7a, <1>2, <1>4 DEF Merged
<1>. QED BY <1>5, <1>6, <1>7, <1>8, <1>9, <1>11, <1>13, <1>22, <1>23, <1>24, <1>25,
            <1>15, <1>16, <1>17, <1>18, <1>19, <1>20, <1>21, Zenon DEF FreeShape, lo

(***************************************************************************)
(* A cached block is quiet.                                                *)
(***************************************************************************)
LEMMA CachedQuiet ==
  ASSUME IInv
  PROVE  \A d \in cached :
           /\ d \in Blocks /\ ~block[d].allocated
           /\ block[d].stream_uses = {} /\ block[d].event_count = 0
           /\ \A s \in Streams : musa_events[s][d] = NoEvent
           /\ \A a \in Extent(d), s \in Streams :
                s # block[d].stream => pend[s][a] = 0
<1>. SUFFICES ASSUME NEW d \in cached
              PROVE  /\ d \in Blocks /\ ~block[d].allocated
                     /\ block[d].stream_uses = {} /\ block[d].event_count = 0
                     /\ \A s \in Streams : musa_events[s][d] = NoEvent
                     /\ \A a \in Extent(d), s \in Streams :
                          s # block[d].stream => pend[s][a] = 0
  OBVIOUS
<1>1. d \in Blocks /\ ~block[d].allocated /\ block[d].stream_uses = {}
      /\ block[d].event_count = 0
  BY DEF IInv, FlagsMatchPools, can_merge
<1>2. \A s \in Streams : musa_events[s][d] = NoEvent
  <2>. DEFINE W == {s \in Streams : musa_events[s][d] # NoEvent}
  <2>1. Cardinality(W) = 0
    BY <1>1 DEF IInv, EventCounts, Blocks
  <2>2. IsFiniteSet(W)
    BY StreamAssumption, FS_Subset
  <2>3. W = {}
    BY <2>1, <2>2, FS_EmptySet
  <2>. QED BY <2>3
<1>3. \A a \in Extent(d), s \in Streams : s # block[d].stream => pend[s][a] = 0
  <2>. SUFFICES ASSUME NEW a \in Extent(d), NEW s \in Streams, s # block[d].stream
                PROVE  pend[s][a] = 0
    OBVIOUS
  <2>1. a \in Units
    BY <1>1, SizeAssumption DEF IInv, TypeOK, WellFormed, Extent, Blocks, Units, Block
  <2>2. pend[s][a] \in Nat
    BY <2>1 DEF IInv, TypeOK
  <2>. QED BY <1>1, <1>2, <2>2 DEF IInv, WorkTracked, NoEvent
<1>. QED BY <1>1, <1>2, <1>3

\* Neighbours in the linked list are in the same segment.
LEMMA SameSegment ==
  ASSUME IInv, NEW u \in Blocks, block[u].next # 0, NEW p \in Settled
  PROVE  Inside(u, p) <=> Inside(block[u].next, p)
<1>. DEFINE v == block[u].next
<1>1. v \in Blocks /\ v = u + block[u].size /\ block[v].prev = u
  BY DEF IInv, Linked
<1>2. \A a \in Blocks : a \in Nat /\ a > 0 /\ block[a].size \in Nat /\ block[a].size > 0
  BY SizeAssumption DEF IInv, TypeOK, Blocks, Units, Block
<1>3. \A q \in Settled : q \in Nat /\ segment[q] \in Nat /\ segment[q] > 0
  BY SizeAssumption DEF IInv, TypeOK, Settled, Units
<1>4. \A q, r \in Settled : q < r => q + segment[q] <= r
  BY DEF IInv, SegmentsDisjoint, Settled
<1>5. v \notin Settled
  BY <1>1, <1>2 DEF IInv, SegmentsSplit
<1>6. PICK q \in Settled : Inside(u, q)
  BY DEF IInv, SegmentsSplit
<1>7. PICK r \in Settled : Inside(v, r)
  BY <1>1 DEF IInv, SegmentsSplit
<1>8. q = r
  BY <1>1, <1>2, <1>3, <1>4, <1>5, <1>6, <1>7 DEF Inside
<1>9. ASSUME NEW a \in Blocks, NEW x \in Settled, NEW y \in Settled, Inside(a, x), Inside(a, y)
      PROVE  x = y
  BY <1>9, <1>2, <1>3, <1>4 DEF Inside
<1>. QED BY <1>1, <1>6, <1>7, <1>8, <1>9

(***************************************************************************)
(* The part of the invariant that is about blocks.                         *)
(***************************************************************************)
BlockInv ==
  /\ WellFormed /\ Linked /\ Disjoint /\ FlagsMatchPools /\ UsesAllocated
  /\ EventCounts /\ Coalesced /\ WorkTracked /\ UncoveredIdle
  /\ SegmentsSplit /\ SplitSizes

\* Facts about types that the proofs below use again and again.
LEMMA Types ==
  ASSUME IInv
  PROVE  /\ block \in [Units -> Block] /\ NumUnits \in Nat /\ Units = 1..NumUnits
         /\ cached \subseteq Units /\ active \subseteq Units /\ NULL \notin Streams
         /\ \A a \in Units : block[a].size \in Nat /\ block[a].prev \in Nat /\ block[a].next \in Nat
         /\ \A a \in Blocks : /\ a \in Units /\ a \in Nat /\ a > 0
                              /\ block[a].size \in Nat /\ block[a].size > 0
                              /\ a + block[a].size - 1 <= NumUnits
                              /\ block[a].stream \in Streams
         /\ \A p \in Settled : /\ p \in Units /\ p \in Nat /\ p > 0
                               /\ segment[p] \in Nat /\ segment[p] > 0
                               /\ p + segment[p] - 1 <= NumUnits
         /\ \A p, q \in Settled : p < q => p + segment[p] <= q
         /\ \A u \in Blocks : \A a \in Extent(u) : a \in Units /\ a \in Nat
         /\ \A s \in Streams, a \in Units : /\ pend[s][a] \in Nat
                                           /\ musa_events[s][a] \in Nat \cup {NoEvent}
<1>1. block \in [Units -> Block] /\ NumUnits \in Nat /\ Units = 1..NumUnits
      /\ cached \subseteq Units /\ active \subseteq Units /\ NULL \notin Streams
      /\ segment \in [Units -> Nat]
  BY SizeAssumption, ThreadAssumption DEF IInv, TypeOK, Units
<1>2. \A a \in Units : block[a].size \in Nat /\ block[a].prev \in Nat /\ block[a].next \in Nat
  <2>. SUFFICES ASSUME NEW a \in Units
                PROVE  block[a].size \in Nat /\ block[a].prev \in Nat /\ block[a].next \in Nat
    OBVIOUS
  <2>1. block[a] \in Block
    BY <1>1
  <2>2. /\ block[a].size \in 0..NumUnits /\ block[a].prev \in 0..NumUnits
        /\ block[a].next \in 0..NumUnits
    BY <2>1 DEF Block
  <2>. QED BY <2>2
<1>3. \A a \in Blocks : /\ a \in Units /\ a \in Nat /\ a > 0
                        /\ block[a].size \in Nat /\ block[a].size > 0
                        /\ a + block[a].size - 1 <= NumUnits
                        /\ block[a].stream \in Streams
  BY <1>1, <1>2 DEF IInv, WellFormed, Blocks
<1>4. \A p \in Settled : /\ p \in Units /\ p \in Nat /\ p > 0
                         /\ segment[p] \in Nat /\ segment[p] > 0
                         /\ p + segment[p] - 1 <= NumUnits
  BY <1>1 DEF IInv, SegmentsDisjoint, Settled
<1>5. \A p, q \in Settled : p < q => p + segment[p] <= q
  BY DEF IInv, SegmentsDisjoint, Settled
<1>6. \A u \in Blocks : \A a \in Extent(u) : a \in Units /\ a \in Nat
  BY <1>1, <1>3 DEF Extent
<1>7. \A s \in Streams, a \in Units : /\ pend[s][a] \in Nat
                                    /\ musa_events[s][a] \in Nat \cup {NoEvent}
  BY DEF IInv, TypeOK
<1>. QED BY <1>1, <1>2, <1>3, <1>4, <1>5, <1>6, <1>7

\* free_block, called with the last event of the block gone, keeps the invariant
\* of the blocks.
LEMMA FreeBlockInv ==
  ASSUME IInv, NEW u, NEW STATE b, Freeable(u, b), free_block(u, b),
         pend' = pend, segment' = segment, InFlightSegments' = InFlightSegments,
         \A s \in Streams, a \in Units :
           musa_events'[s][a] = IF a = u THEN NoEvent ELSE musa_events[s][a]
  PROVE  BlockInv'
<1>0. PICK lo : lo = Low(u, b)
  OBVIOUS
<1>. DEFINE hi == High(u, b)
            M == Merged(u, b)
            after == AfterHigh(b)
            before == BeforeLow(b)
<1>1. FreeShape(u, b)
  BY FreeBlockShape
<1>2. /\ block' \in [Units -> Block] /\ lo \in Units /\ lo \in M /\ M \subseteq Blocks
      /\ hi \in Nat /\ lo < hi /\ hi - 1 <= NumUnits
      /\ block'[lo] = Linking(b, hi - lo, before, after)
      /\ Blocks' = (Blocks \ M) \cup {lo}
      /\ \A a \in Units \ Blocks' : block'[a] = NoBlock
      /\ cached' = (cached \ M) \cup {lo} /\ active' = active \ {u}
      /\ block[lo].prev = before
      /\ \A d \in M \ {lo} : block[d].prev \in M
      /\ \A d \in M : block[d].next \in M \cup {after}
      /\ after \notin cached /\ before \notin cached
  BY <1>0, <1>1 DEF FreeShape
<1>3. /\ \A a \in Blocks \ M :
          block'[a] = IF a = after THEN Linking(block[a], block[a].size, lo, block[a].next)
                                   ELSE block[a]
      /\ \A d \in M : /\ lo <= d /\ d + block[d].size <= hi
                      /\ block[d].stream = b.stream /\ block[d].is_small = b.is_small
                      /\ (d = u \/ d \in cached)
      /\ \A x \in Int : lo <= x /\ x < hi => \E d \in M : d <= x /\ x < d + block[d].size
  BY <1>0, <1>1 DEF FreeShape
<1>4. /\ after # 0 => after = hi /\ after \in Blocks \ M /\ block[after].prev \in M
      /\ before # 0 => before \in Blocks \ M /\ block[before].next = lo
      /\ \E d \in M : block[d].next = after /\ d + block[d].size = hi
  BY <1>0, <1>1 DEF FreeShape
<1>5. /\ block \in [Units -> Block] /\ NumUnits \in Nat /\ Units = 1..NumUnits
      /\ cached \subseteq Units
      /\ \A a \in Units : block[a].size \in Nat /\ block[a].prev \in Nat /\ block[a].next \in Nat
      /\ \A a \in Blocks : /\ a \in Units /\ a \in Nat /\ a > 0
                           /\ block[a].size \in Nat /\ block[a].size > 0
                           /\ a + block[a].size - 1 <= NumUnits
                           /\ block[a].stream \in Streams
  BY Types
<1>6. /\ u \in Blocks /\ u \notin cached
      /\ ~b.allocated /\ b.stream_uses = {} /\ b.event_count = 0
      /\ \A a \in Extent(u), s \in Streams : s # b.stream => pend[s][a] = 0
  BY DEF Freeable
<1>7. u \in M
  BY <1>6, <1>5 DEF Merged
<1>8. /\ block'[lo].size = hi - lo /\ block'[lo].prev = before /\ block'[lo].next = after
      /\ block'[lo].stream = b.stream /\ block'[lo].is_small = b.is_small
      /\ ~block'[lo].allocated /\ block'[lo].stream_uses = {} /\ block'[lo].event_count = 0
  BY <1>2, <1>6 DEF Linking
<1>9. \A a \in Blocks \ M : /\ block'[a].size = block[a].size
                            /\ block'[a].next = block[a].next
                            /\ block'[a].prev = IF a = after THEN lo ELSE block[a].prev
                            /\ block'[a].stream = block[a].stream
                            /\ block'[a].is_small = block[a].is_small
                            /\ block'[a].allocated = block[a].allocated
                            /\ block'[a].stream_uses = block[a].stream_uses
                            /\ block'[a].event_count = block[a].event_count
  <2>. SUFFICES ASSUME NEW a \in Blocks \ M
                PROVE  /\ block'[a].size = block[a].size
                       /\ block'[a].next = block[a].next
                       /\ block'[a].prev = IF a = after THEN lo ELSE block[a].prev
                       /\ block'[a].stream = block[a].stream
                       /\ block'[a].is_small = block[a].is_small
                       /\ block'[a].allocated = block[a].allocated
                       /\ block'[a].stream_uses = block[a].stream_uses
                       /\ block'[a].event_count = block[a].event_count
    OBVIOUS
  <2>1. CASE a = after
    <3>1. block'[a] = Linking(block[a], block[a].size, lo, block[a].next)
      BY <1>3, <2>1
    <3>. QED BY <3>1, <2>1 DEF Linking
  <2>2. CASE a # after
    BY <1>3, <2>2
  <2>. QED BY <2>1, <2>2
<1>10. \A d \in cached : /\ d \in Blocks /\ ~block[d].allocated
                         /\ block[d].stream_uses = {} /\ block[d].event_count = 0
                         /\ \A s \in Streams : musa_events[s][d] = NoEvent
                         /\ \A a \in Extent(d), s \in Streams :
                              s # block[d].stream => pend[s][a] = 0
  BY CachedQuiet
<1>. HIDE DEF hi, M, after, before
<1>11. WellFormed'
  <2>. SUFFICES ASSUME NEW a \in Units
                PROVE  IF block'[a].size > 0
                         THEN a + block'[a].size - 1 <= NumUnits /\ block'[a].stream \in Streams
                         ELSE block'[a] = NoBlock
    BY DEF WellFormed
  <2>1. CASE a = lo
    BY <2>1, <1>2, <1>5, <1>6, <1>8 DEF Freeable
  <2>2. CASE a \in Blocks \ M
    BY <2>2, <1>5, <1>9
  <2>3. CASE a \notin Blocks'
    BY <2>3, <1>2 DEF NoBlock
  <2>. QED BY <2>1, <2>2, <2>3, <1>2
<1>12. Disjoint'
  <2>. SUFFICES ASSUME NEW v \in Blocks', NEW w \in Blocks', v < w
                PROVE  v + block'[v].size <= w
    BY DEF Disjoint
  <2>0. \A x, y \in Blocks : x < y => x + block[x].size <= y
    BY DEF IInv, Disjoint
  <2>1. CASE v \in Blocks \ M /\ w \in Blocks \ M
    BY <2>0, <2>1, <1>9
  <2>2. CASE v \in Blocks \ M /\ w = lo
    BY <2>0, <2>2, <1>2, <1>9
  <2>3. CASE v = lo /\ w \in Blocks \ M
    <3>1. ~(w < hi)
      <4>. SUFFICES ASSUME w < hi PROVE FALSE
        OBVIOUS
      <4>1. PICK d \in M : d <= w /\ w < d + block[d].size
        BY <2>3, <1>3, <1>5, <1>2
      <4>. QED BY <4>1, <2>0, <2>3, <1>2, <1>5
    <3>. QED BY <3>1, <2>3, <1>2, <1>5, <1>8
  <2>. QED BY <2>1, <2>2, <2>3, <1>2, <1>5
<1>13. Linked'
  <2>. SUFFICES ASSUME NEW v \in Blocks'
                PROVE  /\ block'[v].next # 0 =>
                            /\ block'[v].next = v + block'[v].size
                            /\ block'[v].next \in Blocks'
                            /\ block'[block'[v].next].prev = v
                            /\ block'[block'[v].next].stream = block'[v].stream
                            /\ block'[block'[v].next].is_small = block'[v].is_small
                       /\ block'[v].prev # 0 =>
                            /\ block'[v].prev \in Blocks'
                            /\ block'[block'[v].prev].next = v
    BY DEF Linked
  <2>0. \A x \in Blocks :
          /\ block[x].next # 0 =>
               /\ block[x].next = x + block[x].size /\ block[x].next \in Blocks
               /\ block[block[x].next].prev = x
               /\ block[block[x].next].stream = block[x].stream
               /\ block[block[x].next].is_small = block[x].is_small
          /\ block[x].prev # 0 =>
               /\ block[x].prev \in Blocks /\ block[block[x].prev].next = x
    BY DEF IInv, Linked
  <2>1. CASE v = lo
    <3>1. after # 0 => /\ after \in Blocks' /\ block'[after].prev = lo
                       /\ block'[after].stream = b.stream
                       /\ block'[after].is_small = b.is_small
      BY <1>2, <1>3, <1>4, <1>9, <2>0
    <3>2. before # 0 => before \in Blocks' /\ block'[before].next = lo
      BY <1>2, <1>4, <1>9
    <3>. QED BY <2>1, <3>1, <3>2, <1>2, <1>4, <1>5, <1>8
  <2>2. CASE v \in Blocks \ M
    <3>1. ASSUME block[v].next # 0
          PROVE  /\ block[v].next \in Blocks'
                 /\ block'[block[v].next].prev = v
                 /\ block'[block[v].next].stream = block[v].stream
                 /\ block'[block[v].next].is_small = block[v].is_small
      <4>1. CASE block[v].next \in M
        BY <4>1, <3>1, <2>2, <2>0, <1>2, <1>3, <1>8
      <4>2. CASE block[v].next \notin M
        BY <4>2, <3>1, <2>2, <2>0, <1>2, <1>4, <1>9
      <4>. QED BY <4>1, <4>2
    <3>2. ASSUME block'[v].prev # 0
          PROVE  block'[v].prev \in Blocks' /\ block'[block'[v].prev].next = v
      <4>1. CASE v = after
        BY <4>1, <2>2, <1>2, <1>4, <1>8, <1>9
      <4>2. CASE v # after
        <5>1. block[v].prev \notin M
          BY <4>2, <3>2, <2>2, <2>0, <1>2, <1>4, <1>9
        <5>. QED BY <5>1, <4>2, <3>2, <2>2, <2>0, <1>2, <1>9
      <4>. QED BY <4>1, <4>2
    <3>. QED BY <3>1, <3>2, <2>2, <2>0, <1>9
  <2>. QED BY <2>1, <2>2, <1>2
<1>14. FlagsMatchPools'
  <2>1. cached \subseteq Blocks /\ active = Blocks \ cached
        /\ \A a \in Blocks : a \in cached <=> can_merge(a)
    BY DEF IInv, FlagsMatchPools
  <2>2. cached' \subseteq Blocks' /\ active' = Blocks' \ cached'
    <3>1. \A d \in M : d = u \/ d \in cached
      BY <1>3
    <3>. QED BY <2>1, <3>1, <1>2, <1>6, <1>7
  <2>3. ASSUME NEW a \in Blocks' PROVE a \in cached' <=> can_merge(a)'
    <3>1. CASE a = lo
      BY <3>1, <1>2, <1>5, <1>8 DEF can_merge
    <3>2. CASE a \in Blocks \ M
      <4>1. can_merge(a)' <=> can_merge(a)
        BY <3>2, <1>9 DEF can_merge
      <4>2. a \in cached' <=> a \in cached
        BY <3>2, <1>2
      <4>. QED BY <4>1, <4>2, <2>1, <3>2
    <3>. QED BY <3>1, <3>2, <1>2
  <2>. QED BY <2>2, <2>3 DEF FlagsMatchPools
<1>15. UsesAllocated'
  BY <1>2, <1>8, <1>9 DEF UsesAllocated, IInv
<1>16. EventCounts'
  <2>. SUFFICES ASSUME NEW a \in Units
                PROVE  LET W == {s \in Streams : musa_events'[s][a] # NoEvent}
                       IN /\ block'[a].event_count = Cardinality(W)
                          /\ W # {} => a \in Blocks' /\ ~block'[a].allocated
    BY DEF EventCounts
  <2>. DEFINE W == {s \in Streams : musa_events'[s][a] # NoEvent}
              V == {s \in Streams : musa_events[s][a] # NoEvent}
  <2>1. CASE a \in M
    <3>1. \A s \in Streams : musa_events'[s][a] = NoEvent
      BY <2>1, <1>3, <1>10
    <3>2. W = {}
      BY <3>1
    <3>3. block'[a].event_count = 0
      BY <2>1, <1>2, <1>8 DEF NoBlock
    <3>. QED BY <3>2, <3>3, FS_EmptySet
  <2>2. CASE a \notin M
    <3>1. W = V
      BY <2>2, <1>7
    <3>2. block[a].event_count = Cardinality(V) /\ (V # {} => a \in Blocks /\ ~block[a].allocated)
      BY DEF IInv, EventCounts
    <3>3. CASE a \in Blocks
      BY <3>1, <3>2, <3>3, <2>2, <1>2, <1>9
    <3>4. CASE a \notin Blocks
      <4>1. block'[a] = NoBlock
        BY <3>4, <2>2, <1>2
      <4>2. block[a] = NoBlock
        BY <3>4, <1>5 DEF IInv, WellFormed, Blocks
      <4>. QED BY <4>1, <4>2, <3>1, <3>2, <3>4
    <3>. QED BY <3>3, <3>4
  <2>. QED BY <2>1, <2>2
<1>17. Coalesced'
  <2>. SUFFICES ASSUME NEW c \in cached' PROVE block'[c].next \notin cached'
    BY DEF Coalesced
  <2>0. \A c1 \in cached : c1 \in Blocks /\ block[c1].next \notin cached
    BY <1>10 DEF IInv, Coalesced
  <2>1. CASE c = lo
    <3>1. after # lo
      BY <1>2, <1>4, <1>5
    <3>. QED BY <2>1, <3>1, <1>2, <1>8
  <2>2. CASE c \in cached \ M
    <3>1. block'[c].next = block[c].next
      BY <2>0, <2>2, <1>9
    <3>2. block[c].next # lo
      <4>1. lo # 0
        BY <1>2, <1>5
      <4>. QED BY <4>1, <2>0, <2>2, <1>2 DEF IInv, Linked
    <3>. QED BY <3>1, <3>2, <2>0, <2>2, <1>2
  <2>. QED BY <2>1, <2>2, <1>2
<1>18. \A x \in Int : \A v \in M : x \in Extent(v) => lo <= x /\ x < hi
  BY <1>2, <1>3, <1>5 DEF Extent
<1>19. \A x \in Int : lo <= x /\ x < hi => \E d \in M : x \in Extent(d)
  <2>. SUFFICES ASSUME NEW x \in Int, lo <= x, x < hi PROVE \E d \in M : x \in Extent(d)
    OBVIOUS
  <2>1. PICK d \in M : d <= x /\ x < d + block[d].size
    BY <1>3
  <2>2. d \in Nat /\ block[d].size \in Nat
    BY <1>2, <1>5
  <2>3. x \in Extent(d)
    BY <2>1, <2>2 DEF Extent
  <2>. QED BY <2>3
<1>20. /\ Extent(lo)' = lo .. (hi - 1)
       /\ \A v \in Blocks \ M : Extent(v)' = Extent(v)
  <2>1. lo + (hi - lo) - 1 = hi - 1
    BY <1>2, <1>5
  <2>2. Extent(lo)' = lo .. (hi - 1)
    BY <2>1, <1>8 DEF Extent
  <2>3. \A v \in Blocks \ M : Extent(v)' = Extent(v)
    BY <1>9 DEF Extent
  <2>. QED BY <2>2, <2>3
<1>21. WorkTracked'
  <2>. SUFFICES ASSUME NEW v \in Blocks', NEW a \in Extent(v)', NEW s \in Streams,
                       s # block'[v].stream, pend[s][a] > 0
                PROVE  s \in block'[v].stream_uses \/ musa_events'[s][v] >= pend[s][a]
    BY DEF WorkTracked
  <2>1. CASE v = lo
    <3>1. PICK d \in M : a \in Extent(d)
      BY <2>1, <1>2, <1>5, <1>19, <1>20
    <3>2. pend[s][a] = 0
      BY <2>1, <3>1, <1>3, <1>6, <1>8, <1>10
    <3>. QED BY <3>2
  <2>2. CASE v \in Blocks \ M
    <3>1. musa_events'[s][v] = musa_events[s][v]
      BY <2>2, <1>7, <1>5
    <3>. QED BY <2>2, <3>1, <1>9, <1>20 DEF IInv, WorkTracked
  <2>. QED BY <2>1, <2>2, <1>2
<1>22. ASSUME NEW x, \E v \in Blocks : x \in Extent(v)
       PROVE  \E v \in Blocks' : x \in Extent(v)'
  <2>1. PICK v \in Blocks : x \in Extent(v)
    BY <1>22
  <2>2. CASE v \in M
    <3>1. x \in Int
      BY <2>1, <1>5 DEF Extent
    <3>2. x \in Extent(lo)'
      BY <2>1, <2>2, <3>1, <1>18, <1>20, <1>2, <1>5
    <3>. QED BY <3>2, <1>2
  <2>3. CASE v \notin M
    BY <2>1, <2>3, <1>2, <1>20
  <2>. QED BY <2>2, <2>3
<1>23. UncoveredIdle'
  BY <1>22 DEF UncoveredIdle, IInv
<1>24. Settled' = Settled
  BY DEF Settled
<1>25. \A p \in Settled : \A d \in M : Inside(d, p) <=> Inside(u, p)
  <2>. SUFFICES ASSUME NEW p \in Settled, NEW d \in M PROVE Inside(d, p) <=> Inside(u, p)
    OBVIOUS
  <2>1. CASE d = u
    BY <2>1
  <2>2. CASE d = MergePrev(b) /\ d # 0
    BY <2>2, MergeShape, SameSegment, <1>5, <1>6
  <2>3. CASE d = MergeNext(b) /\ d # 0
    <3>1. d \in Blocks /\ block[d].prev = u
      BY <2>3, MergeShape
    <3>2. block[u].next = d
      BY <3>1, <1>5, <1>6 DEF IInv, Linked
    <3>. QED BY <3>1, <3>2, <2>3, SameSegment, <1>6
  <2>. QED BY <2>1, <2>2, <2>3 DEF M, Merged
<1>26. \A p \in Settled : Inside(lo, p)' <=> Inside(u, p)
  <2>. SUFFICES ASSUME NEW p \in Settled PROVE Inside(lo, p)' <=> Inside(u, p)
    OBVIOUS
  <2>1. Inside(lo, p)' <=> p <= lo /\ hi <= p + segment[p]
    <3>1. lo + (hi - lo) = hi
      BY <1>2, <1>5
    <3>. QED BY <3>1, <1>8 DEF Inside
  <2>2. PICK d \in M : d + block[d].size = hi
    BY <1>4
  <2>3. Inside(lo, p) <=> Inside(u, p)
    BY <1>25, <1>2
  <2>4. Inside(d, p) <=> Inside(u, p)
    BY <1>25
  <2>5. p \in Nat /\ segment[p] \in Nat
    BY Types
  <2>6. /\ lo \in Nat /\ hi \in Nat /\ d \in Nat /\ block[d].size \in Nat
        /\ block[lo].size \in Nat /\ lo <= d /\ lo + block[lo].size <= hi
    BY <2>2, <1>2, <1>3, <1>5
  <2>. QED BY <2>1, <2>2, <2>3, <2>4, <2>5, <2>6 DEF Inside
<1>27. \A p \in Settled : \A v \in Blocks \ M : Inside(v, p)' <=> Inside(v, p)
  BY <1>9 DEF Inside
<1>30. ASSUME NEW v \in Blocks \ M PROVE block'[v].prev = 0 <=> block[v].prev = 0
  <2>1. v # 0 /\ \A d \in M : d # 0
    BY <1>2, <1>5
  <2>2. CASE v = after
    BY <2>1, <2>2, <1>2, <1>4, <1>9
  <2>3. CASE v # after
    BY <2>3, <1>9
  <2>. QED BY <2>2, <2>3
<1>28. SegmentsSplit'
  <2>1. ASSUME NEW v \in Blocks' PROVE \E p \in Settled' : Inside(v, p)'
    <3>1. \A x \in Blocks : \E p \in Settled : Inside(x, p)
      BY DEF IInv, SegmentsSplit
    <3>. QED BY <3>1, <1>2, <1>6, <1>24, <1>26, <1>27
  <2>2. ASSUME NEW v \in Blocks' PROVE block'[v].prev = 0 <=> v \in Settled'
    <3>1. \A x \in Blocks : block[x].prev = 0 <=> x \in Settled
      BY DEF IInv, SegmentsSplit
    <3>2. CASE v = lo
      BY <3>1, <3>2, <1>2, <1>8, <1>24
    <3>3. CASE v \in Blocks \ M
      BY <3>1, <3>3, <1>24, <1>30
    <3>. QED BY <3>2, <3>3, <1>2
  <2>3. ASSUME NEW v \in Blocks', NEW p \in Settled', Inside(v, p)', block'[v].next = 0
        PROVE  v + block'[v].size = p + segment'[p]
    <3>0. \A x \in Blocks, q \in Settled :
            Inside(x, q) /\ block[x].next = 0 => x + block[x].size = q + segment[q]
      BY DEF IInv, SegmentsSplit
    <3>1. CASE v = lo
      <4>1. PICK d \in M : block[d].next = after /\ d + block[d].size = hi
        BY <1>4
      <4>2. Inside(d, p)
        BY <3>1, <2>3, <1>24, <1>25, <1>26
      <4>3. d \in Blocks /\ block[d].next = 0 /\ p \in Settled
        BY <4>1, <3>1, <2>3, <1>2, <1>8, <1>24
      <4>4. lo + (hi - lo) = hi
        BY <1>2, <1>5
      <4>. QED BY <4>1, <4>2, <4>3, <4>4, <3>0, <3>1, <1>8
    <3>2. CASE v \in Blocks \ M
      BY <3>0, <3>2, <2>3, <1>9, <1>24, <1>27
    <3>. QED BY <3>1, <3>2, <1>2
  <2>4. ASSUME NEW p \in Settled', NEW a \in p .. (p + segment'[p] - 1)
        PROVE  \E v \in Blocks' : a \in Extent(v)'
    <3>1. \E v \in Blocks : a \in Extent(v)
      BY <1>24 DEF IInv, SegmentsSplit
    <3>. QED BY <3>1, <1>22
  <2>. QED BY <2>1, <2>2, <2>3, <2>4 DEF SegmentsSplit
<1>29. SplitSizes'
  <2>0. /\ \A x \in Blocks, p \in Settled :
             block[x].is_small /\ Inside(x, p) => segment[p] <= kSmallBuffer
        /\ \A x \in Blocks, p \in Settled :
             ~block[x].is_small /\ is_split(block[x]) /\ Inside(x, p) =>
               block[x].size > kSmallSize /\ segment[p] <= MaxSplitSize + kSmallSize
    BY DEF IInv, SplitSizes
  <2>1. ASSUME NEW v \in Blocks', NEW p \in Settled', block'[v].is_small, Inside(v, p)'
        PROVE  segment'[p] <= kSmallBuffer
    BY <2>0, <2>1, <1>2, <1>3, <1>6, <1>7, <1>8, <1>9, <1>24, <1>26, <1>27
  <2>2. ASSUME NEW v \in Blocks', NEW p \in Settled', ~block'[v].is_small,
               is_split(block'[v]), Inside(v, p)'
        PROVE  block'[v].size > kSmallSize /\ segment'[p] <= MaxSplitSize + kSmallSize
    <3>1. CASE v = lo
      <4>1. is_split(block[u])
        <5>1. CASE M = {u}
          <6>1. lo = u /\ block[u].next = after
            BY <5>1, <1>2, <1>4
          <6>. QED BY <6>1, <3>1, <2>2, <1>2, <1>8 DEF is_split
        <5>2. CASE M # {u}
          <6>1. MergePrev(b) # 0 \/ MergeNext(b) # 0
            BY <5>2, <1>6, <1>5 DEF M, Merged
          <6>2. b.prev # 0 \/ b.next # 0
            BY <6>1 DEF MergePrev, MergeNext
          <6>. QED BY <6>2 DEF Freeable, is_split
        <5>. QED BY <5>1, <5>2
      <4>2. Inside(u, p) /\ ~block[u].is_small
        BY <3>1, <2>2, <1>3, <1>7, <1>8, <1>24, <1>26
      <4>3. block[u].size > kSmallSize /\ segment[p] <= MaxSplitSize + kSmallSize
        BY <4>1, <4>2, <2>0, <1>6, <1>24
      <4>4. block[u].size <= hi - lo
        <5>1. /\ u \in Nat /\ lo \in Nat /\ hi \in Nat /\ block[u].size \in Nat
              /\ lo <= u /\ u + block[u].size <= hi
          BY <1>2, <1>3, <1>5, <1>6, <1>7
        <5>. QED BY <5>1
      <4>. QED BY <4>3, <4>4, <3>1, <1>2, <1>5, <1>6, <1>8, SizeAssumption
    <3>2. CASE v \in Blocks \ M
      <4>1. is_split(block[v])
        BY <3>2, <2>2, <1>9, <1>30 DEF is_split
      <4>. QED BY <4>1, <3>2, <2>0, <2>2, <1>9, <1>24, <1>27
    <3>. QED BY <3>1, <3>2, <1>2
  <2>. QED BY <2>1, <2>2 DEF SplitSizes
<1>. QED BY <1>11, <1>12, <1>13, <1>14, <1>15, <1>16, <1>17, <1>21, <1>23, <1>28, <1>29
         DEF BlockInv

(***************************************************************************)
(* alloc_found_block splits a block or takes it whole.                     *)
(***************************************************************************)
\* Block b at u is out of use and serves a request of n units; it is in its pool
\* or about to be created.  p is its segment, S are the segments made into
\* blocks once it exists.
Allocatable(u, b, n, p, S) ==
  /\ u \in Units /\ b \in Block /\ b.size > 0 /\ u + b.size - 1 <= NumUnits
  /\ b.stream \in Streams
  /\ ~b.allocated /\ b.stream_uses = {} /\ b.event_count = 0
  /\ n \in Nat /\ 0 < n /\ n <= b.size
  /\ u \in Blocks => u \in cached /\ b = block[u]
  /\ \A v \in Blocks \ {u} : /\ v < u => v + block[v].size <= u
                             /\ u < v => u + b.size <= v
                             /\ block[v].next = u => b.prev = v
                             /\ block[v].prev = u => b.next = v
  /\ b.next # 0 => /\ b.next = u + b.size /\ b.next \in Blocks \ {u}
                   /\ b.next \notin cached
                   /\ block[b.next].prev = u
                   /\ block[b.next].stream = b.stream
                   /\ block[b.next].is_small = b.is_small
  /\ b.prev # 0 => /\ b.prev \in Blocks \ {u} /\ b.prev \notin cached
                   /\ b.prev + block[b.prev].size = u
                   /\ block[b.prev].next = u
                   /\ block[b.prev].stream = b.stream
                   /\ block[b.prev].is_small = b.is_small
  /\ \A s \in Streams : musa_events[s][u] = NoEvent
  /\ \A a \in u .. (u + b.size - 1), s \in Streams : s # b.stream => pend[s][a] = 0

\* The segment of the block.
InSegment(u, b, n, p, S) ==
  /\ p \in S /\ Settled \subseteq S /\ S \subseteq Settled \cup {u}
  /\ \A q \in S : /\ q \in Units /\ segment[q] \in Nat /\ segment[q] > 0
                  /\ q + segment[q] - 1 <= NumUnits
  /\ \A q, r \in S : q < r => q + segment[q] <= r
  /\ p <= u /\ u + b.size <= p + segment[p]
  /\ b.prev = 0 <=> u \in S
  /\ b.next = 0 => u + b.size = p + segment[p]
  /\ u \in S \ Settled => u = p /\ b.next = 0
  /\ \A v \in Blocks \ {u}, q \in S : Inside(v, q) => q \in Settled
  /\ b.is_small => segment[p] <= kSmallBuffer
  /\ ~b.is_small /\ is_split(b) =>
       b.size > kSmallSize /\ segment[p] <= MaxSplitSize + kSmallSize
  /\ ~b.is_small /\ should_split(b, n) =>
       n > kSmallSize /\ segment[p] <= MaxSplitSize + kSmallSize

(***************************************************************************)
(* The block is handed out whole.                                          *)
(***************************************************************************)
LEMMA AllocWhole ==
  ASSUME IInv, NEW u, NEW STATE b, NEW n, NEW p, NEW S,
         Allocatable(u, b, n, p, S), InSegment(u, b, n, p, S),
         ~should_split(b, n), alloc_found_block(u, b, n),
         pend' = pend, segment' = segment, musa_events' = musa_events, Settled' = S
  PROVE  BlockInv' /\ block' \in [Units -> Block] /\ cached' \subseteq Units
         /\ active' \subseteq Units
<1>1. /\ block' = [block EXCEPT ![u] = Marking(b, TRUE, b.stream_uses, b.event_count)]
      /\ cached' = cached \ {u} /\ active' = active \cup {u}
  BY DEF alloc_found_block
<1>2. /\ block \in [Units -> Block] /\ NumUnits \in Nat /\ Units = 1..NumUnits
      /\ cached \subseteq Units /\ active \subseteq Units
      /\ \A a \in Units : block[a].size \in Nat /\ block[a].prev \in Nat /\ block[a].next \in Nat
      /\ \A a \in Blocks : /\ a \in Units /\ a \in Nat /\ a > 0
                           /\ block[a].size \in Nat /\ block[a].size > 0
                           /\ a + block[a].size - 1 <= NumUnits
                           /\ block[a].stream \in Streams
  BY Types
<1>3. u \in Units /\ u \in Nat /\ u > 0 /\ b \in Block /\ b.size \in Nat /\ b.size > 0
      /\ u + b.size - 1 <= NumUnits /\ b.prev \in Nat /\ b.next \in Nat
  BY <1>2 DEF Allocatable, Block
<1>4. /\ block'[u].size = b.size /\ block'[u].prev = b.prev /\ block'[u].next = b.next
      /\ block'[u].stream = b.stream /\ block'[u].is_small = b.is_small
      /\ block'[u].allocated /\ block'[u].stream_uses = {} /\ block'[u].event_count = 0
  BY <1>1, <1>2, <1>3 DEF Marking, Allocatable
<1>5. \A a \in Units \ {u} : block'[a] = block[a]
  BY <1>1, <1>2
<1>6. block' \in [Units -> Block]
  <2>1. Marking(b, TRUE, b.stream_uses, b.event_count) \in Block
    BY <1>3 DEF Marking, Block
  <2>. QED BY <2>1, <1>1, <1>2, <1>3
<1>7. Blocks' = Blocks \cup {u} /\ u \in Blocks'
  <2>1. \A a \in Units : block'[a].size > 0 <=> a = u \/ block[a].size > 0
    BY <1>3, <1>4, <1>5
  <2>. QED BY <2>1, <1>3 DEF Blocks
<1>8. WellFormed'
  BY <1>3, <1>4, <1>5, <1>2 DEF WellFormed, IInv, Allocatable
<1>9. Disjoint'
  <2>. SUFFICES ASSUME NEW v \in Blocks', NEW w \in Blocks', v < w
                PROVE  v + block'[v].size <= w
    BY DEF Disjoint
  <2>1. CASE v # u /\ w # u
    BY <2>1, <1>2, <1>5, <1>7 DEF IInv, Disjoint
  <2>2. CASE v = u
    BY <2>2, <1>2, <1>3, <1>4, <1>7 DEF Allocatable
  <2>3. CASE w = u
    BY <2>3, <1>2, <1>3, <1>5, <1>7 DEF Allocatable
  <2>. QED BY <2>1, <2>2, <2>3
<1>10. Linked'
  <2>. SUFFICES ASSUME NEW v \in Blocks'
                PROVE  /\ block'[v].next # 0 =>
                            /\ block'[v].next = v + block'[v].size
                            /\ block'[v].next \in Blocks'
                            /\ block'[block'[v].next].prev = v
                            /\ block'[block'[v].next].stream = block'[v].stream
                            /\ block'[block'[v].next].is_small = block'[v].is_small
                       /\ block'[v].prev # 0 =>
                            /\ block'[v].prev \in Blocks'
                            /\ block'[block'[v].prev].next = v
    BY DEF Linked
  <2>1. CASE v = u
    BY <2>1, <1>2, <1>3, <1>4, <1>5, <1>7 DEF Allocatable
  <2>2. CASE v # u
    <3>1. /\ block[v].next # 0 =>
               /\ block[v].next = v + block[v].size /\ block[v].next \in Blocks
               /\ block[block[v].next].prev = v
               /\ block[block[v].next].stream = block[v].stream
               /\ block[block[v].next].is_small = block[v].is_small
          /\ block[v].prev # 0 =>
               /\ block[v].prev \in Blocks /\ block[block[v].prev].next = v
      BY <2>2, <1>7 DEF IInv, Linked
    <3>2. v \in Blocks \ {u} /\ v > 0 /\ block'[v] = block[v]
      BY <2>2, <1>2, <1>5, <1>7
    <3>3. /\ block[v].next = u => b.prev = v
          /\ block[v].prev = u => b.next = v
      BY <3>2 DEF Allocatable
    <3>4. \A a \in Units \ {u} : block'[a] = block[a]
      BY <1>5
    <3>5. ASSUME block[v].next # 0
          PROVE  /\ block'[block[v].next].prev = v
                 /\ block'[block[v].next].stream = block[v].stream
                 /\ block'[block[v].next].is_small = block[v].is_small
      <4>1. CASE block[v].next = u
        BY <4>1, <3>2, <3>3, <1>4 DEF Allocatable
      <4>2. CASE block[v].next # u
        BY <4>2, <3>1, <3>4, <3>5, <1>2
      <4>. QED BY <4>1, <4>2
    <3>6. ASSUME block[v].prev # 0 PROVE block'[block[v].prev].next = v
      <4>1. CASE block[v].prev = u
        BY <4>1, <3>3, <1>4
      <4>2. CASE block[v].prev # u
        BY <4>2, <3>1, <3>4, <3>6, <1>2
      <4>. QED BY <4>1, <4>2
    <3>. QED BY <3>1, <3>2, <3>5, <3>6, <1>7
  <2>. QED BY <2>1, <2>2
<1>11. FlagsMatchPools'
  <2>1. cached \subseteq Blocks /\ active = Blocks \ cached
        /\ \A a \in Blocks : a \in cached <=> can_merge(a)
    BY DEF IInv, FlagsMatchPools
  <2>2. cached' \subseteq Blocks' /\ active' = Blocks' \ cached'
    BY <2>1, <1>1, <1>7
  <2>3. ASSUME NEW a \in Blocks' PROVE a \in cached' <=> can_merge(a)'
    <3>1. CASE a = u
      BY <3>1, <1>1, <1>4 DEF can_merge
    <3>2. CASE a # u
      <4>1. can_merge(a)' <=> can_merge(a)
        BY <3>2, <1>5, <1>7, <1>2 DEF can_merge
      <4>. QED BY <4>1, <2>1, <3>2, <1>1, <1>7
    <3>. QED BY <3>1, <3>2
  <2>. QED BY <2>2, <2>3 DEF FlagsMatchPools
<1>12. UsesAllocated'
  BY <1>2, <1>4, <1>5, <1>7 DEF UsesAllocated, IInv
<1>13. EventCounts'
  <2>. SUFFICES ASSUME NEW a \in Units
                PROVE  LET W == {s \in Streams : musa_events[s][a] # NoEvent}
                       IN /\ block'[a].event_count = Cardinality(W)
                          /\ W # {} => a \in Blocks' /\ ~block'[a].allocated
    BY DEF EventCounts
  <2>1. CASE a = u
    <3>1. {s \in Streams : musa_events[s][a] # NoEvent} = {}
      BY <2>1 DEF Allocatable
    <3>. QED BY <3>1, <2>1, <1>4, FS_EmptySet
  <2>2. CASE a # u
    BY <2>2, <1>5, <1>7 DEF IInv, EventCounts
  <2>. QED BY <2>1, <2>2
<1>14. Coalesced'
  BY <1>1, <1>5, <1>2 DEF IInv, Coalesced
<1>15. /\ Extent(u)' = u .. (u + b.size - 1)
       /\ \A v \in Blocks \ {u} : Extent(v)' = Extent(v)
       /\ u \in Blocks => Extent(u)' = Extent(u)
  <2>1. Extent(u)' = u .. (u + b.size - 1)
    BY <1>4 DEF Extent
  <2>2. \A v \in Blocks \ {u} : Extent(v)' = Extent(v)
    BY <1>2, <1>5 DEF Extent
  <2>3. u \in Blocks => Extent(u)' = Extent(u)
    BY <1>4 DEF Extent, Allocatable
  <2>. QED BY <2>1, <2>2, <2>3
<1>16. WorkTracked'
  <2>. SUFFICES ASSUME NEW v \in Blocks', NEW a \in Extent(v)', NEW s \in Streams,
                       s # block'[v].stream, pend[s][a] > 0
                PROVE  s \in block'[v].stream_uses \/ musa_events[s][v] >= pend[s][a]
    BY DEF WorkTracked
  <2>1. CASE v = u
    BY <2>1, <1>4, <1>15 DEF Allocatable
  <2>2. CASE v # u
    BY <2>2, <1>2, <1>5, <1>7, <1>15 DEF IInv, WorkTracked
  <2>. QED BY <2>1, <2>2
<1>17. ASSUME NEW x, \E v \in Blocks : x \in Extent(v)
       PROVE  \E v \in Blocks' : x \in Extent(v)'
  BY <1>7, <1>15, <1>17
<1>18. UncoveredIdle'
  BY <1>17 DEF UncoveredIdle, IInv
<1>19. /\ \A q : Inside(u, q)' <=> q <= u /\ u + b.size <= q + segment[q]
       /\ \A q : \A v \in Blocks \ {u} : Inside(v, q)' <=> Inside(v, q)
  <2>1. ASSUME NEW q PROVE Inside(u, q)' <=> q <= u /\ u + b.size <= q + segment[q]
    BY <1>4 DEF Inside
  <2>2. ASSUME NEW q, NEW v \in Blocks \ {u} PROVE Inside(v, q)' <=> Inside(v, q)
    BY <1>2, <1>5 DEF Inside
  <2>. QED BY <2>1, <2>2
<1>20. /\ \A q \in S : q \in Nat /\ segment[q] \in Nat
       /\ p \in S /\ Inside(u, p)'
       /\ \A q \in S : Inside(u, q)' => q = p
  <2>1. /\ \A q \in S : q \in Nat /\ segment[q] \in Nat
        /\ p \in S /\ p <= u /\ u + b.size <= p + segment[p]
        /\ \A q, r \in S : q < r => q + segment[q] <= r
    BY <1>2 DEF InSegment
  <2>2. ASSUME NEW q \in S, Inside(u, q)' PROVE q = p
    <3>1. q <= u /\ u + b.size <= q + segment[q]
      BY <2>2, <1>19
    <3>. QED BY <2>1, <3>1, <1>3
  <2>. QED BY <2>1, <2>2, <1>19
<1>21. SegmentsSplit'
  <2>1. ASSUME NEW v \in Blocks' PROVE \E q \in S : Inside(v, q)'
    <3>1. CASE v = u
      BY <3>1, <1>20
    <3>2. CASE v # u
      BY <3>2, <1>7, <1>19 DEF IInv, SegmentsSplit, InSegment
    <3>. QED BY <3>1, <3>2
  <2>2. ASSUME NEW v \in Blocks' PROVE block'[v].prev = 0 <=> v \in S
    <3>1. CASE v = u
      BY <3>1, <1>4 DEF InSegment
    <3>2. CASE v # u
      BY <3>2, <1>2, <1>5, <1>7 DEF IInv, SegmentsSplit, InSegment
    <3>. QED BY <3>1, <3>2
  <2>3. ASSUME NEW v \in Blocks', NEW q \in S, Inside(v, q)', block'[v].next = 0
        PROVE  v + block'[v].size = q + segment[q]
    <3>1. CASE v = u
      BY <3>1, <2>3, <1>4, <1>20 DEF InSegment
    <3>2. CASE v # u
      <4>1. v \in Blocks /\ block'[v].size = block[v].size /\ block'[v].next = block[v].next
        BY <3>2, <1>2, <1>5, <1>7
      <4>2. Inside(v, q)
        BY <3>2, <2>3, <4>1, <1>19
      <4>. QED BY <3>2, <2>3, <4>1, <4>2 DEF IInv, SegmentsSplit, InSegment
    <3>. QED BY <3>1, <3>2
  <2>4. ASSUME NEW q \in S, NEW a \in q .. (q + segment[q] - 1)
        PROVE  \E v \in Blocks' : a \in Extent(v)'
    <3>1. CASE q \in Settled
      <4>1. \E v \in Blocks : a \in Extent(v)
        BY <3>1 DEF IInv, SegmentsSplit
      <4>. QED BY <4>1, <1>17
    <3>2. CASE q \notin Settled
      <4>1. q = u /\ u = p /\ u + b.size = q + segment[q]
        BY <3>2 DEF InSegment
      <4>2. a \in Extent(u)'
        BY <4>1, <1>3, <1>15, <1>20
      <4>. QED BY <4>2, <1>7
    <3>. QED BY <3>1, <3>2
  <2>. QED BY <2>1, <2>2, <2>3, <2>4 DEF SegmentsSplit
<1>22. SplitSizes'
  <2>1. ASSUME NEW v \in Blocks', NEW q \in S, block'[v].is_small, Inside(v, q)'
        PROVE  segment[q] <= kSmallBuffer
    <3>1. CASE v = u
      BY <3>1, <2>1, <1>4, <1>20 DEF InSegment
    <3>2. CASE v # u
      BY <3>2, <2>1, <1>2, <1>5, <1>7, <1>19 DEF IInv, SplitSizes, InSegment
    <3>. QED BY <3>1, <3>2
  <2>2. ASSUME NEW v \in Blocks', NEW q \in S, ~block'[v].is_small,
               is_split(block'[v]), Inside(v, q)'
        PROVE  block'[v].size > kSmallSize /\ segment[q] <= MaxSplitSize + kSmallSize
    <3>1. CASE v = u
      BY <3>1, <2>2, <1>4, <1>20 DEF InSegment, is_split
    <3>2. CASE v # u
      BY <3>2, <2>2, <1>2, <1>5, <1>7, <1>19 DEF IInv, SplitSizes, InSegment
    <3>. QED BY <3>1, <3>2
  <2>. QED BY <2>1, <2>2 DEF SplitSizes
<1>. QED BY <1>1, <1>2, <1>3, <1>6, <1>8, <1>9, <1>10, <1>11, <1>12, <1>13, <1>14, <1>16,
            <1>18, <1>21, <1>22 DEF BlockInv

(***************************************************************************)
(* The block is split: u keeps n units, the rest becomes a block at r.     *)
(***************************************************************************)
LEMMA AllocSplit ==
  ASSUME IInv, NEW u, NEW STATE b, NEW n, NEW p, NEW S,
         Allocatable(u, b, n, p, S), InSegment(u, b, n, p, S),
         should_split(b, n), alloc_found_block(u, b, n),
         pend' = pend, segment' = segment, musa_events' = musa_events, Settled' = S
  PROVE  BlockInv' /\ block' \in [Units -> Block] /\ cached' \subseteq Units
         /\ active' \subseteq Units
<1>0. PICK r : r = u + n
  OBVIOUS
<1>. DEFINE taken == Marking(b, TRUE, b.stream_uses, b.event_count)
<1>1. /\ block' = [a \in Units |->
                  IF a = u THEN Linking(taken, n, b.prev, r)
                  ELSE IF a = r THEN Linking(b, b.size - n, u, b.next)
                  ELSE IF a = b.next
                    THEN Linking(block[a], block[a].size, r, block[a].next)
                  ELSE block[a]]
      /\ cached' = (cached \ {u}) \cup {r} /\ active' = active \cup {u}
  BY <1>0 DEF alloc_found_block
<1>2. /\ block \in [Units -> Block] /\ NumUnits \in Nat /\ Units = 1..NumUnits
      /\ cached \subseteq Units /\ active \subseteq Units
      /\ \A a \in Units : block[a].size \in Nat /\ block[a].prev \in Nat /\ block[a].next \in Nat
      /\ \A a \in Blocks : /\ a \in Units /\ a \in Nat /\ a > 0
                           /\ block[a].size \in Nat /\ block[a].size > 0
                           /\ a + block[a].size - 1 <= NumUnits
                           /\ block[a].stream \in Streams
  BY Types
<1>3. u \in Units /\ u \in Nat /\ u > 0 /\ b \in Block /\ b.size \in Nat /\ b.size > 0
      /\ u + b.size - 1 <= NumUnits /\ b.prev \in Nat /\ b.next \in Nat
      /\ n \in Nat /\ n > 0
  BY <1>2 DEF Allocatable, Block
<1>4. b.size - n >= 1
  BY <1>3, SizeAssumption DEF should_split
<1>5. /\ r \in Units /\ r \in Nat /\ u < r /\ r < u + b.size /\ r # b.next /\ u # b.next
      /\ r \notin Blocks /\ b.size - n \in Nat /\ b.size - n > 0
  <2>1. r \in Nat /\ u < r /\ r < u + b.size /\ b.size - n \in Nat /\ b.size - n > 0
    BY <1>0, <1>3, <1>4
  <2>2. r \in Units
    BY <2>1, <1>2, <1>3
  <2>3. r \notin Blocks
    BY <2>1, <1>3 DEF Allocatable
  <2>4. r # b.next /\ u # b.next
    BY <2>1, <1>3 DEF Allocatable
  <2>. QED BY <2>1, <2>2, <2>3, <2>4
<1>6. /\ block'[u].size = n /\ block'[u].prev = b.prev /\ block'[u].next = r
      /\ block'[u].stream = b.stream /\ block'[u].is_small = b.is_small
      /\ block'[u].allocated /\ block'[u].stream_uses = {} /\ block'[u].event_count = 0
  <2>1. block'[u] = Linking(taken, n, b.prev, r)
    BY <1>1, <1>3
  <2>. QED BY <2>1 DEF Marking, Linking, Allocatable
<1>7. /\ block'[r].size = b.size - n /\ block'[r].prev = u /\ block'[r].next = b.next
      /\ block'[r].stream = b.stream /\ block'[r].is_small = b.is_small
      /\ ~block'[r].allocated /\ block'[r].stream_uses = {} /\ block'[r].event_count = 0
  <2>1. block'[r] = Linking(b, b.size - n, u, b.next)
    <3>1. r # u
      BY <1>3, <1>5
    <3>. QED BY <3>1, <1>1, <1>5
  <2>. QED BY <2>1 DEF Linking, Allocatable
<1>8. ASSUME NEW a \in Units \ {u, r}
      PROVE  /\ block'[a].size = block[a].size /\ block'[a].next = block[a].next
             /\ block'[a].prev = IF a = b.next THEN r ELSE block[a].prev
             /\ block'[a].stream = block[a].stream
             /\ block'[a].is_small = block[a].is_small
             /\ block'[a].allocated = block[a].allocated
             /\ block'[a].stream_uses = block[a].stream_uses
             /\ block'[a].event_count = block[a].event_count
             /\ a \notin Blocks => block'[a] = block[a]
  <2>1. CASE a = b.next
    <3>1. block'[a] = Linking(block[a], block[a].size, r, block[a].next)
      BY <2>1, <1>1
    <3>2. a \in Blocks
      BY <2>1, <1>2 DEF Allocatable
    <3>. QED BY <3>1, <3>2, <2>1 DEF Linking
  <2>2. CASE a # b.next
    <3>1. block'[a] = block[a]
      BY <2>2, <1>1
    <3>. QED BY <3>1, <2>2
  <2>. QED BY <2>1, <2>2
<1>9. block' \in [Units -> Block]
  <2>1. Linking(taken, n, b.prev, r) \in Block
    <3>1. n \in 0..NumUnits /\ r \in 0..NumUnits
      BY <1>2, <1>3, <1>4, <1>5
    <3>. QED BY <3>1, <1>3 DEF Marking, Linking, Block
  <2>2. Linking(b, b.size - n, u, b.next) \in Block
    <3>1. b.size - n \in 0..NumUnits /\ u \in 0..NumUnits
      BY <1>2, <1>3, <1>5
    <3>. QED BY <3>1, <1>3 DEF Linking, Block
  <2>3. \A a \in Units : Linking(block[a], block[a].size, r, block[a].next) \in Block
    <3>1. r \in 0..NumUnits
      BY <1>2, <1>5
    <3>. QED BY <3>1, <1>2 DEF Linking, Block
  <2>. QED BY <2>1, <2>2, <2>3, <1>1, <1>2
<1>10. Blocks' = Blocks \cup {u, r}
  <2>1. \A a \in Units : block'[a].size > 0 <=> a = u \/ a = r \/ block[a].size > 0
    <3>. SUFFICES ASSUME NEW a \in Units
                  PROVE  block'[a].size > 0 <=> a = u \/ a = r \/ block[a].size > 0
      OBVIOUS
    <3>1. CASE a = u
      BY <3>1, <1>3, <1>6
    <3>2. CASE a = r
      BY <3>2, <1>5, <1>7
    <3>3. CASE a \notin {u, r}
      BY <3>3, <1>8
    <3>. QED BY <3>1, <3>2, <3>3
  <2>. QED BY <2>1, <1>3, <1>5 DEF Blocks
<1>11. \A v \in Blocks \ {u} : v \in Units \ {u, r} /\ v # 0
  BY <1>2, <1>5
<1>12. WellFormed'
  <2>. SUFFICES ASSUME NEW a \in Units
                PROVE  IF block'[a].size > 0
                         THEN a + block'[a].size - 1 <= NumUnits /\ block'[a].stream \in Streams
                         ELSE block'[a] = NoBlock
    BY DEF WellFormed
  <2>1. CASE a = u
    BY <2>1, <1>2, <1>3, <1>4, <1>6 DEF Allocatable
  <2>2. CASE a = r
    <3>1. r + (b.size - n) = u + b.size
      BY <1>0, <1>3
    <3>. QED BY <3>1, <2>2, <1>3, <1>5, <1>7 DEF Allocatable
  <2>3. CASE a \notin {u, r}
    <3>1. a \in Blocks \/ block'[a] = block[a]
      BY <2>3, <1>8
    <3>. QED BY <3>1, <2>3, <1>2, <1>8 DEF IInv, WellFormed, Blocks
  <2>. QED BY <2>1, <2>2, <2>3
<1>13. r + (b.size - n) = u + b.size /\ u + n = r
  BY <1>0, <1>3
<1>14. Disjoint'
  <2>. SUFFICES ASSUME NEW v \in Blocks', NEW w \in Blocks', v < w
                PROVE  v + block'[v].size <= w
    BY DEF Disjoint
  <2>1. CASE v \notin {u, r} /\ w \notin {u, r}
    BY <2>1, <1>2, <1>8, <1>10 DEF IInv, Disjoint
  <2>2. CASE v = u /\ w = r
    BY <2>2, <1>6, <1>13, <1>5
  <2>3. CASE v \in {u, r} /\ w \notin {u, r}
    <3>1. w \in Blocks \ {u} /\ w \in Nat
      BY <2>3, <1>2, <1>10
    <3>2. u < w
      BY <2>3, <3>1, <1>3, <1>5
    <3>3. u + b.size <= w
      BY <3>1, <3>2 DEF Allocatable
    <3>. QED BY <3>1, <3>3, <2>3, <1>3, <1>5, <1>6, <1>7, <1>13
  <2>4. CASE v \notin {u, r} /\ w \in {u, r}
    <3>1. v \in Blocks \ {u} /\ v \in Nat /\ block'[v].size = block[v].size
          /\ block[v].size \in Nat
      BY <2>4, <1>2, <1>8, <1>10
    <3>2. v < u
      <4>1. u < v => u + b.size <= v
        BY <3>1 DEF Allocatable
      <4>. QED BY <4>1, <3>1, <2>4, <1>3, <1>5
    <3>3. v + block[v].size <= u
      BY <3>1, <3>2 DEF Allocatable
    <3>. QED BY <3>1, <3>3, <2>4, <1>3, <1>5
  <2>. QED BY <2>1, <2>2, <2>3, <2>4, <1>3, <1>5
<1>15. Linked'
  <2>. SUFFICES ASSUME NEW v \in Blocks'
                PROVE  /\ block'[v].next # 0 =>
                            /\ block'[v].next = v + block'[v].size
                            /\ block'[v].next \in Blocks'
                            /\ block'[block'[v].next].prev = v
                            /\ block'[block'[v].next].stream = block'[v].stream
                            /\ block'[block'[v].next].is_small = block'[v].is_small
                       /\ block'[v].prev # 0 =>
                            /\ block'[v].prev \in Blocks'
                            /\ block'[block'[v].prev].next = v
    BY DEF Linked
  <2>1. CASE v = u
    <3>1. b.prev # 0 => b.prev \in Blocks' /\ block'[b.prev].next = u
      BY <1>8, <1>10, <1>11 DEF Allocatable
    <3>. QED BY <2>1, <3>1, <1>6, <1>7, <1>10, <1>13
  <2>2. CASE v = r
    <3>1. b.next # 0 => /\ b.next = r + (b.size - n) /\ b.next \in Blocks'
                        /\ block'[b.next].prev = r
                        /\ block'[b.next].stream = b.stream
                        /\ block'[b.next].is_small = b.is_small
      BY <1>8, <1>10, <1>11, <1>13 DEF Allocatable
    <3>. QED BY <2>2, <3>1, <1>6, <1>7, <1>10
  <2>3. CASE v \notin {u, r}
    <3>1. /\ block[v].next # 0 =>
               /\ block[v].next = v + block[v].size /\ block[v].next \in Blocks
               /\ block[block[v].next].prev = v
               /\ block[block[v].next].stream = block[v].stream
               /\ block[block[v].next].is_small = block[v].is_small
          /\ block[v].prev # 0 =>
               /\ block[v].prev \in Blocks /\ block[block[v].prev].next = v
      BY <2>3, <1>10 DEF IInv, Linked
    <3>2. v \in Blocks \ {u} /\ v \in Units \ {u, r} /\ v # 0
      BY <2>3, <1>10, <1>11
    <3>3. /\ block[v].next = u => b.prev = v
          /\ block[v].prev = u => b.next = v
      BY <3>2 DEF Allocatable
    <3>4. /\ block'[v].size = block[v].size /\ block'[v].next = block[v].next
          /\ block'[v].prev = IF v = b.next THEN r ELSE block[v].prev
          /\ block'[v].stream = block[v].stream
          /\ block'[v].is_small = block[v].is_small
      BY <3>2, <1>8
    <3>5. ASSUME block[v].next # 0
          PROVE  /\ block'[block[v].next].prev = v
                 /\ block'[block[v].next].stream = block[v].stream
                 /\ block'[block[v].next].is_small = block[v].is_small
      <4>1. CASE block[v].next = u
        BY <4>1, <3>2, <3>3, <1>6 DEF Allocatable
      <4>2. CASE block[v].next # u
        <5>1. block[v].next \in Units \ {u, r}
          BY <4>2, <3>1, <3>5, <1>11
        <5>2. block[v].next # b.next
          BY <3>1, <3>2, <3>5 DEF Allocatable
        <5>. QED BY <5>1, <5>2, <3>1, <3>5, <1>8
      <4>. QED BY <4>1, <4>2
    <3>6. ASSUME block'[v].prev # 0
          PROVE  block'[v].prev \in Blocks' /\ block'[block'[v].prev].next = v
      <4>1. CASE v = b.next
        BY <4>1, <3>4, <1>7, <1>10
      <4>2. CASE v # b.next
        <5>1. block'[v].prev = block[v].prev /\ block[v].prev # u
          BY <4>2, <3>3, <3>4
        <5>2. block[v].prev \in Units \ {u, r}
          BY <5>1, <3>1, <3>6, <1>11
        <5>. QED BY <5>1, <5>2, <3>1, <3>6, <1>8, <1>10
      <4>. QED BY <4>1, <4>2
    <3>. QED BY <3>1, <3>4, <3>5, <3>6, <1>10
  <2>. QED BY <2>1, <2>2, <2>3
<1>16. FlagsMatchPools'
  <2>1. cached \subseteq Blocks /\ active = Blocks \ cached
        /\ \A a \in Blocks : a \in cached <=> can_merge(a)
    BY DEF IInv, FlagsMatchPools
  <2>2. cached' \subseteq Blocks' /\ active' = Blocks' \ cached'
    BY <2>1, <1>1, <1>3, <1>5, <1>10
  <2>3. ASSUME NEW a \in Blocks' PROVE a \in cached' <=> can_merge(a)'
    <3>1. CASE a = u
      <4>1. u # r /\ u \notin cached'
        BY <1>1, <1>3, <1>5
      <4>2. ~can_merge(u)'
        BY <1>6 DEF can_merge
      <4>. QED BY <3>1, <4>1, <4>2
    <3>2. CASE a = r
      <4>1. r # 0 /\ r \in cached'
        BY <1>1, <1>3, <1>5
      <4>2. can_merge(r)'
        BY <4>1, <1>7 DEF can_merge
      <4>. QED BY <3>2, <4>1, <4>2
    <3>3. CASE a \notin {u, r}
      <4>1. can_merge(a)' <=> can_merge(a)
        BY <3>3, <1>8, <1>10, <1>11 DEF can_merge
      <4>. QED BY <4>1, <2>1, <3>3, <1>1, <1>10
    <3>. QED BY <3>1, <3>2, <3>3
  <2>. QED BY <2>2, <2>3 DEF FlagsMatchPools
<1>17. UsesAllocated'
  <2>. SUFFICES ASSUME NEW v \in Blocks', block'[v].stream_uses # {} PROVE block'[v].allocated
    BY DEF UsesAllocated
  <2>1. CASE v \in {u, r}
    BY <2>1, <1>6, <1>7
  <2>2. CASE v \notin {u, r}
    BY <2>2, <1>8, <1>10, <1>11 DEF IInv, UsesAllocated
  <2>. QED BY <2>1, <2>2
<1>18. EventCounts'
  <2>. SUFFICES ASSUME NEW a \in Units
                PROVE  LET W == {s \in Streams : musa_events[s][a] # NoEvent}
                       IN /\ block'[a].event_count = Cardinality(W)
                          /\ W # {} => a \in Blocks' /\ ~block'[a].allocated
    BY DEF EventCounts
  <2>1. CASE a = u
    <3>1. {s \in Streams : musa_events[s][a] # NoEvent} = {}
      BY <2>1 DEF Allocatable
    <3>. QED BY <3>1, <2>1, <1>6, FS_EmptySet
  <2>2. CASE a = r
    <3>1. {s \in Streams : musa_events[s][a] # NoEvent} = {}
      BY <2>2, <1>5 DEF IInv, EventCounts
    <3>. QED BY <3>1, <2>2, <1>7, FS_EmptySet
  <2>3. CASE a \notin {u, r}
    BY <2>3, <1>8, <1>10 DEF IInv, EventCounts
  <2>. QED BY <2>1, <2>2, <2>3
<1>19. Coalesced'
  <2>. SUFFICES ASSUME NEW c \in cached' PROVE block'[c].next \notin cached'
    BY DEF Coalesced
  <2>1. CASE c = r
    <3>1. b.next \notin cached
      BY <1>2 DEF Allocatable
    <3>. QED BY <3>1, <2>1, <1>1, <1>5, <1>7
  <2>2. CASE c # r
    <3>1. c \in cached /\ c \in Blocks \ {u}
      BY <2>2, <1>1 DEF IInv, FlagsMatchPools
    <3>2. block'[c].next = block[c].next /\ block[c].next \notin cached
      BY <3>1, <1>8, <1>11 DEF IInv, Coalesced
    <3>3. block[c].next # r
      <4>1. r # 0
        BY <1>3, <1>5
      <4>. QED BY <4>1, <3>1, <1>5 DEF IInv, Linked
    <3>. QED BY <3>2, <3>3, <1>1
  <2>. QED BY <2>1, <2>2
<1>20. /\ Extent(u)' = u .. (r - 1)
       /\ Extent(r)' = r .. (u + b.size - 1)
       /\ \A v \in Blocks \ {u} : Extent(v)' = Extent(v)
  <2>1. Extent(u)' = u .. (r - 1)
    BY <1>3, <1>5, <1>6, <1>13 DEF Extent
  <2>2. Extent(r)' = r .. (u + b.size - 1)
    <3>1. r + (b.size - n) - 1 = u + b.size - 1
      BY <1>3, <1>5, <1>13
    <3>. QED BY <3>1, <1>7 DEF Extent
  <2>3. \A v \in Blocks \ {u} : Extent(v)' = Extent(v)
    BY <1>8, <1>11 DEF Extent
  <2>. QED BY <2>1, <2>2, <2>3
<1>21. WorkTracked'
  <2>. SUFFICES ASSUME NEW v \in Blocks', NEW a \in Extent(v)', NEW s \in Streams,
                       s # block'[v].stream, pend[s][a] > 0
                PROVE  s \in block'[v].stream_uses \/ musa_events[s][v] >= pend[s][a]
    BY DEF WorkTracked
  <2>1. CASE v \in {u, r}
    <3>1. a \in u .. (u + b.size - 1) /\ s # b.stream
      <4>1. CASE v = u
        BY <4>1, <1>3, <1>5, <1>6, <1>20
      <4>2. CASE v = r
        BY <4>2, <1>3, <1>5, <1>7, <1>20
      <4>. QED BY <2>1, <4>1, <4>2
    <3>2. pend[s][a] = 0
      BY <3>1 DEF Allocatable
    <3>. QED BY <3>2
  <2>2. CASE v \notin {u, r}
    BY <2>2, <1>8, <1>10, <1>11, <1>20 DEF IInv, WorkTracked
  <2>. QED BY <2>1, <2>2
<1>22. ASSUME NEW x \in u .. (u + b.size - 1) PROVE \E v \in Blocks' : x \in Extent(v)'
  <2>1. x \in u .. (r - 1) \/ x \in r .. (u + b.size - 1)
    BY <1>3, <1>5
  <2>. QED BY <2>1, <1>10, <1>20
<1>23. ASSUME NEW x, \E v \in Blocks : x \in Extent(v)
       PROVE  \E v \in Blocks' : x \in Extent(v)'
  <2>1. PICK v \in Blocks : x \in Extent(v)
    BY <1>23
  <2>2. CASE v = u
    <3>1. x \in u .. (u + b.size - 1)
      BY <2>1, <2>2 DEF Extent, Allocatable
    <3>. QED BY <3>1, <1>22
  <2>3. CASE v # u
    BY <2>1, <2>3, <1>10, <1>20
  <2>. QED BY <2>2, <2>3
<1>24. UncoveredIdle'
  BY <1>23 DEF UncoveredIdle, IInv
<1>25. /\ \A q : Inside(u, q)' <=> q <= u /\ r <= q + segment[q]
       /\ \A q : Inside(r, q)' <=> q <= r /\ u + b.size <= q + segment[q]
       /\ \A q : \A v \in Blocks \ {u} : Inside(v, q)' <=> Inside(v, q)
  <2>1. ASSUME NEW q PROVE Inside(u, q)' <=> q <= u /\ r <= q + segment[q]
    BY <1>6, <1>13 DEF Inside
  <2>2. ASSUME NEW q PROVE Inside(r, q)' <=> q <= r /\ u + b.size <= q + segment[q]
    BY <1>7, <1>13 DEF Inside
  <2>3. ASSUME NEW q, NEW v \in Blocks \ {u} PROVE Inside(v, q)' <=> Inside(v, q)
    BY <1>8, <1>11 DEF Inside
  <2>. QED BY <2>1, <2>2, <2>3
<1>26. /\ \A q \in S : q \in Nat /\ segment[q] \in Nat
       /\ p \in S /\ Inside(u, p)' /\ Inside(r, p)'
       /\ \A q \in S : Inside(u, q)' \/ Inside(r, q)' => q = p
  <2>1. /\ \A q \in S : q \in Nat /\ segment[q] \in Nat
        /\ p \in S /\ p <= u /\ u + b.size <= p + segment[p]
        /\ \A q, x \in S : q < x => q + segment[q] <= x
    BY <1>2 DEF InSegment
  <2>2. ASSUME NEW q \in S, Inside(u, q)' PROVE q = p
    <3>1. q <= u /\ r <= q + segment[q]
      BY <2>2, <1>25
    <3>. QED BY <2>1, <3>1, <1>3, <1>5
  <2>3. ASSUME NEW q \in S, Inside(r, q)' PROVE q = p
    <3>1. q <= r /\ u + b.size <= q + segment[q]
      BY <2>3, <1>25
    <3>. QED BY <2>1, <3>1, <1>3, <1>5
  <2>4. p <= u /\ r <= p + segment[p] /\ p <= r
    BY <2>1, <1>3, <1>5
  <2>5. Inside(u, p)' /\ Inside(r, p)'
    BY <2>1, <2>4, <1>25
  <2>. QED BY <2>1, <2>2, <2>3, <2>5
<1>27. r \notin S
  <2>1. p < r /\ r < p + segment[p]
    BY <1>3, <1>5, <1>26 DEF InSegment
  <2>. QED BY <2>1, <1>5, <1>26 DEF InSegment
<1>30. ASSUME NEW v \in Blocks \ {u}
       PROVE  v \in Units \ {u, r} /\ (block'[v].prev = 0 <=> block[v].prev = 0)
  <2>1. v \in Units \ {u, r} /\ v # 0 /\ u # 0 /\ r # 0
    BY <1>3, <1>5, <1>11
  <2>2. CASE v = b.next
    <3>1. block[v].prev = u
      BY <2>1, <2>2 DEF Allocatable
    <3>2. block'[v].prev = r
      BY <2>1, <2>2, <1>8
    <3>. QED BY <3>1, <3>2, <2>1
  <2>3. CASE v # b.next
    BY <2>1, <2>3, <1>8
  <2>. QED BY <2>1, <2>2, <2>3
<1>28. SegmentsSplit'
  <2>1. ASSUME NEW v \in Blocks' PROVE \E q \in S : Inside(v, q)'
    <3>1. CASE v \in {u, r}
      BY <3>1, <1>26
    <3>2. CASE v \notin {u, r}
      BY <3>2, <1>10, <1>25 DEF IInv, SegmentsSplit, InSegment
    <3>. QED BY <3>1, <3>2
  <2>2. ASSUME NEW v \in Blocks' PROVE block'[v].prev = 0 <=> v \in S
    <3>1. CASE v = u
      BY <3>1, <1>6 DEF InSegment
    <3>2. CASE v = r
      BY <3>2, <1>3, <1>7, <1>27
    <3>3. CASE v \notin {u, r}
      <4>1. v \in Blocks \ {u} /\ v \in Units \ {u, r} /\ v # 0
        BY <3>3, <1>10, <1>11
      <4>2. block'[v].prev = 0 <=> block[v].prev = 0
        BY <4>1, <1>30
      <4>. QED BY <4>1, <4>2 DEF IInv, SegmentsSplit, InSegment
    <3>. QED BY <3>1, <3>2, <3>3
  <2>3. ASSUME NEW v \in Blocks', NEW q \in S, Inside(v, q)', block'[v].next = 0
        PROVE  v + block'[v].size = q + segment[q]
    <3>1. CASE v = u
      BY <3>1, <2>3, <1>3, <1>5, <1>6
    <3>2. CASE v = r
      BY <3>2, <2>3, <1>7, <1>13, <1>26 DEF InSegment
    <3>3. CASE v \notin {u, r}
      BY <3>3, <2>3, <1>8, <1>10, <1>11, <1>25 DEF IInv, SegmentsSplit, InSegment
    <3>. QED BY <3>1, <3>2, <3>3
  <2>4. ASSUME NEW q \in S, NEW a \in q .. (q + segment[q] - 1)
        PROVE  \E v \in Blocks' : a \in Extent(v)'
    <3>1. CASE q \in Settled
      <4>1. \E v \in Blocks : a \in Extent(v)
        BY <3>1 DEF IInv, SegmentsSplit
      <4>. QED BY <4>1, <1>23
    <3>2. CASE q \notin Settled
      <4>1. q = u /\ u = p /\ u + b.size = q + segment[q]
        BY <3>2 DEF InSegment
      <4>2. a \in u .. (u + b.size - 1)
        BY <4>1, <1>3, <1>26
      <4>. QED BY <4>2, <1>22
    <3>. QED BY <3>1, <3>2
  <2>. QED BY <2>1, <2>2, <2>3, <2>4 DEF SegmentsSplit
<1>29. SplitSizes'
  <2>1. ASSUME NEW v \in Blocks', NEW q \in S, block'[v].is_small, Inside(v, q)'
        PROVE  segment[q] <= kSmallBuffer
    <3>1. CASE v \in {u, r}
      BY <3>1, <2>1, <1>6, <1>7, <1>26 DEF InSegment
    <3>2. CASE v \notin {u, r}
      BY <3>2, <2>1, <1>8, <1>10, <1>11, <1>25 DEF IInv, SplitSizes, InSegment
    <3>. QED BY <3>1, <3>2
  <2>2. ASSUME NEW v \in Blocks', NEW q \in S, ~block'[v].is_small,
               is_split(block'[v]), Inside(v, q)'
        PROVE  block'[v].size > kSmallSize /\ segment[q] <= MaxSplitSize + kSmallSize
    <3>1. CASE v \in {u, r}
      <4>1. ~b.is_small /\ q = p
        BY <3>1, <2>2, <1>6, <1>7, <1>26
      <4>2. n > kSmallSize /\ segment[p] <= MaxSplitSize + kSmallSize
        BY <4>1 DEF InSegment
      <4>3. b.size - n > kSmallSize
        BY <4>1 DEF should_split
      <4>. QED BY <4>1, <4>2, <4>3, <3>1, <1>6, <1>7
    <3>2. CASE v \notin {u, r}
      <4>1. v \in Blocks \ {u} /\ v \in Units \ {u, r} /\ v # 0
        BY <3>2, <1>10, <1>11
      <4>2. block'[v].prev = 0 <=> block[v].prev = 0
        BY <4>1, <1>30
      <4>3. is_split(block[v])
        BY <4>1, <4>2, <2>2, <1>8 DEF is_split
      <4>. QED BY <4>1, <4>3, <2>2, <1>8, <1>25 DEF IInv, SplitSizes, InSegment
    <3>. QED BY <3>1, <3>2
  <2>. QED BY <2>1, <2>2 DEF SplitSizes
<1>. QED BY <1>1, <1>2, <1>3, <1>5, <1>9, <1>12, <1>14, <1>15, <1>16, <1>17, <1>18, <1>19,
            <1>21, <1>24, <1>28, <1>29 DEF BlockInv

(***************************************************************************)
(* Sizes.                                                                  *)
(***************************************************************************)
\* Multiplication by a natural number keeps the order.
LEMMA MulMonotone ==
  ASSUME NEW k \in Nat, NEW x \in Int, NEW y \in Int, x <= y
  PROVE  k * x <= k * y
  BY SMT

\* Integer division, as get_allocation_size uses it to round up.
LEMMA DivBounds ==
  ASSUME NEW d \in Nat, d > 0, NEW a \in Nat
  PROVE  d * (a \div d) <= a /\ a < d * (a \div d) + d /\ a \div d \in Nat
  BY SMT

\* A multiple is divided without a rest.
LEMMA DivExact ==
  ASSUME NEW d \in Nat, d > 0, NEW a \in Nat, a % d = 0
  PROVE  a = d * (a \div d)
  BY SMT

\* Rounding up to a multiple of 2k gives at least n, and exceeds a multiple m
\* of k above n by at most k.
LEMMA RoundBound ==
  ASSUME NEW k \in Nat, k > 0, NEW m \in Nat, m % k = 0, NEW n \in Nat, n > 0
  PROVE  LET s == (2 * k) * ((n + 2 * k - 1) \div (2 * k))
         IN  s \in Nat /\ n <= s /\ (n < m => s <= m + k)
<1>. DEFINE q == (n + 2 * k - 1) \div (2 * k)
            j == m \div k
<1>1. m = k * j /\ j \in Nat
  BY DivExact, DivBounds
<1>2. 2 * k \in Nat /\ 2 * k > 0 /\ n + 2 * k - 1 \in Nat
  OBVIOUS
<1>3. (2 * k) * q <= n + 2 * k - 1 /\ n + 2 * k - 1 < (2 * k) * q + 2 * k /\ q \in Nat
  BY <1>2, DivBounds
<1>. HIDE DEF q, j
<1>4. (2 * k) * q \in Nat /\ n <= (2 * k) * q
  BY <1>3
<1>5. ASSUME n < m PROVE (2 * k) * q <= m + k
  <2>1. (2 * k) * q = k * (2 * q) /\ k * (j + 2) = k * j + 2 * k /\ k * (j + 1) = k * j + k
    BY <1>1, <1>3
  <2>2. k * (2 * q) < k * (j + 2)
    BY <2>1, <1>1, <1>3, <1>4, <1>5
  <2>3. ~(j + 2 <= 2 * q)
    BY <2>2, <1>1, <1>3, MulMonotone
  <2>4. 2 * q <= j + 1
    BY <2>3, <1>1, <1>3
  <2>5. k * (2 * q) <= k * (j + 1)
    BY <2>4, MulMonotone, <1>1, <1>3
  <2>. QED BY <2>1, <2>5, <1>1
<1>. QED BY <1>4, <1>5 DEF q

\* A segment is large enough for the request it is obtained for; a segment of
\* the large pool that may be split exceeds MaxSplitSize by at most kSmallSize.
LEMMA AllocationSize ==
  ASSUME NEW n \in Nat, n > 0
  PROVE  LET s == get_allocation_size(n)
         IN  /\ s \in Nat /\ n <= s
             /\ is_small(n) => s = kSmallBuffer
             /\ n < MaxSplitSize => s <= MaxSplitSize + kSmallSize
<1>1. /\ kSmallSize \in Nat /\ kSmallSize > 0 /\ kSmallBuffer \in Nat /\ kMinLargeAlloc \in Nat
      /\ kLargeBuffer \in Nat /\ MaxSplitSize \in Nat
      /\ kSmallSize <= kSmallBuffer /\ kMinLargeAlloc <= kLargeBuffer
      /\ kSmallBuffer < MaxSplitSize /\ kLargeBuffer < MaxSplitSize
      /\ kRoundLarge = 2 * kSmallSize /\ MaxSplitSize % kSmallSize = 0
  BY SizeAssumption, SplitAssumption
<1>2. CASE n <= kSmallSize
  BY <1>1, <1>2 DEF get_allocation_size, is_small
<1>3. CASE ~(n <= kSmallSize) /\ n < kMinLargeAlloc
  BY <1>1, <1>3 DEF get_allocation_size, is_small
<1>4. CASE ~(n <= kSmallSize) /\ ~(n < kMinLargeAlloc)
  <2>. DEFINE s == (2 * kSmallSize) * ((n + 2 * kSmallSize - 1) \div (2 * kSmallSize))
  <2>1. get_allocation_size(n) = s
    BY <1>1, <1>4 DEF get_allocation_size
  <2>2. s \in Nat /\ n <= s /\ (n < MaxSplitSize => s <= MaxSplitSize + kSmallSize)
    BY <1>1, RoundBound
  <2>. QED BY <2>1, <2>2, <1>4 DEF is_small
<1>. QED BY <1>2, <1>3, <1>4

(***************************************************************************)
(* The block get_free_block finds, and the one alloc_block makes.          *)
(***************************************************************************)
\* A block that is not split is a whole segment.
LEMMA WholeSegment ==
  ASSUME IInv, NEW u \in Blocks, block[u].prev = 0, block[u].next = 0
  PROVE  u \in Settled /\ segment[u] = block[u].size
<1>1. u \in Settled
  BY DEF IInv, SegmentsSplit
<1>2. PICK p \in Settled : Inside(u, p)
  BY DEF IInv, SegmentsSplit
<1>3. u + block[u].size = p + segment[p]
  BY <1>2 DEF IInv, SegmentsSplit
<1>4. /\ u \in Nat /\ block[u].size \in Nat /\ block[u].size > 0
      /\ p \in Nat /\ segment[p] \in Nat /\ segment[u] \in Nat
      /\ p < u => p + segment[p] <= u
  BY <1>1, Types
<1>5. p = u
  BY <1>2, <1>3, <1>4 DEF Inside
<1>. QED BY <1>1, <1>3, <1>4, <1>5

\* A block that get_free_block has found may be given to alloc_found_block.
LEMMA FromPool ==
  ASSUME IInv, NEW s \in Streams, NEW n \in Nat, n > 0, NEW u \in cached,
         get_free_block(s, n, u)
  PROVE  \E p \in Settled : /\ Allocatable(u, block[u], n, p, Settled)
                            /\ InSegment(u, block[u], n, p, Settled)
<1>. DEFINE b == block[u]
<1>1. /\ u \in Blocks /\ ~b.allocated /\ b.stream_uses = {} /\ b.event_count = 0
      /\ \A x \in Streams : musa_events[x][u] = NoEvent
      /\ \A a \in Extent(u), x \in Streams : x # b.stream => pend[x][a] = 0
  BY CachedQuiet
<1>2. /\ NumUnits \in Nat /\ Units = 1..NumUnits /\ block \in [Units -> Block]
      /\ cached \subseteq Units
      /\ \A a \in Units : block[a].size \in Nat /\ block[a].prev \in Nat /\ block[a].next \in Nat
      /\ \A a \in Blocks : /\ a \in Units /\ a \in Nat /\ a > 0
                           /\ block[a].size \in Nat /\ block[a].size > 0
                           /\ a + block[a].size - 1 <= NumUnits
                           /\ block[a].stream \in Streams
  BY Types
<1>3. /\ \A p \in Settled : /\ p \in Units /\ p \in Nat /\ segment[p] \in Nat /\ segment[p] > 0
                            /\ p + segment[p] - 1 <= NumUnits
      /\ \A p, q \in Settled : p < q => p + segment[p] <= q
  BY Types
<1>4. b.size >= n /\ b.is_small = is_small(n)
  BY DEF get_free_block, lower_bound, SamePool
<1>5. n < MaxSplitSize => b.size < MaxSplitSize
  BY <1>1, <1>2, SizeAssumption DEF get_free_block
<1>6. PICK p \in Settled : Inside(u, p)
  BY <1>1 DEF IInv, SegmentsSplit
<1>7. \A v \in Blocks :
        /\ block[v].next # 0 =>
             /\ block[v].next = v + block[v].size /\ block[v].next \in Blocks
             /\ block[block[v].next].prev = v
             /\ block[block[v].next].stream = block[v].stream
             /\ block[block[v].next].is_small = block[v].is_small
        /\ block[v].prev # 0 => block[v].prev \in Blocks /\ block[block[v].prev].next = v
  BY DEF IInv, Linked
<1>8. Allocatable(u, b, n, p, Settled)
  <2>1. /\ u \in Units /\ b \in Block /\ b.size > 0 /\ u + b.size - 1 <= NumUnits
        /\ b.stream \in Streams /\ n <= b.size
    BY <1>1, <1>2, <1>4
  <2>2. \A v \in Blocks \ {u} : /\ v < u => v + block[v].size <= u
                                /\ u < v => u + b.size <= v
                                /\ block[v].next = u => b.prev = v
                                /\ block[v].prev = u => b.next = v
    <3>1. \A v \in Blocks \ {u} : block[v].next = u => b.prev = v
      BY <1>1, <1>2, <1>7
    <3>2. ASSUME NEW v \in Blocks \ {u}, block[v].prev = u PROVE b.next = v
      <4>1. block[v].prev # 0
        BY <3>2, <1>1, <1>2
      <4>. QED BY <3>2, <4>1, <1>7
    <3>3. \A x, y \in Blocks : x < y => x + block[x].size <= y
      BY DEF IInv, Disjoint
    <3>. QED BY <3>1, <3>2, <3>3, <1>1
  <2>3. b.next # 0 => /\ b.next = u + b.size /\ b.next \in Blocks \ {u}
                      /\ b.next \notin cached
                      /\ block[b.next].prev = u
                      /\ block[b.next].stream = b.stream
                      /\ block[b.next].is_small = b.is_small
    BY <1>1, <1>2, <1>7 DEF IInv, Coalesced
  <2>4. b.prev # 0 => /\ b.prev \in Blocks \ {u} /\ b.prev \notin cached
                      /\ b.prev + block[b.prev].size = u
                      /\ block[b.prev].next = u
                      /\ block[b.prev].stream = b.stream
                      /\ block[b.prev].is_small = b.is_small
    <3>. SUFFICES ASSUME b.prev # 0
                  PROVE  /\ b.prev \in Blocks \ {u} /\ b.prev \notin cached
                         /\ b.prev + block[b.prev].size = u
                         /\ block[b.prev].next = u
                         /\ block[b.prev].stream = b.stream
                         /\ block[b.prev].is_small = b.is_small
      OBVIOUS
    <3>1. b.prev \in Blocks /\ block[b.prev].next = u /\ u # 0
      BY <1>1, <1>2, <1>7
    <3>2. /\ b.prev + block[b.prev].size = u
          /\ block[b.prev].stream = b.stream /\ block[b.prev].is_small = b.is_small
      BY <3>1, <1>7
    <3>3. b.prev # u
      BY <3>1, <3>2, <1>2
    <3>4. b.prev \notin cached
      BY <3>1 DEF IInv, Coalesced
    <3>. QED BY <3>1, <3>2, <3>3, <3>4
  <2>. QED BY <2>1, <2>2, <2>3, <2>4, <1>1 DEF Allocatable, Extent
<1>9. ~b.is_small /\ should_split(b, n) =>
        n > kSmallSize /\ segment[p] <= MaxSplitSize + kSmallSize
  <2>. SUFFICES ASSUME ~b.is_small, should_split(b, n)
                PROVE  n > kSmallSize /\ segment[p] <= MaxSplitSize + kSmallSize
    OBVIOUS
  <2>1. n > kSmallSize /\ n < MaxSplitSize
    <3>1. ~(n <= kSmallSize)
      BY <1>4 DEF is_small
    <3>2. n < MaxSplitSize
      BY DEF should_split
    <3>. QED BY <3>1, <3>2, SizeAssumption
  <2>2. CASE is_split(b)
    BY <2>1, <2>2, <1>1, <1>6 DEF IInv, SplitSizes
  <2>3. CASE ~is_split(b)
    <3>1. segment[u] = b.size /\ u \in Settled
      BY <2>3, <1>1, WholeSegment DEF is_split
    <3>2. p = u
      BY <3>1, <1>1, <1>2, <1>3, <1>6 DEF Inside
    <3>. QED BY <3>1, <3>2, <2>1, <1>1, <1>2, <1>5, SizeAssumption
  <2>. QED BY <2>2, <2>3
<1>10. InSegment(u, b, n, p, Settled)
  <2>1. p <= u /\ u + b.size <= p + segment[p]
    BY <1>6 DEF Inside
  <2>2. /\ b.prev = 0 <=> u \in Settled
        /\ b.next = 0 => u + b.size = p + segment[p]
    BY <1>1, <1>6 DEF IInv, SegmentsSplit
  <2>3. /\ b.is_small => segment[p] <= kSmallBuffer
        /\ ~b.is_small /\ is_split(b) =>
             b.size > kSmallSize /\ segment[p] <= MaxSplitSize + kSmallSize
    BY <1>1, <1>6 DEF IInv, SplitSizes
  <2>. QED BY <2>1, <2>2, <2>3, <1>3, <1>9 DEF InSegment
<1>. QED BY <1>8, <1>10

\* So may the new Block of a segment that a thread brings from musaMalloc.
LEMMA FromDriver ==
  ASSUME IInv, NEW t \in Threads, call[t].ptr # 0
  PROVE  LET u == call[t].ptr
             n == call[t].size
             b == NewBlock(get_allocation_size(n), call[t].stream, is_small(n))
         IN  /\ Allocatable(u, b, n, u, Settled \cup {u})
             /\ InSegment(u, b, n, u, Settled \cup {u})
             /\ u \notin Settled
<1>0. PICK u : u = call[t].ptr
  OBVIOUS
<1>. DEFINE n == call[t].size
            b == NewBlock(get_allocation_size(n), call[t].stream, is_small(n))
<1>1. /\ u \in 0..NumUnits /\ u # 0 /\ n \in Requests /\ call[t].stream \in Streams
      /\ pc[t] = "after_musaMalloc" /\ segment[u] = get_allocation_size(n)
  BY <1>0 DEF IInv, TypeOK, CallOK
<1>2. u \in Units /\ u \in Nat /\ u > 0 /\ n \in Nat /\ n > 0
  BY <1>1, SizeAssumption DEF Units
<1>3. /\ segment[u] \in Nat /\ n <= segment[u]
      /\ is_small(n) => segment[u] = kSmallBuffer
      /\ n < MaxSplitSize => segment[u] <= MaxSplitSize + kSmallSize
  BY <1>1, <1>2, AllocationSize
<1>4. segment[u] > 0 /\ u + segment[u] - 1 <= NumUnits
  BY <1>2, <1>3 DEF IInv, SegmentsDisjoint
<1>5. u \notin Settled
  BY <1>0, <1>1 DEF Settled, InFlightSegments, InFlight
<1>6. /\ NumUnits \in Nat /\ Units = 1..NumUnits
      /\ \A a \in Blocks : /\ a \in Units /\ a \in Nat /\ a > 0
                           /\ block[a].size \in Nat /\ block[a].size > 0
      /\ \A p \in Settled : /\ p \in Units /\ p \in Nat /\ segment[p] \in Nat /\ segment[p] > 0
                            /\ p + segment[p] - 1 <= NumUnits
      /\ \A p, q \in Settled : p < q => p + segment[p] <= q
  BY Types
<1>7. \A p \in Settled : /\ p < u => p + segment[p] <= u
                         /\ u < p => u + segment[u] <= p
  BY <1>2, <1>4 DEF IInv, SegmentsDisjoint, Settled
<1>8. ASSUME NEW v \in Blocks PROVE v + block[v].size <= u \/ u + segment[u] <= v
  <2>1. PICK p \in Settled : Inside(v, p)
    BY DEF IInv, SegmentsSplit
  <2>2. p # u
    BY <1>5
  <2>3. /\ p \in Nat /\ segment[p] \in Nat /\ v \in Nat /\ block[v].size \in Nat
        /\ p <= v /\ v + block[v].size <= p + segment[p]
    BY <2>1, <1>6 DEF Inside
  <2>4. CASE p < u
    BY <2>3, <2>4, <1>2, <1>7
  <2>5. CASE u < p
    BY <2>3, <2>5, <1>2, <1>3, <1>7
  <2>. QED BY <2>2, <2>3, <2>4, <2>5, <1>2
<1>9. u \notin Blocks
  BY <1>2, <1>3, <1>4, <1>6, <1>8
<1>10. /\ b.size = segment[u] /\ b.prev = 0 /\ b.next = 0 /\ b.stream = call[t].stream
       /\ b.is_small = is_small(n) /\ ~b.allocated /\ b.stream_uses = {} /\ b.event_count = 0
  BY <1>1 DEF NewBlock
<1>11. b \in Block
  <2>1. segment[u] \in 0..NumUnits /\ is_small(n) \in BOOLEAN /\ 0 \in 0..NumUnits
    BY <1>2, <1>3, <1>4, <1>6 DEF is_small
  <2>. QED BY <2>1, <1>1 DEF Block, NewBlock
<1>. HIDE DEF b, n
<1>12. Allocatable(u, b, n, u, Settled \cup {u})
  <2>1. \A v \in Blocks \ {u} : /\ v < u => v + block[v].size <= u
                                /\ u < v => u + b.size <= v
    BY <1>2, <1>3, <1>4, <1>6, <1>8, <1>10
  <2>2. \A v \in Blocks : block[v].next # u /\ block[v].prev # u
    BY <1>2, <1>9 DEF IInv, Linked
  <2>3. \A s \in Streams : musa_events[s][u] = NoEvent
    BY <1>2, <1>9 DEF IInv, EventCounts
  <2>4. ASSUME NEW a \in u .. (u + b.size - 1), NEW s \in Streams PROVE pend[s][a] = 0
    <3>1. a \in Units /\ a \in Nat
      BY <1>2, <1>3, <1>4, <1>6, <1>10
    <3>2. pend[s][a] \in Nat
      BY <3>1, Types
    <3>3. ASSUME NEW v \in Blocks, a \in Extent(v) PROVE FALSE
      <4>1. /\ v \in Nat /\ block[v].size \in Nat /\ u \in Nat /\ segment[u] \in Nat
            /\ v + block[v].size <= u \/ u + segment[u] <= v
        BY <1>2, <1>3, <1>6, <1>8
      <4>2. u <= a /\ a <= u + segment[u] - 1
        BY <1>10
      <4>. QED BY <4>1, <4>2, <3>1, <3>3 DEF Extent
    <3>. QED BY <3>1, <3>2, <3>3 DEF IInv, UncoveredIdle
  <2>. QED BY <2>1, <2>2, <2>3, <2>4, <1>1, <1>2, <1>3, <1>4, <1>9, <1>10, <1>11 DEF Allocatable
<1>13. InSegment(u, b, n, u, Settled \cup {u})
  <2>1. \A v \in Blocks \ {u} : ~Inside(v, u)
    BY <1>2, <1>3, <1>6, <1>8 DEF Inside
  <2>2. ~b.is_small /\ should_split(b, n) =>
          n > kSmallSize /\ segment[u] <= MaxSplitSize + kSmallSize
    <3>. SUFFICES ASSUME ~b.is_small, should_split(b, n)
                  PROVE  n > kSmallSize /\ segment[u] <= MaxSplitSize + kSmallSize
      OBVIOUS
    <3>1. ~(n <= kSmallSize)
      BY <1>10 DEF is_small
    <3>2. n < MaxSplitSize
      BY DEF should_split
    <3>. QED BY <3>1, <3>2, <1>2, <1>3, SizeAssumption
  <2>3. \A q, r \in Settled \cup {u} : q < r => q + segment[q] <= r
    BY <1>2, <1>6, <1>7
  <2>4. \A q \in Settled \cup {u} : /\ q \in Units /\ segment[q] \in Nat /\ segment[q] > 0
                                   /\ q + segment[q] - 1 <= NumUnits
    BY <1>2, <1>3, <1>4, <1>6
  <2>5. ~is_split(b)
    BY <1>10 DEF is_split
  <2>6. b.is_small => segment[u] <= kSmallBuffer
    BY <1>3, <1>10, SizeAssumption
  <2>7. u <= u /\ u + b.size <= u + segment[u] /\ u + b.size = u + segment[u]
    BY <1>2, <1>3, <1>10
  <2>. QED BY <2>1, <2>2, <2>3, <2>4, <2>5, <2>6, <2>7, <1>10 DEF InSegment
<1>. QED BY <1>0, <1>5, <1>12, <1>13 DEF b, n

(***************************************************************************)
(* Releasing blocks.                                                       *)
(***************************************************************************)
\* A cached block of at least MaxSplitSize units is not split: a piece of a
\* segment is always smaller.
LEMMA OversizeWhole ==
  ASSUME IInv, NEW u \in cached, block[u].size >= MaxSplitSize
  PROVE  ~is_split(block[u])
<1>. SUFFICES ASSUME is_split(block[u]) PROVE FALSE
  OBVIOUS
<1>1. /\ u \in Blocks
      /\ \A a \in Blocks : a \in Nat /\ a > 0 /\ block[a].size \in Nat /\ block[a].size > 0
      /\ \A p \in Settled : p \in Nat /\ segment[p] \in Nat
  BY Types, CachedQuiet
<1>2. /\ kSmallSize \in Nat /\ kSmallBuffer \in Nat /\ MaxSplitSize \in Nat
      /\ kSmallBuffer < MaxSplitSize
  BY SizeAssumption, SplitAssumption
<1>3. PICK p \in Settled : Inside(u, p)
  BY <1>1 DEF IInv, SegmentsSplit
<1>4. ~block[u].is_small
  BY <1>1, <1>2, <1>3 DEF IInv, SplitSizes, Inside
<1>5. segment[p] <= MaxSplitSize + kSmallSize
  BY <1>1, <1>3, <1>4 DEF IInv, SplitSizes
<1>6. CASE block[u].next # 0
  <2>. DEFINE v == block[u].next
  <2>1. v \in Blocks /\ v = u + block[u].size /\ block[v].prev = u /\ ~block[v].is_small
    BY <1>1, <1>4, <1>6 DEF IInv, Linked
  <2>2. Inside(v, p)
    BY <1>1, <1>3, <1>6, SameSegment
  <2>3. block[v].size > kSmallSize
    BY <2>1, <2>2, <1>1 DEF IInv, SplitSizes, is_split
  <2>. QED BY <2>1, <2>2, <2>3, <1>1, <1>2, <1>3, <1>5 DEF Inside
<1>7. CASE block[u].prev # 0
  <2>. DEFINE v == block[u].prev
  <2>1. v \in Blocks /\ block[v].next = u /\ u # 0
    BY <1>1, <1>7 DEF IInv, Linked
  <2>2. u = v + block[v].size /\ ~block[v].is_small
    BY <2>1, <1>4 DEF IInv, Linked
  <2>3. Inside(v, p)
    BY <2>1, <1>3, SameSegment
  <2>4. block[v].size > kSmallSize
    BY <2>1, <2>2, <2>3, <1>1 DEF IInv, SplitSizes, is_split
  <2>. QED BY <2>1, <2>2, <2>3, <2>4, <1>1, <1>2, <1>3, <1>5 DEF Inside
<1>. QED BY <1>6, <1>7 DEF is_split

\* What release_blocks does to the blocks, for blocks that are whole segments.
LEMMA ReleaseInv ==
  ASSUME IInv, NEW R, R \subseteq cached, \A u \in R : ~is_split(block[u]),
         release_blocks(R), pend' = pend, musa_events' = musa_events,
         InFlightSegments' = InFlightSegments
  PROVE  /\ BlockInv' /\ SegmentsDisjoint'
         /\ block' \in [Units -> Block] /\ cached' \subseteq Units
         /\ segment' \in [Units -> Nat]
         /\ R \subseteq Settled /\ \A a \in Units \ R : segment'[a] = segment[a]
<1>1. /\ block' = [a \in Units |-> IF a \in R THEN NoBlock ELSE block[a]]
      /\ cached' = cached \ R /\ active' = active
      /\ segment' = [a \in Units |-> IF a \in R THEN 0 ELSE segment[a]]
      /\ \A u \in R : \A a \in Extent(u) \cap Units : \A s \in Streams : pend[s][a] = 0
  BY DEF release_blocks, musaFreeReturns
<1>2. /\ block \in [Units -> Block] /\ NumUnits \in Nat /\ Units = 1..NumUnits
      /\ cached \subseteq Units /\ active \subseteq Units
      /\ \A a \in Units : block[a].size \in Nat /\ block[a].prev \in Nat /\ block[a].next \in Nat
      /\ \A a \in Blocks : /\ a \in Units /\ a \in Nat /\ a > 0
                           /\ block[a].size \in Nat /\ block[a].size > 0
                           /\ a + block[a].size - 1 <= NumUnits
                           /\ block[a].stream \in Streams
      /\ \A u \in Blocks : \A a \in Extent(u) : a \in Units /\ a \in Nat
  BY Types
<1>3. /\ \A p \in Settled : /\ p \in Units /\ p \in Nat /\ p > 0
                            /\ segment[p] \in Nat /\ segment[p] > 0
      /\ \A p, q \in Settled : p < q => p + segment[p] <= q
  BY Types
<1>4. \A u \in R : /\ u \in Blocks /\ u \in Settled /\ segment[u] = block[u].size
                   /\ block[u].prev = 0 /\ block[u].next = 0
                   /\ \A s \in Streams : musa_events[s][u] = NoEvent
  <2>. SUFFICES ASSUME NEW u \in R
                PROVE  /\ u \in Blocks /\ u \in Settled /\ segment[u] = block[u].size
                       /\ block[u].prev = 0 /\ block[u].next = 0
                       /\ \A s \in Streams : musa_events[s][u] = NoEvent
    OBVIOUS
  <2>1. u \in Blocks /\ \A s \in Streams : musa_events[s][u] = NoEvent
    BY CachedQuiet
  <2>2. block[u].prev = 0 /\ block[u].next = 0
    BY DEF is_split
  <2>. QED BY <2>1, <2>2, WholeSegment
<1>5. /\ \A a \in R : block'[a] = NoBlock
      /\ \A a \in Units \ R : block'[a] = block[a] /\ segment'[a] = segment[a]
      /\ R \subseteq Units
  BY <1>1, <1>2
<1>6. block' \in [Units -> Block]
  <2>1. NoBlock \in Block
    BY <1>2 DEF NoBlock, Block
  <2>. QED BY <2>1, <1>1, <1>2
<1>7. Blocks' = Blocks \ R
  <2>1. NoBlock.size = 0
    BY DEF NoBlock
  <2>. QED BY <2>1, <1>5 DEF Blocks
<1>8. segment' \in [Units -> Nat]
  <2>1. segment \in [Units -> Nat]
    BY DEF IInv, TypeOK
  <2>. QED BY <2>1, <1>1
<1>9. Settled' = Settled \ R
  BY <1>1, <1>4, <1>5 DEF Settled
<1>10. SegmentsDisjoint'
  BY <1>1 DEF IInv, SegmentsDisjoint
<1>11. WellFormed'
  <2>1. NoBlock.size = 0
    BY DEF NoBlock
  <2>. QED BY <2>1, <1>5 DEF IInv, WellFormed
<1>12. Disjoint'
  BY <1>2, <1>5, <1>7 DEF IInv, Disjoint
<1>13. Linked'
  <2>. SUFFICES ASSUME NEW v \in Blocks'
                PROVE  /\ block'[v].next # 0 =>
                            /\ block'[v].next = v + block'[v].size
                            /\ block'[v].next \in Blocks'
                            /\ block'[block'[v].next].prev = v
                            /\ block'[block'[v].next].stream = block'[v].stream
                            /\ block'[block'[v].next].is_small = block'[v].is_small
                       /\ block'[v].prev # 0 =>
                            /\ block'[v].prev \in Blocks'
                            /\ block'[block'[v].prev].next = v
    BY DEF Linked
  <2>1. v \in Blocks /\ v # 0 /\ block'[v] = block[v]
    BY <1>2, <1>5, <1>7
  <2>2. /\ block[v].next # 0 =>
             /\ block[v].next = v + block[v].size /\ block[v].next \in Blocks
             /\ block[block[v].next].prev = v
             /\ block[block[v].next].stream = block[v].stream
             /\ block[block[v].next].is_small = block[v].is_small
        /\ block[v].prev # 0 =>
             /\ block[v].prev \in Blocks /\ block[block[v].prev].next = v
    BY <2>1 DEF IInv, Linked
  <2>3. /\ block[v].next # 0 => block[v].next \in Blocks \ R
        /\ block[v].prev # 0 => block[v].prev \in Blocks \ R
    BY <2>1, <2>2, <1>4
  <2>. QED BY <2>1, <2>2, <2>3, <1>2, <1>5, <1>7
<1>14. FlagsMatchPools'
  <2>1. cached \subseteq Blocks /\ active = Blocks \ cached
        /\ \A a \in Blocks : a \in cached <=> can_merge(a)
    BY DEF IInv, FlagsMatchPools
  <2>2. \A a \in Blocks \ R : can_merge(a)' <=> can_merge(a)
    BY <1>2, <1>5 DEF can_merge
  <2>3. cached' \subseteq Blocks' /\ active' = Blocks' \ cached'
    BY <2>1, <1>1, <1>7
  <2>4. \A a \in Blocks' : a \in cached' <=> can_merge(a)'
    BY <2>1, <2>2, <1>1, <1>7
  <2>. QED BY <2>3, <2>4 DEF FlagsMatchPools
<1>15. UsesAllocated'
  BY <1>2, <1>5, <1>7 DEF IInv, UsesAllocated
<1>16. EventCounts'
  <2>. SUFFICES ASSUME NEW a \in Units
                PROVE  LET W == {s \in Streams : musa_events[s][a] # NoEvent}
                       IN /\ block'[a].event_count = Cardinality(W)
                          /\ W # {} => a \in Blocks' /\ ~block'[a].allocated
    BY DEF EventCounts
  <2>1. CASE a \in R
    <3>1. {s \in Streams : musa_events[s][a] # NoEvent} = {}
      BY <2>1, <1>4
    <3>2. block'[a].event_count = 0
      BY <2>1, <1>5 DEF NoBlock
    <3>. QED BY <3>1, <3>2, FS_EmptySet
  <2>2. CASE a \notin R
    BY <2>2, <1>5, <1>7 DEF IInv, EventCounts
  <2>. QED BY <2>1, <2>2
<1>17. Coalesced'
  BY <1>1, <1>2, <1>5 DEF IInv, Coalesced
<1>18. \A v \in Blocks \ R : Extent(v)' = Extent(v)
  BY <1>2, <1>5 DEF Extent
<1>19. WorkTracked'
  BY <1>2, <1>5, <1>7, <1>18 DEF IInv, WorkTracked
<1>20. UncoveredIdle'
  <2>. SUFFICES ASSUME NEW a \in Units, NEW s \in Streams, pend[s][a] > 0
                PROVE  \E v \in Blocks' : a \in Extent(v)'
    BY DEF UncoveredIdle
  <2>1. PICK v \in Blocks : a \in Extent(v)
    BY DEF IInv, UncoveredIdle
  <2>2. v \notin R
    BY <2>1, <1>1
  <2>. QED BY <2>1, <2>2, <1>7, <1>18
<1>21. \A p \in Settled \ R : \A v \in Blocks \ R : Inside(v, p)' <=> Inside(v, p)
  BY <1>2, <1>3, <1>5 DEF Inside
<1>22. ASSUME NEW v \in Blocks \ R, NEW p \in Settled, Inside(v, p) PROVE p \notin R
  <2>. SUFFICES ASSUME p \in R PROVE FALSE
    OBVIOUS
  <2>1. p \in Blocks /\ segment[p] = block[p].size /\ p # v
    BY <1>4
  <2>2. p < v => p + block[p].size <= v
    BY <2>1 DEF IInv, Disjoint
  <2>. QED BY <2>1, <2>2, <1>2, <1>22 DEF Inside
<1>23. SegmentsSplit'
  <2>1. ASSUME NEW v \in Blocks' PROVE \E p \in Settled' : Inside(v, p)'
    <3>1. PICK p \in Settled : Inside(v, p)
      BY <1>7 DEF IInv, SegmentsSplit
    <3>. QED BY <3>1, <1>7, <1>9, <1>21, <1>22
  <2>2. ASSUME NEW v \in Blocks' PROVE block'[v].prev = 0 <=> v \in Settled'
    BY <1>2, <1>5, <1>7, <1>9 DEF IInv, SegmentsSplit
  <2>3. ASSUME NEW v \in Blocks', NEW p \in Settled', Inside(v, p)', block'[v].next = 0
        PROVE  v + block'[v].size = p + segment'[p]
    BY <2>3, <1>2, <1>3, <1>5, <1>7, <1>9, <1>21 DEF IInv, SegmentsSplit
  <2>4. ASSUME NEW p \in Settled', NEW a \in p .. (p + segment'[p] - 1)
        PROVE  \E v \in Blocks' : a \in Extent(v)'
    <3>1. p \in Settled /\ p \notin R /\ segment'[p] = segment[p]
      BY <1>3, <1>5, <1>9
    <3>2. PICK v \in Blocks : a \in Extent(v)
      BY <3>1 DEF IInv, SegmentsSplit
    <3>3. v \notin R
      <4>. SUFFICES ASSUME v \in R PROVE FALSE
        OBVIOUS
      <4>1. v \in Settled /\ segment[v] = block[v].size /\ v # p
        BY <3>1, <1>4
      <4>2. v <= a /\ a < v + segment[v] /\ p <= a /\ a < p + segment[p] /\ a \in Nat
        BY <3>1, <3>2, <4>1, <1>2, <1>3 DEF Extent
      <4>. QED BY <4>1, <4>2, <3>1, <1>3
    <3>. QED BY <3>2, <3>3, <1>7, <1>18
  <2>. QED BY <2>1, <2>2, <2>3, <2>4 DEF SegmentsSplit
<1>24. SplitSizes'
  <2>1. ASSUME NEW v \in Blocks', NEW p \in Settled', block'[v].is_small, Inside(v, p)'
        PROVE  segment'[p] <= kSmallBuffer
    BY <2>1, <1>2, <1>3, <1>5, <1>7, <1>9, <1>21 DEF IInv, SplitSizes
  <2>2. ASSUME NEW v \in Blocks', NEW p \in Settled', ~block'[v].is_small,
               is_split(block'[v]), Inside(v, p)'
        PROVE  block'[v].size > kSmallSize /\ segment'[p] <= MaxSplitSize + kSmallSize
    BY <2>2, <1>2, <1>3, <1>5, <1>7, <1>9, <1>21 DEF IInv, SplitSizes
  <2>. QED BY <2>1, <2>2 DEF SplitSizes
<1>. QED BY <1>1, <1>2, <1>4, <1>5, <1>6, <1>8, <1>10, <1>11, <1>12, <1>13, <1>14, <1>15,
            <1>16, <1>17, <1>19, <1>20, <1>23, <1>24 DEF BlockInv

(***************************************************************************)
(* Steps that keep the geometry of the blocks and change their marks.      *)
(***************************************************************************)
GeometryKept ==
  \A a \in Units : /\ block'[a].size = block[a].size
                   /\ block'[a].prev = block[a].prev
                   /\ block'[a].next = block[a].next
                   /\ block'[a].stream = block[a].stream
                   /\ block'[a].is_small = block[a].is_small
                   /\ a \notin Blocks => block'[a] = block[a]

\* A step that only marks blocks (free, recordStream) leaves the lists as they are.
LEMMA GeometryInv ==
  ASSUME IInv, GeometryKept, Settled' = Settled, \A p \in Settled : segment'[p] = segment[p]
  PROVE  /\ Blocks' = Blocks /\ \A v \in Blocks : Extent(v)' = Extent(v)
         /\ WellFormed' /\ Linked' /\ Disjoint' /\ SegmentsSplit' /\ SplitSizes'
<1>1. \A a \in Blocks : a \in Units
  BY DEF Blocks
<1>2. Blocks' = Blocks
  BY DEF GeometryKept, Blocks
<1>3. \A v \in Blocks : Extent(v)' = Extent(v)
  BY <1>1 DEF GeometryKept, Extent
<1>4. \A v \in Blocks, p \in Settled : Inside(v, p)' <=> Inside(v, p)
  BY <1>1 DEF GeometryKept, Inside
<1>5. WellFormed'
  <2>. SUFFICES ASSUME NEW a \in Units
                PROVE  IF block'[a].size > 0
                         THEN a + block'[a].size - 1 <= NumUnits /\ block'[a].stream \in Streams
                         ELSE block'[a] = NoBlock
    BY DEF WellFormed
  <2>. QED BY DEF GeometryKept, IInv, WellFormed, Blocks
<1>6. Linked'
  BY <1>1, <1>2 DEF GeometryKept, IInv, Linked
<1>7. Disjoint'
  BY <1>1, <1>2 DEF GeometryKept, IInv, Disjoint
<1>8. SegmentsSplit'
  <2>1. \A u \in Blocks' : \E p \in Settled' : Inside(u, p)'
    BY <1>2, <1>4 DEF IInv, SegmentsSplit
  <2>2. \A u \in Blocks' : block'[u].prev = 0 <=> u \in Settled'
    BY <1>1, <1>2 DEF IInv, SegmentsSplit, GeometryKept
  <2>3. \A u \in Blocks', p \in Settled' :
          Inside(u, p)' /\ block'[u].next = 0 => u + block'[u].size = p + segment'[p]
    BY <1>1, <1>2, <1>4 DEF IInv, SegmentsSplit, GeometryKept
  <2>4. \A p \in Settled' : \A a \in p .. (p + segment'[p] - 1) :
          \E u \in Blocks' : a \in Extent(u)'
    BY <1>2, <1>3 DEF IInv, SegmentsSplit
  <2>. QED BY <2>1, <2>2, <2>3, <2>4 DEF SegmentsSplit
<1>9. SplitSizes'
  <2>1. \A u \in Blocks', p \in Settled' :
          block'[u].is_small /\ Inside(u, p)' => segment'[p] <= kSmallBuffer
    BY <1>1, <1>2, <1>4 DEF IInv, SplitSizes, GeometryKept
  <2>2. \A u \in Blocks', p \in Settled' :
          ~block'[u].is_small /\ is_split(block'[u]) /\ Inside(u, p)' =>
            block'[u].size > kSmallSize /\ segment'[p] <= MaxSplitSize + kSmallSize
    BY <1>1, <1>2, <1>4 DEF IInv, SplitSizes, GeometryKept, is_split
  <2>. QED BY <2>1, <2>2 DEF SplitSizes
<1>. QED BY <1>2, <1>3, <1>5, <1>6, <1>7, <1>8, <1>9

\* An allocated block has no events.
LEMMA AllocatedNoEvents ==
  ASSUME IInv, NEW u \in Blocks, block[u].allocated
  PROVE  /\ block[u].event_count = 0
         /\ \A s \in Streams : musa_events[s][u] = NoEvent
<1>. DEFINE W == {s \in Streams : musa_events[s][u] # NoEvent}
<1>1. W = {} /\ block[u].event_count = Cardinality(W)
  BY DEF IInv, EventCounts, Blocks
<1>2. Cardinality(W) = 0
  BY <1>1, FS_EmptySet
<1>. QED BY <1>1, <1>2

\* insert_events: every stream that used the block is now held by an event that
\* completes no earlier than its work.
LEMMA InsertEventsInv ==
  ASSUME IInv, NEW u \in Blocks, block[u].allocated, block[u].stream_uses # {},
         insert_events(u), pend' = pend, segment' = segment, Settled' = Settled
  PROVE  /\ BlockInv' /\ block' \in [Units -> Block]
         /\ musa_events' \in [Streams -> [Units -> Nat \cup {NoEvent}]]
<1>. DEFINE uses == block[u].stream_uses
<1>1. /\ block' = [block EXCEPT ![u] =
                     Marking(block[u], FALSE, {}, block[u].event_count + Cardinality(uses))]
      /\ musa_events' = [s \in Streams |->
                          IF s \in uses THEN [musa_events[s] EXCEPT ![u] = depth[s]]
                          ELSE musa_events[s]]
      /\ cached' = cached /\ active' = active
  BY DEF insert_events
<1>2. /\ block \in [Units -> Block] /\ u \in Units /\ uses \subseteq Streams
      /\ musa_events \in [Streams -> [Units -> Nat \cup {NoEvent}]]
      /\ depth \in [Streams -> Nat] /\ pend \in [Streams -> [Units -> Nat]]
  BY DEF IInv, TypeOK, Block, Blocks
<1>3. block[u].event_count = 0 /\ \A s \in Streams : musa_events[s][u] = NoEvent
  BY AllocatedNoEvents
<1>4. Cardinality(uses) \in Nat /\ Cardinality(uses) # 0
  <2>1. IsFiniteSet(uses)
    BY <1>2, StreamAssumption, FS_Subset
  <2>. QED BY <2>1, FS_CardinalityType, FS_EmptySet
<1>5. /\ block'[u].size = block[u].size /\ block'[u].prev = block[u].prev
      /\ block'[u].next = block[u].next /\ block'[u].stream = block[u].stream
      /\ block'[u].is_small = block[u].is_small
      /\ ~block'[u].allocated /\ block'[u].stream_uses = {}
      /\ block'[u].event_count = Cardinality(uses)
  <2>1. block'[u] = Marking(block[u], FALSE, {}, Cardinality(uses))
    <3>1. block[u].event_count + Cardinality(uses) = Cardinality(uses)
      BY <1>3, <1>4
    <3>. QED BY <3>1, <1>1, <1>2
  <2>. QED BY <2>1 DEF Marking
<1>6. \A a \in Units \ {u} : block'[a] = block[a]
  BY <1>1, <1>2
<1>7. /\ \A s \in uses : musa_events'[s][u] = depth[s]
      /\ \A s \in Streams \ uses : musa_events'[s][u] = NoEvent
      /\ \A s \in Streams : \A a \in Units \ {u} : musa_events'[s][a] = musa_events[s][a]
  BY <1>1, <1>2, <1>3
<1>8. block' \in [Units -> Block]
  <2>1. Marking(block[u], FALSE, {}, Cardinality(uses)) \in Block
    BY <1>2, <1>4 DEF Marking, Block
  <2>2. block' = [block EXCEPT ![u] = Marking(block[u], FALSE, {}, Cardinality(uses))]
    <3>1. block[u].event_count + Cardinality(uses) = Cardinality(uses)
      BY <1>3, <1>4
    <3>. QED BY <3>1, <1>1
  <2>. QED BY <2>1, <2>2, <1>2
<1>9. musa_events' \in [Streams -> [Units -> Nat \cup {NoEvent}]]
  BY <1>1, <1>2
<1>10. GeometryKept
  BY <1>5, <1>6 DEF GeometryKept
<1>11. /\ Blocks' = Blocks /\ \A v \in Blocks : Extent(v)' = Extent(v)
       /\ WellFormed' /\ Linked' /\ Disjoint' /\ SegmentsSplit' /\ SplitSizes'
  BY <1>10, GeometryInv
<1>12. \A v \in Blocks : v \in Units
  BY DEF Blocks
<1>13. FlagsMatchPools'
  <2>1. cached \subseteq Blocks /\ active = Blocks \ cached
        /\ \A a \in Blocks : a \in cached <=> can_merge(a)
    BY DEF IInv, FlagsMatchPools
  <2>2. ~can_merge(u) /\ ~can_merge(u)'
    BY <1>4, <1>5 DEF can_merge
  <2>3. \A a \in Blocks \ {u} : can_merge(a)' <=> can_merge(a)
    BY <1>6, <1>12 DEF can_merge
  <2>4. \A a \in Blocks' : a \in cached' <=> can_merge(a)'
    BY <2>1, <2>2, <2>3, <1>1, <1>11
  <2>. QED BY <2>1, <2>4, <1>1, <1>11 DEF FlagsMatchPools
<1>14. UsesAllocated'
  BY <1>5, <1>6, <1>11, <1>12 DEF IInv, UsesAllocated
<1>15. EventCounts'
  <2>. SUFFICES ASSUME NEW a \in Units
                PROVE  LET W == {s \in Streams : musa_events'[s][a] # NoEvent}
                       IN /\ block'[a].event_count = Cardinality(W)
                          /\ W # {} => a \in Blocks' /\ ~block'[a].allocated
    BY DEF EventCounts
  <2>1. CASE a = u
    <3>1. {s \in Streams : musa_events'[s][a] # NoEvent} = uses
      BY <2>1, <1>2, <1>7 DEF NoEvent
    <3>. QED BY <2>1, <3>1, <1>5, <1>11
  <2>2. CASE a # u
    <3>1. {s \in Streams : musa_events'[s][a] # NoEvent}
            = {s \in Streams : musa_events[s][a] # NoEvent}
      BY <2>2, <1>7
    <3>. QED BY <2>2, <3>1, <1>6, <1>11 DEF IInv, EventCounts
  <2>. QED BY <2>1, <2>2
<1>16. Coalesced'
  <2>1. cached \subseteq Units
    BY DEF IInv, TypeOK
  <2>2. \A c \in cached : block'[c].next = block[c].next
    BY <2>1, <1>10 DEF GeometryKept
  <2>3. cached' = cached
    BY <1>1
  <2>. QED BY <2>2, <2>3 DEF IInv, Coalesced
<1>17. WorkTracked'
  <2>. SUFFICES ASSUME NEW v \in Blocks, NEW a \in Extent(v), NEW s \in Streams,
                       s # block[v].stream, pend[s][a] > 0
                PROVE  s \in block'[v].stream_uses \/ musa_events'[s][v] >= pend[s][a]
    BY <1>10, <1>11, <1>12 DEF WorkTracked, GeometryKept
  <2>1. s \in block[v].stream_uses \/ musa_events[s][v] >= pend[s][a]
    BY DEF IInv, WorkTracked
  <2>2. a \in Units /\ pend[s][a] \in Nat /\ depth[s] \in Nat /\ pend[s][a] <= depth[s]
    BY Types, <1>2 DEF IInv, PendBound
  <2>3. CASE v = u
    BY <2>1, <2>2, <2>3, <1>3, <1>7 DEF NoEvent
  <2>4. CASE v # u
    BY <2>1, <2>4, <1>6, <1>7, <1>12
  <2>. QED BY <2>3, <2>4
<1>18. UncoveredIdle'
  BY <1>11 DEF IInv, UncoveredIdle
<1>. QED BY <1>8, <1>9, <1>11, <1>13, <1>14, <1>15, <1>16, <1>17, <1>18 DEF BlockInv

\* An allocated block that no other stream has used may be freed at once.
LEMMA FreeReady ==
  ASSUME IInv, NEW u \in Blocks, block[u].allocated, block[u].stream_uses = {}
  PROVE  Freeable(u, Marking(block[u], FALSE, block[u].stream_uses, block[u].event_count))
<1>. DEFINE b == Marking(block[u], FALSE, block[u].stream_uses, block[u].event_count)
<1>1. block[u].event_count = 0 /\ \A s \in Streams : musa_events[s][u] = NoEvent
  BY AllocatedNoEvents
<1>2. block[u] \in Block /\ u \in Units
  BY Types
<1>3. /\ b.size = block[u].size /\ b.prev = block[u].prev /\ b.next = block[u].next
      /\ b.stream = block[u].stream /\ b.is_small = block[u].is_small
      /\ ~b.allocated /\ b.stream_uses = {} /\ b.event_count = 0
  BY <1>1 DEF Marking
<1>4. b \in Block
  BY <1>2 DEF Marking, Block
<1>5. u \notin cached
  BY DEF IInv, FlagsMatchPools, can_merge
<1>6. ASSUME NEW a \in Extent(u), NEW s \in Streams, s # block[u].stream
      PROVE  pend[s][a] = 0
  <2>1. a \in Units /\ pend[s][a] \in Nat
    BY Types
  <2>2. pend[s][a] > 0 => musa_events[s][u] >= pend[s][a]
    BY <1>6 DEF IInv, WorkTracked
  <2>. QED BY <2>1, <2>2, <1>1 DEF NoEvent
<1>. HIDE DEF b
<1>7. Freeable(u, b)
  BY <1>3, <1>4, <1>5, <1>6 DEF Freeable
<1>. QED BY <1>7 DEF b

\* free: from the program or from a free-memory callback.
LEMMA FreeInv ==
  ASSUME IInv, NEW u \in Blocks, block[u].allocated, free(u),
         pend' = pend, segment' = segment, InFlightSegments' = InFlightSegments
  PROVE  /\ BlockInv' /\ block' \in [Units -> Block]
         /\ cached' \subseteq Units /\ active' \subseteq Units
         /\ stats' \in [inactive_split : Int, inactive_split_bytes : Int]
         /\ musa_events' \in [Streams -> [Units -> Nat \cup {NoEvent}]]
<1>1. CASE block[u].stream_uses # {}
  <2>1. insert_events(u)
    BY <1>1 DEF free
  <2>2. Settled' = Settled
    BY DEF Settled
  <2>3. cached' = cached /\ active' = active /\ stats' = stats
    BY <2>1 DEF insert_events
  <2>. QED BY <2>1, <2>2, <2>3, <1>1, InsertEventsInv DEF IInv, TypeOK
<1>2. CASE block[u].stream_uses = {}
  <2>. DEFINE b == Marking(block[u], FALSE, block[u].stream_uses, block[u].event_count)
  <2>1. free_block(u, b) /\ musa_events' = musa_events
    BY <1>2 DEF free
  <2>2. block[u].event_count = 0 /\ \A s \in Streams : musa_events[s][u] = NoEvent
    BY AllocatedNoEvents
  <2>3. Freeable(u, b)
    BY <1>2, FreeReady
  <2>. HIDE DEF b
  <2>4. FreeShape(u, b)
    BY <2>1, <2>3, FreeBlockShape
  <2>5. \A s \in Streams, a \in Units :
          musa_events'[s][a] = IF a = u THEN NoEvent ELSE musa_events[s][a]
    BY <2>1, <2>2
  <2>6. BlockInv'
    BY <2>1, <2>3, <2>5, FreeBlockInv
  <2>7. musa_events' \in [Streams -> [Units -> Nat \cup {NoEvent}]]
    BY <2>1 DEF IInv, TypeOK
  <2>. QED BY <2>4, <2>6, <2>7 DEF FreeShape
<1>. QED BY <1>1, <1>2

\* A block whose last event is popped may be freed.
LEMMA PopReady ==
  ASSUME IInv, NEW s \in Streams, NEW u \in Units, musa_events[s][u] = 0,
         block[u].event_count - 1 = 0
  PROVE  /\ Freeable(u, Marking(block[u], block[u].allocated, block[u].stream_uses,
                                block[u].event_count - 1))
         /\ \A x \in Streams \ {s} : musa_events[x][u] = NoEvent
<1>. DEFINE b == Marking(block[u], block[u].allocated, block[u].stream_uses,
                         block[u].event_count - 1)
            W == {x \in Streams : musa_events[x][u] # NoEvent}
<1>1. s \in W /\ IsFiniteSet(W)
  BY StreamAssumption, FS_Subset DEF NoEvent
<1>2. /\ block[u].event_count = Cardinality(W) /\ u \in Blocks /\ ~block[u].allocated
      /\ block[u].stream_uses = {}
  BY <1>1 DEF IInv, EventCounts, UsesAllocated
<1>3. Cardinality(W) = 1 /\ u \notin cached
  <2>1. Cardinality(W) \in Nat
    BY <1>1, FS_CardinalityType
  <2>. QED BY <2>1, <1>2 DEF IInv, FlagsMatchPools, can_merge
<1>4. W \ {s} = {}
  <2>1. Cardinality(W \ {s}) = Cardinality(W) - 1 /\ IsFiniteSet(W \ {s})
    BY <1>1, FS_RemoveElement
  <2>. QED BY <2>1, <1>3, FS_EmptySet
<1>5. \A a \in Extent(u), x \in Streams : x # block[u].stream => pend[x][a] = 0
  <2>. SUFFICES ASSUME NEW a \in Extent(u), NEW x \in Streams, x # block[u].stream,
                       pend[x][a] # 0
                PROVE  FALSE
    OBVIOUS
  <2>1. pend[x][a] \in Nat
    BY <1>2, Types
  <2>2. musa_events[x][u] >= pend[x][a]
    BY <2>1, <1>2 DEF IInv, WorkTracked
  <2>3. x \in W
    BY <2>1, <2>2 DEF NoEvent
  <2>. QED BY <2>1, <2>2, <2>3, <1>4
<1>6. /\ b.size = block[u].size /\ b.prev = block[u].prev /\ b.next = block[u].next
      /\ b.stream = block[u].stream /\ b.is_small = block[u].is_small
      /\ ~b.allocated /\ b.stream_uses = {} /\ b.event_count = 0
  BY <1>2 DEF Marking
<1>7. b \in Block
  BY <1>2, Types DEF Marking, Block
<1>. HIDE DEF b
<1>8. Freeable(u, b)
  BY <1>2, <1>3, <1>5, <1>6, <1>7 DEF Freeable
<1>. QED BY <1>4, <1>8 DEF b

\* process_events and synchronize_and_free_events: a completed event is taken
\* off its queue.
LEMMA PopEventInv ==
  ASSUME IInv, NEW s \in Streams, NEW u \in Units, pop_event(s, u),
         pend' = pend, segment' = segment, InFlightSegments' = InFlightSegments
  PROVE  /\ BlockInv' /\ block' \in [Units -> Block]
         /\ cached' \subseteq Units /\ active' \subseteq Units
         /\ stats' \in [inactive_split : Int, inactive_split_bytes : Int]
         /\ musa_events' \in [Streams -> [Units -> Nat \cup {NoEvent}]]
<1>. DEFINE b == Marking(block[u], block[u].allocated, block[u].stream_uses,
                         block[u].event_count - 1)
            W == {x \in Streams : musa_events[x][u] # NoEvent}
<1>1. /\ musa_events[s][u] = 0
      /\ musa_events' = [musa_events EXCEPT ![s][u] = NoEvent]
      /\ \/ b.event_count = 0 /\ free_block(u, b)
         \/ /\ b.event_count # 0 /\ block' = [block EXCEPT ![u] = b]
            /\ UNCHANGED <<cached, active, stats>>
  BY DEF pop_event
<1>2. /\ block \in [Units -> Block] /\ block[u] \in Block
      /\ musa_events \in [Streams -> [Units -> Nat \cup {NoEvent}]]
      /\ pend \in [Streams -> [Units -> Nat]]
  BY DEF IInv, TypeOK
<1>3. /\ s \in W /\ IsFiniteSet(W)
      /\ Cardinality(W) \in Nat
      /\ Cardinality(W \ {s}) = Cardinality(W) - 1 /\ IsFiniteSet(W \ {s})
  <2>1. s \in W
    BY <1>1 DEF NoEvent
  <2>2. IsFiniteSet(W)
    BY StreamAssumption, FS_Subset
  <2>. QED BY <2>1, <2>2, FS_CardinalityType, FS_RemoveElement
<1>4. block[u].event_count = Cardinality(W) /\ u \in Blocks /\ ~block[u].allocated
  BY <1>3 DEF IInv, EventCounts
<1>5. block[u].stream_uses = {} /\ u \notin cached
  <2>1. block[u].stream_uses = {}
    BY <1>4 DEF IInv, UsesAllocated
  <2>2. block[u].event_count # 0
    BY <1>3, <1>4, FS_EmptySet
  <2>. QED BY <2>1, <2>2, <1>4 DEF IInv, FlagsMatchPools, can_merge
<1>6. /\ b.size = block[u].size /\ b.prev = block[u].prev /\ b.next = block[u].next
      /\ b.stream = block[u].stream /\ b.is_small = block[u].is_small
      /\ ~b.allocated /\ b.stream_uses = {} /\ b.event_count = Cardinality(W) - 1
      /\ b \in Block
  <2>1. /\ b.size = block[u].size /\ b.prev = block[u].prev /\ b.next = block[u].next
        /\ b.stream = block[u].stream /\ b.is_small = block[u].is_small
        /\ ~b.allocated /\ b.stream_uses = {} /\ b.event_count = Cardinality(W) - 1
    BY <1>4, <1>5 DEF Marking
  <2>2. b \in Block
    BY <1>2, <1>3, <1>4 DEF Marking, Block
  <2>. QED BY <2>1, <2>2
<1>. HIDE DEF b
<1>7. musa_events' \in [Streams -> [Units -> Nat \cup {NoEvent}]]
  BY <1>1, <1>2
<1>8. /\ musa_events'[s][u] = NoEvent
      /\ \A x \in Streams, a \in Units : x # s \/ a # u => musa_events'[x][a] = musa_events[x][a]
  BY <1>1, <1>2
<1>9. ASSUME NEW a \in Extent(u), NEW x \in Streams, x # block[u].stream, pend[x][a] > 0
      PROVE  x # s /\ musa_events[x][u] >= pend[x][a] /\ musa_events[x][u] # NoEvent
  <2>1. a \in Units /\ pend[x][a] \in Nat
    BY <1>4, Types
  <2>2. musa_events[x][u] >= pend[x][a]
    BY <1>4, <1>5, <1>9 DEF IInv, WorkTracked
  <2>. QED BY <2>1, <2>2, <1>1, <1>9 DEF NoEvent
<1>10. CASE b.event_count = 0
  <2>1. free_block(u, b)
    BY <1>1, <1>10
  <2>2. musa_events[s][u] = 0 /\ block[u].event_count - 1 = 0
    BY <1>1, <1>6, <1>10, <1>4
  <2>3. Freeable(u, b) /\ \A x \in Streams \ {s} : musa_events[x][u] = NoEvent
    BY <2>2, PopReady DEF b
  <2>6. FreeShape(u, b)
    BY <2>1, <2>3, FreeBlockShape
  <2>7. \A x \in Streams, a \in Units :
          musa_events'[x][a] = IF a = u THEN NoEvent ELSE musa_events[x][a]
    BY <2>3, <1>8
  <2>8. BlockInv'
    BY <2>1, <2>3, <2>7, FreeBlockInv
  <2>. QED BY <2>6, <2>8, <1>7 DEF FreeShape
<1>11. CASE b.event_count # 0
  <2>1. block' = [block EXCEPT ![u] = b] /\ cached' = cached /\ active' = active /\ stats' = stats
    BY <1>1, <1>11
  <2>2. block'[u] = b /\ \A a \in Units \ {u} : block'[a] = block[a]
    BY <2>1, <1>2
  <2>3. block' \in [Units -> Block]
    BY <2>1, <1>2, <1>6
  <2>4. GeometryKept
    BY <2>2, <1>4, <1>6 DEF GeometryKept
  <2>5. Settled' = Settled
    BY DEF Settled
  <2>6. /\ Blocks' = Blocks /\ \A v \in Blocks : Extent(v)' = Extent(v)
        /\ WellFormed' /\ Linked' /\ Disjoint' /\ SegmentsSplit' /\ SplitSizes'
    BY <2>4, <2>5, GeometryInv
  <2>7. \A v \in Blocks : v \in Units
    BY DEF Blocks
  <2>8. FlagsMatchPools'
    <3>1. cached \subseteq Blocks /\ active = Blocks \ cached
          /\ \A a \in Blocks : a \in cached <=> can_merge(a)
      BY DEF IInv, FlagsMatchPools
    <3>2. ~can_merge(u)'
      BY <2>2, <1>11 DEF can_merge
    <3>3. \A a \in Blocks \ {u} : can_merge(a)' <=> can_merge(a)
      BY <2>2, <2>7 DEF can_merge
    <3>4. \A a \in Blocks' : a \in cached' <=> can_merge(a)'
      BY <3>1, <3>2, <3>3, <2>1, <2>6, <1>5
    <3>. QED BY <3>1, <3>4, <2>1, <2>6 DEF FlagsMatchPools
  <2>9. UsesAllocated'
    BY <2>2, <2>6, <2>7, <1>6 DEF IInv, UsesAllocated
  <2>10. EventCounts'
    <3>. SUFFICES ASSUME NEW a \in Units
                  PROVE  LET V == {x \in Streams : musa_events'[x][a] # NoEvent}
                         IN /\ block'[a].event_count = Cardinality(V)
                            /\ V # {} => a \in Blocks' /\ ~block'[a].allocated
      BY DEF EventCounts
    <3>1. CASE a = u
      <4>1. {x \in Streams : musa_events'[x][a] # NoEvent} = W \ {s}
        BY <3>1, <1>8
      <4>. QED BY <4>1, <3>1, <2>2, <2>6, <1>3, <1>4, <1>6
    <3>2. CASE a # u
      <4>1. {x \in Streams : musa_events'[x][a] # NoEvent}
              = {x \in Streams : musa_events[x][a] # NoEvent}
        BY <3>2, <1>8
      <4>. QED BY <4>1, <3>2, <2>2, <2>6 DEF IInv, EventCounts
    <3>. QED BY <3>1, <3>2
  <2>11. Coalesced'
    <3>1. \A c \in cached : block'[c].next = block[c].next
      BY <2>4, Types DEF GeometryKept
    <3>. QED BY <3>1, <2>1 DEF IInv, Coalesced
  <2>12. WorkTracked'
    <3>. SUFFICES ASSUME NEW v \in Blocks, NEW a \in Extent(v), NEW x \in Streams,
                         x # block[v].stream, pend[x][a] > 0
                  PROVE  x \in block'[v].stream_uses \/ musa_events'[x][v] >= pend[x][a]
      BY <2>4, <2>6, <2>7 DEF WorkTracked, GeometryKept
    <3>1. CASE v = u
      BY <3>1, <1>8, <1>9
    <3>2. CASE v # u
      BY <3>2, <2>2, <2>7, <1>8 DEF IInv, WorkTracked
    <3>. QED BY <3>1, <3>2
  <2>13. UncoveredIdle'
    BY <2>6 DEF IInv, UncoveredIdle
  <2>14. cached' \subseteq Units /\ active' \subseteq Units
         /\ stats' \in [inactive_split : Int, inactive_split_bytes : Int]
    BY <2>1 DEF IInv, TypeOK
  <2>. QED BY <2>3, <2>6, <2>8, <2>9, <2>10, <2>11, <2>12, <2>13, <2>14, <1>7 DEF BlockInv
<1>. QED BY <1>10, <1>11

(***************************************************************************)
(* Threads.                                                                *)
(***************************************************************************)
Places == {"idle", "process_events", "callbacks", "garbage_collect", "alloc_block",
           "musaMalloc", "after_musaMalloc", "release_available", "synchronize"}
Calls == [size : Requests \cup {0}, stream : Streams \cup {NULL}, try : 0..2,
          ptr : 0..NumUnits]

\* Thread t goes to place l with call c and carries no segment.
LEMMA ThreadMove ==
  ASSUME IInv, NEW t \in Threads, NEW l \in Places, NEW c \in Calls, c.ptr = 0,
         l \notin {"idle", "synchronize"} => c.size \in Requests /\ c.stream \in Streams,
         c.size # 0 => c.stream \in Streams,
         pc' = [pc EXCEPT ![t] = l], call' = [call EXCEPT ![t] = c],
         \A x \in Threads \ {t} :
           call[x].ptr # 0 => segment'[call[x].ptr] = segment[call[x].ptr]
  PROVE  /\ pc' \in [Threads -> Places] /\ call' \in [Threads -> Calls] /\ CallOK'
         /\ InFlightSegments' = InFlightSegments \ {call[t].ptr}
<1>1. pc \in [Threads -> Places] /\ call \in [Threads -> Calls]
  BY DEF IInv, TypeOK, Places, Calls
<1>2. pc' \in [Threads -> Places] /\ call' \in [Threads -> Calls]
  BY <1>1
<1>3. /\ pc'[t] = l /\ call'[t] = c
      /\ \A x \in Threads \ {t} : pc'[x] = pc[x] /\ call'[x] = call[x]
  BY <1>1
<1>4. CallOK'
  <2>1. ASSUME NEW x \in Threads
        PROVE  /\ pc'[x] \notin {"idle", "synchronize"} =>
                    call'[x].size \in Requests /\ call'[x].stream \in Streams
               /\ call'[x].size # 0 => call'[x].stream \in Streams
               /\ call'[x].ptr # 0 =>
                    /\ pc'[x] = "after_musaMalloc"
                    /\ segment'[call'[x].ptr] = get_allocation_size(call'[x].size)
    <3>1. CASE x = t
      BY <3>1, <1>3
    <3>2. CASE x # t
      BY <3>2, <1>3 DEF IInv, CallOK
    <3>. QED BY <3>1, <3>2
  <2>2. ASSUME NEW x \in Threads, NEW y \in Threads, x # y, call'[x].ptr # 0
        PROVE  call'[x].ptr # call'[y].ptr
    BY <2>2, <1>3 DEF IInv, CallOK
  <2>. QED BY <2>1, <2>2 DEF CallOK
<1>5. InFlightSegments' = InFlightSegments \ {call[t].ptr}
  <2>1. \A x \in Threads : InFlight(x) <=> call[x].ptr # 0
    BY DEF IInv, CallOK, InFlight
  <2>2. \A x \in Threads : InFlight(x)' <=> call'[x].ptr # 0
    BY <1>4 DEF CallOK, InFlight
  <2>3. InFlightSegments = {call[x].ptr : x \in {y \in Threads : call[y].ptr # 0}}
    BY <2>1 DEF InFlightSegments
  <2>4. InFlightSegments' = {call'[x].ptr : x \in {y \in Threads : call'[y].ptr # 0}}
    BY <2>2 DEF InFlightSegments
  <2>5. \A x \in Threads \ {t} : call[x].ptr # 0 => call[x].ptr # call[t].ptr
    BY DEF IInv, CallOK
  <2>. QED BY <2>3, <2>4, <2>5, <1>3
<1>. QED BY <1>2, <1>4, <1>5

\* 0 is not a segment.
LEMMA NoZeroSegment == ASSUME IInv PROVE InFlightSegments \ {0} = InFlightSegments
  BY DEF InFlightSegments, InFlight

\* A thread goes elsewhere with the same call.
LEMMA ThreadGoto ==
  ASSUME IInv, NEW t \in Threads, NEW l \in Places, call[t].ptr = 0,
         pc[t] \notin {"idle", "synchronize"} \/ l = "synchronize",
         pc' = [pc EXCEPT ![t] = l], call' = call,
         \A x \in Threads \ {t} :
           call[x].ptr # 0 => segment'[call[x].ptr] = segment[call[x].ptr]
  PROVE  /\ pc' \in [Threads -> Places] /\ call' \in [Threads -> Calls] /\ CallOK'
         /\ InFlightSegments' = InFlightSegments
<1>1. call \in [Threads -> Calls]
  BY DEF IInv, TypeOK, Calls
<1>2. call' = [call EXCEPT ![t] = call[t]] /\ call[t] \in Calls
  BY <1>1
<1>3. /\ call[t].ptr = 0
      /\ call[t].size # 0 => call[t].stream \in Streams
      /\ l \notin {"idle", "synchronize"} => call[t].size \in Requests /\ call[t].stream \in Streams
  BY DEF IInv, CallOK
<1>4. /\ pc' \in [Threads -> Places] /\ call' \in [Threads -> Calls] /\ CallOK'
      /\ InFlightSegments' = InFlightSegments \ {call[t].ptr}
  BY <1>2, <1>3, ThreadMove
<1>. QED BY <1>3, <1>4, NoZeroSegment

\* The call of thread t ends.
LEMMA ThreadReturn ==
  ASSUME IInv, NEW t \in Threads, Return(t),
         \A x \in Threads \ {t} :
           call[x].ptr # 0 => segment'[call[x].ptr] = segment[call[x].ptr]
  PROVE  /\ pc' \in [Threads -> Places] /\ call' \in [Threads -> Calls] /\ CallOK'
         /\ lock' \in Threads \cup {NULL} /\ todo' \subseteq Streams
         /\ InFlightSegments' = InFlightSegments \ {call[t].ptr}
<1>1. NoCall \in Calls /\ NoCall.ptr = 0 /\ NoCall.size = 0
  BY SizeAssumption DEF NoCall, Calls
<1>2. "idle" \in Places
  BY DEF Places
<1>3. /\ pc' = [pc EXCEPT ![t] = "idle"] /\ call' = [call EXCEPT ![t] = NoCall]
      /\ lock' = NULL /\ todo' = todo
  BY DEF Return
<1>4. /\ pc' \in [Threads -> Places] /\ call' \in [Threads -> Calls] /\ CallOK'
      /\ InFlightSegments' = InFlightSegments \ {call[t].ptr}
  BY <1>1, <1>2, <1>3, ThreadMove
<1>. QED BY <1>3, <1>4 DEF IInv, TypeOK

\* The call of thread t goes on with another try.
LEMMA ThreadTry ==
  ASSUME IInv, NEW t \in Threads, NEW k \in 0..2, NEW l \in Places, pc[t] # "after_musaMalloc",
         call' = [call EXCEPT ![t].try = k], pc' = [pc EXCEPT ![t] = l],
         call[t].size # 0,
         \A x \in Threads \ {t} :
           call[x].ptr # 0 => segment'[call[x].ptr] = segment[call[x].ptr]
  PROVE  /\ pc' \in [Threads -> Places] /\ call' \in [Threads -> Calls] /\ CallOK'
         /\ InFlightSegments' = InFlightSegments
<1>1. call \in [Threads -> Calls] /\ call[t] \in Calls
  BY DEF IInv, TypeOK, Calls
<1>. DEFINE c == [size |-> call[t].size, stream |-> call[t].stream, try |-> k,
                  ptr |-> call[t].ptr]
<1>2. [call[t] EXCEPT !.try = k] = c
  BY <1>1 DEF Calls
<1>3. call' = [call EXCEPT ![t] = c]
  BY <1>1, <1>2
<1>4. /\ c \in Calls /\ c.ptr = call[t].ptr /\ c.size = call[t].size
      /\ c.stream = call[t].stream
  BY <1>1 DEF Calls
<1>. HIDE DEF c
<1>5. /\ call[t].ptr = 0 /\ call[t].size \in Requests /\ call[t].stream \in Streams
  BY <1>1 DEF IInv, CallOK, Calls
<1>6. /\ pc' \in [Threads -> Places] /\ call' \in [Threads -> Calls] /\ CallOK'
      /\ InFlightSegments' = InFlightSegments \ {call[t].ptr}
  BY <1>3, <1>4, <1>5, ThreadMove
<1>. QED BY <1>5, <1>6, NoZeroSegment

(***************************************************************************)
(* The invariant, part by part.                                            *)
(***************************************************************************)
DataTypes ==
  /\ block \in [Units -> Block] /\ cached \subseteq Units /\ active \subseteq Units
  /\ musa_events \in [Streams -> [Units -> Nat \cup {NoEvent}]]
  /\ stats \in [inactive_split : Int, inactive_split_bytes : Int]
  /\ segment \in [Units -> Nat]
  /\ pend \in [Streams -> [Units -> Nat]] /\ depth \in [Streams -> Nat]

ThreadTypes ==
  /\ lock \in Threads \cup {NULL} /\ pc \in [Threads -> Places]
  /\ call \in [Threads -> Calls] /\ todo \subseteq Streams

\* The invariant as the parts that the steps below re-establish one by one.
LEMMA Parts ==
  IInv <=> DataTypes /\ ThreadTypes /\ CallOK /\ BlockInv /\ SegmentsDisjoint /\ PendBound
BY DEF IInv, TypeOK, DataTypes, ThreadTypes, BlockInv, Places, Calls

\* The same parts, after a step.
LEMMA PartsPrimed ==
  ASSUME DataTypes', ThreadTypes', CallOK', BlockInv', SegmentsDisjoint', PendBound'
  PROVE  IInv'
BY DEF IInv, TypeOK, DataTypes, ThreadTypes, BlockInv, Places, Calls

\* Nothing happens to the blocks.
LEMMA BlocksKept ==
  ASSUME IInv, block' = block, cached' = cached, active' = active, musa_events' = musa_events,
         pend' = pend, Settled' = Settled, \A p \in Settled : segment'[p] = segment[p]
  PROVE  BlockInv'
<1>1. GeometryKept
  BY DEF GeometryKept
<1>2. /\ Blocks' = Blocks /\ \A v \in Blocks : Extent(v)' = Extent(v)
      /\ WellFormed' /\ Linked' /\ Disjoint' /\ SegmentsSplit' /\ SplitSizes'
  BY <1>1, GeometryInv
<1>3. FlagsMatchPools'
  BY <1>2 DEF IInv, FlagsMatchPools, can_merge
<1>4. UsesAllocated'
  BY <1>2 DEF IInv, UsesAllocated
<1>5. EventCounts'
  BY <1>2 DEF IInv, EventCounts
<1>6. Coalesced'
  BY <1>2 DEF IInv, Coalesced
<1>7. WorkTracked' /\ UncoveredIdle'
  BY <1>2 DEF IInv, WorkTracked, UncoveredIdle
<1>. QED BY <1>2, <1>3, <1>4, <1>5, <1>6, <1>7 DEF BlockInv

\* Only the threads move, and no segment is settled.
LEMMA ThreadsOnly ==
  ASSUME IInv, UNCHANGED <<block, cached, active, stats, musa_events, segment, pend, depth>>,
         InFlightSegments' = InFlightSegments, ThreadTypes', CallOK'
  PROVE  IInv'
<1>1. Settled' = Settled
  BY DEF Settled
<1>2. BlockInv'
  BY <1>1, BlocksKept
<1>3. DataTypes' /\ SegmentsDisjoint' /\ PendBound'
  BY DEF IInv, TypeOK, DataTypes, SegmentsDisjoint, PendBound
<1>. QED BY <1>2, <1>3, PartsPrimed

\* Only the blocks and their events change.
LEMMA BlocksOnly ==
  ASSUME IInv, BlockInv', block' \in [Units -> Block],
         cached' \subseteq Units, active' \subseteq Units,
         stats' \in [inactive_split : Int, inactive_split_bytes : Int],
         musa_events' \in [Streams -> [Units -> Nat \cup {NoEvent}]],
         UNCHANGED <<segment, pend, depth>>, ThreadTypes', CallOK'
  PROVE  IInv'
<1>1. DataTypes' /\ SegmentsDisjoint' /\ PendBound'
  BY DEF IInv, TypeOK, DataTypes, SegmentsDisjoint, PendBound
<1>. QED BY <1>1, PartsPrimed

\* A step inside the critical section that moves no thread.
LEMMA ThreadsKept ==
  ASSUME IInv, UNCHANGED <<lock, pc, call>>, todo' \subseteq Streams, segment' = segment
  PROVE  ThreadTypes' /\ CallOK' /\ InFlightSegments' = InFlightSegments
<1>1. ThreadTypes'
  BY DEF IInv, TypeOK, ThreadTypes, Places, Calls
<1>2. CallOK'
  BY DEF IInv, CallOK
<1>3. InFlightSegments' = InFlightSegments
  BY DEF InFlightSegments, InFlight
<1>. QED BY <1>1, <1>2, <1>3

\* Outside after_musaMalloc a thread carries no segment.
LEMMA NoPtr ==
  ASSUME IInv, NEW t \in Threads, pc[t] # "after_musaMalloc"
  PROVE  call[t].ptr = 0
BY DEF IInv, CallOK

(***************************************************************************)
(* Every action keeps the invariant.                                       *)
(***************************************************************************)
LEMMA FreeStep ==
  ASSUME IInv, NEW t \in Threads, NEW u \in Units, Free(t, u) \/ FreeMemoryCallback(t, u)
  PROVE  IInv'
<1>1. /\ u \in Blocks /\ block[u].allocated /\ free(u)
      /\ UNCHANGED <<segment, pend, depth, lock, pc, call, todo>>
  BY DEF Free, FreeMemoryCallback, driverVars, gpuVars, threadVars
<1>2. ThreadTypes' /\ CallOK' /\ InFlightSegments' = InFlightSegments
  BY <1>1, ThreadsKept DEF IInv, TypeOK
<1>3. /\ BlockInv' /\ block' \in [Units -> Block]
      /\ cached' \subseteq Units /\ active' \subseteq Units
      /\ stats' \in [inactive_split : Int, inactive_split_bytes : Int]
      /\ musa_events' \in [Streams -> [Units -> Nat \cup {NoEvent}]]
  BY <1>1, <1>2, FreeInv
<1>. QED BY <1>1, <1>2, <1>3, BlocksOnly

\* Taking a completed event out of musa_events keeps the invariant.
LEMMA PopStep ==
  ASSUME IInv, NEW s \in Streams, NEW u \in Units, pop_event(s, u),
         UNCHANGED <<segment, pend, depth, lock, pc, call, todo>>
  PROVE  IInv'
<1>1. ThreadTypes' /\ CallOK' /\ InFlightSegments' = InFlightSegments
  BY ThreadsKept DEF IInv, TypeOK
<1>2. /\ BlockInv' /\ block' \in [Units -> Block]
      /\ cached' \subseteq Units /\ active' \subseteq Units
      /\ stats' \in [inactive_split : Int, inactive_split_bytes : Int]
      /\ musa_events' \in [Streams -> [Units -> Nat \cup {NoEvent}]]
  BY <1>1, PopEventInv
<1>. QED BY <1>1, <1>2, BlocksOnly

\* One turn of process_events.
LEMMA ProcessEventsStep ==
  ASSUME IInv, NEW t \in Threads, NEW s \in Streams, ProcessEvents(t, s)
  PROVE  IInv'
<1>1. UNCHANGED <<segment, pend, depth, lock, pc, call>>
  BY DEF ProcessEvents, driverVars, gpuVars
<1>2. CASE (\E u \in Units : pop_event(s, u)) /\ todo' = todo
  BY <1>1, <1>2, PopStep
<1>3. CASE todo' = todo \ {s} /\ UNCHANGED <<blockVars, musa_events>>
  <2>1. ThreadTypes' /\ CallOK' /\ InFlightSegments' = InFlightSegments
    BY <1>1, <1>3, ThreadsKept DEF IInv, TypeOK
  <2>. QED BY <2>1, <1>1, <1>3, ThreadsOnly DEF blockVars
<1>. QED BY <1>2, <1>3 DEF ProcessEvents

\* One turn of synchronize_and_free_events.
LEMMA SynchronizeEventStep ==
  ASSUME IInv, NEW t \in Threads, NEW s \in Streams, NEW u \in Units, SynchronizeEvent(t, s, u)
  PROVE  IInv'
BY PopStep DEF SynchronizeEvent, driverVars, gpuVars, threadVars

\* recordStream.
LEMMA RecordStreamStep ==
  ASSUME IInv, NEW t \in Threads, NEW u \in Units, NEW s \in Streams, RecordStream(t, u, s)
  PROVE  IInv'
<1>. DEFINE m == Marking(block[u], TRUE, block[u].stream_uses \cup {s}, block[u].event_count)
<1>1. /\ u \in Blocks /\ block[u].allocated /\ block' = [block EXCEPT ![u] = m]
      /\ UNCHANGED <<cached, active, stats, musa_events, segment, pend, depth>>
      /\ UNCHANGED <<lock, pc, call, todo>>
  BY DEF RecordStream, driverVars, gpuVars, threadVars
<1>2. /\ block \in [Units -> Block] /\ block[u] \in Block /\ cached \subseteq Units
      /\ \A v \in Blocks : v \in Units
  BY Types DEF Blocks
<1>3. /\ m.size = block[u].size /\ m.prev = block[u].prev /\ m.next = block[u].next
      /\ m.stream = block[u].stream /\ m.is_small = block[u].is_small
      /\ m.allocated /\ m.stream_uses = block[u].stream_uses \cup {s}
      /\ m.event_count = block[u].event_count
  BY DEF Marking
<1>4. m \in Block
  BY <1>2 DEF Marking, Block
<1>. HIDE DEF m
<1>5. block'[u] = m /\ (\A a \in Units \ {u} : block'[a] = block[a]) /\ block' \in [Units -> Block]
  BY <1>1, <1>2, <1>4
<1>6. GeometryKept
  BY <1>1, <1>3, <1>5 DEF GeometryKept
<1>7. ThreadTypes' /\ CallOK' /\ InFlightSegments' = InFlightSegments
  BY <1>1, ThreadsKept DEF IInv, TypeOK
<1>8. Settled' = Settled
  BY <1>1, <1>7 DEF Settled
<1>9. /\ Blocks' = Blocks /\ \A v \in Blocks : Extent(v)' = Extent(v)
      /\ WellFormed' /\ Linked' /\ Disjoint' /\ SegmentsSplit' /\ SplitSizes'
  BY <1>1, <1>6, <1>8, GeometryInv
<1>10. FlagsMatchPools'
  <2>1. cached \subseteq Blocks /\ active = Blocks \ cached
        /\ \A a \in Blocks : a \in cached <=> can_merge(a)
    BY DEF IInv, FlagsMatchPools
  <2>2. ~can_merge(u) /\ ~can_merge(u)'
    BY <1>1, <1>3, <1>5 DEF can_merge
  <2>3. \A a \in Blocks \ {u} : can_merge(a)' <=> can_merge(a)
    BY <1>2, <1>5 DEF can_merge
  <2>4. \A a \in Blocks' : a \in cached' <=> can_merge(a)'
    BY <2>1, <2>2, <2>3, <1>1, <1>9
  <2>. QED BY <2>1, <2>4, <1>1, <1>9 DEF FlagsMatchPools
<1>11. UsesAllocated'
  BY <1>2, <1>3, <1>5, <1>9 DEF IInv, UsesAllocated
<1>12. EventCounts'
  <2>. SUFFICES ASSUME NEW a \in Units
                PROVE  LET W == {x \in Streams : musa_events[x][a] # NoEvent}
                       IN /\ block'[a].event_count = Cardinality(W)
                          /\ W # {} => a \in Blocks' /\ ~block'[a].allocated
    BY <1>1 DEF EventCounts
  <2>1. CASE a = u
    BY <2>1, <1>1, <1>3, <1>5 DEF IInv, EventCounts
  <2>2. CASE a # u
    BY <2>2, <1>5, <1>9 DEF IInv, EventCounts
  <2>. QED BY <2>1, <2>2
<1>13. Coalesced'
  <2>1. \A c \in cached : block'[c].next = block[c].next
    BY <1>2, <1>6 DEF GeometryKept
  <2>2. cached' = cached
    BY <1>1
  <2>. QED BY <2>1, <2>2 DEF IInv, Coalesced
<1>14. WorkTracked'
  <2>. SUFFICES ASSUME NEW v \in Blocks, NEW a \in Extent(v), NEW x \in Streams,
                       x # block[v].stream, pend[x][a] > 0
                PROVE  x \in block'[v].stream_uses \/ musa_events[x][v] >= pend[x][a]
    BY <1>1, <1>2, <1>6, <1>9 DEF WorkTracked, GeometryKept
  <2>1. x \in block[v].stream_uses \/ musa_events[x][v] >= pend[x][a]
    BY DEF IInv, WorkTracked
  <2>. QED BY <2>1, <1>2, <1>3, <1>5
<1>15. UncoveredIdle'
  BY <1>1, <1>9 DEF IInv, UncoveredIdle
<1>16. BlockInv'
  BY <1>9, <1>10, <1>11, <1>12, <1>13, <1>14, <1>15 DEF BlockInv
<1>. QED BY <1>1, <1>5, <1>7, <1>16, BlocksOnly DEF IInv, TypeOK

\* alloc_found_block on a block that may be allocated.
LEMMA AllocInv ==
  ASSUME IInv, NEW u, NEW STATE b, NEW n, NEW p, NEW S,
         Allocatable(u, b, n, p, S), InSegment(u, b, n, p, S), alloc_found_block(u, b, n),
         pend' = pend, segment' = segment, musa_events' = musa_events, Settled' = S
  PROVE  /\ BlockInv' /\ block' \in [Units -> Block]
         /\ cached' \subseteq Units /\ active' \subseteq Units
         /\ stats' \in [inactive_split : Int, inactive_split_bytes : Int]
<1>1. BlockInv' /\ block' \in [Units -> Block] /\ cached' \subseteq Units
      /\ active' \subseteq Units
  <2>1. CASE should_split(b, n)
    BY <2>1, AllocSplit
  <2>2. CASE ~should_split(b, n)
    BY <2>2, AllocWhole
  <2>. QED BY <2>1, <2>2
<1>2. stats' \in [inactive_split : Int, inactive_split_bytes : Int]
  <2>1. stats.inactive_split \in Int /\ stats.inactive_split_bytes \in Int
    BY DEF IInv, TypeOK
  <2>2. b.size \in Int /\ n \in Int
    BY SizeAssumption DEF Allocatable, Block
  <2>. QED BY <2>1, <2>2 DEF alloc_found_block
<1>. QED BY <1>1, <1>2

\* The beginning of malloc.
LEMMA MallocStep ==
  ASSUME IInv, NEW t \in Threads, NEW s \in Streams, NEW n \in Requests, Malloc(t, s, n)
  PROVE  IInv'
<1>. DEFINE c == [size |-> n, stream |-> s, try |-> 0, ptr |-> 0]
<1>1. /\ pc[t] = "idle" /\ lock' = t /\ pc' = [pc EXCEPT ![t] = "process_events"]
      /\ call' = [call EXCEPT ![t] = c] /\ todo' = Streams
      /\ UNCHANGED <<block, cached, active, stats, musa_events, segment, pend, depth>>
  BY DEF Malloc, blockVars, driverVars, gpuVars
<1>2. c \in Calls /\ c.ptr = 0 /\ c.size = n /\ c.stream = s
  BY SizeAssumption DEF Calls
<1>. HIDE DEF c
<1>3. "process_events" \in Places
  BY DEF Places
<1>4. /\ pc' \in [Threads -> Places] /\ call' \in [Threads -> Calls] /\ CallOK'
      /\ InFlightSegments' = InFlightSegments \ {call[t].ptr}
  BY <1>1, <1>2, <1>3, ThreadMove
<1>5. InFlightSegments' = InFlightSegments
  BY <1>1, <1>4, NoPtr, NoZeroSegment
<1>6. ThreadTypes'
  BY <1>1, <1>4 DEF ThreadTypes
<1>. QED BY <1>1, <1>4, <1>5, <1>6, ThreadsOnly

\* The beginning of emptyCache.
LEMMA EmptyCacheStep ==
  ASSUME IInv, NEW t \in Threads, EmptyCache(t)
  PROVE  IInv'
<1>1. /\ pc[t] = "idle" /\ lock' = t /\ pc' = [pc EXCEPT ![t] = "synchronize"]
      /\ call' = call /\ todo' = todo
      /\ UNCHANGED <<block, cached, active, stats, musa_events, segment, pend, depth>>
  BY DEF EmptyCache, blockVars, driverVars, gpuVars
<1>2. "synchronize" \in Places /\ call[t].ptr = 0
  BY <1>1, NoPtr DEF Places
<1>3. /\ pc' \in [Threads -> Places] /\ call' \in [Threads -> Calls] /\ CallOK'
      /\ InFlightSegments' = InFlightSegments
  BY <1>1, <1>2, ThreadGoto
<1>4. ThreadTypes'
  BY <1>1, <1>3 DEF ThreadTypes, IInv, TypeOK
<1>. QED BY <1>1, <1>3, <1>4, ThreadsOnly

\* get_free_block before and after the callbacks, with alloc_found_block.
LEMMA SearchStep ==
  ASSUME IInv, NEW t \in Threads, NEW where, NEW next \in Places,
         where \in {"process_events", "callbacks"}, Search(t, where, next)
  PROVE  IInv'
<1>1. /\ pc[t] = where /\ UNCHANGED <<musa_events, segment, pend, depth>>
  BY DEF Search, Locked, driverVars, gpuVars
<1>2. call[t].ptr = 0 /\ call[t].size \in Requests /\ call[t].stream \in Streams
  BY <1>1 DEF IInv, CallOK
<1>3. call[t].size \in Nat /\ call[t].size > 0
  <2>1. \A n \in Requests : n \in Nat /\ n > 0
    BY SizeAssumption
  <2>. QED BY <2>1, <1>2
<1>4. CASE \E u \in cached : /\ get_free_block(call[t].stream, call[t].size, u)
                             /\ alloc_found_block(u, block[u], call[t].size)
                             /\ Return(t)
  <2>1. PICK u \in cached : /\ get_free_block(call[t].stream, call[t].size, u)
                            /\ alloc_found_block(u, block[u], call[t].size)
                            /\ Return(t)
    BY <1>4
  <2>2. /\ pc' \in [Threads -> Places] /\ call' \in [Threads -> Calls] /\ CallOK'
        /\ lock' \in Threads \cup {NULL} /\ todo' \subseteq Streams
        /\ InFlightSegments' = InFlightSegments \ {call[t].ptr}
    BY <2>1, <1>1, ThreadReturn
  <2>3. InFlightSegments' = InFlightSegments
    BY <2>2, <1>2, NoZeroSegment
  <2>4. Settled' = Settled
    BY <2>3, <1>1 DEF Settled
  <2>5. PICK n : n = call[t].size
    OBVIOUS
  <2>6. PICK s : s = call[t].stream
    OBVIOUS
  <2>7. PICK S : S = Settled
    OBVIOUS
  <2>8. PICK p \in Settled : /\ Allocatable(u, block[u], n, p, Settled)
                             /\ InSegment(u, block[u], n, p, Settled)
    BY <2>1, <2>5, <2>6, <1>2, <1>3, FromPool
  <2>9. /\ BlockInv' /\ block' \in [Units -> Block]
        /\ cached' \subseteq Units /\ active' \subseteq Units
        /\ stats' \in [inactive_split : Int, inactive_split_bytes : Int]
    <3>1. Allocatable(u, block[u], n, p, S) /\ InSegment(u, block[u], n, p, S) /\ Settled' = S
          /\ alloc_found_block(u, block[u], n)
      BY <2>1, <2>4, <2>5, <2>7, <2>8
    <3>. QED BY <3>1, <1>1, AllocInv
  <2>10. ThreadTypes'
    BY <2>2 DEF ThreadTypes
  <2>11. musa_events' \in [Streams -> [Units -> Nat \cup {NoEvent}]]
    BY <1>1 DEF IInv, TypeOK
  <2>. QED BY <2>2, <2>9, <2>10, <2>11, <1>1, BlocksOnly
<1>5. CASE Goto(t, next) /\ UNCHANGED blockVars
  <2>1. pc' = [pc EXCEPT ![t] = next] /\ lock' = lock /\ call' = call /\ todo' = todo
    BY <1>5 DEF Goto
  <2>2. /\ pc' \in [Threads -> Places] /\ call' \in [Threads -> Calls] /\ CallOK'
        /\ InFlightSegments' = InFlightSegments
    BY <2>1, <1>1, <1>2, ThreadGoto
  <2>3. ThreadTypes'
    BY <2>1, <2>2 DEF ThreadTypes, IInv, TypeOK
  <2>. QED BY <2>2, <2>3, <1>1, <1>5, ThreadsOnly DEF blockVars
<1>. QED BY <1>4, <1>5 DEF Search

\* Blocks that are whole segments are released, and the thread goes on.
LEMMA ReleaseStep ==
  ASSUME IInv, NEW R, R \subseteq cached, \A u \in R : ~is_split(block[u]),
         release_blocks(R), UNCHANGED <<musa_events, pend, depth>>,
         ThreadTypes', CallOK', InFlightSegments' = InFlightSegments
  PROVE  IInv'
<1>1. /\ BlockInv' /\ SegmentsDisjoint'
      /\ block' \in [Units -> Block] /\ cached' \subseteq Units
      /\ segment' \in [Units -> Nat]
  BY ReleaseInv
<1>2. active' = active /\ stats' = stats
  BY DEF release_blocks
<1>3. DataTypes' /\ PendBound'
  BY <1>1, <1>2 DEF IInv, TypeOK, DataTypes, PendBound
<1>. QED BY <1>1, <1>3, PartsPrimed

\* A released block is no segment that a thread carries.
LEMMA ReleaseKeepsCalls ==
  ASSUME IInv, NEW R, R \subseteq cached, \A u \in R : ~is_split(block[u]), release_blocks(R)
  PROVE  \A x \in Threads : call[x].ptr # 0 => segment'[call[x].ptr] = segment[call[x].ptr]
<1>. SUFFICES ASSUME NEW x \in Threads, call[x].ptr # 0
              PROVE  segment'[call[x].ptr] = segment[call[x].ptr]
  OBVIOUS
<1>1. call[x].ptr \in InFlightSegments /\ call[x].ptr \in Units
  BY SizeAssumption DEF IInv, TypeOK, CallOK, InFlightSegments, InFlight, Units
<1>2. \A u \in R : u \in Settled
  BY CachedQuiet, WholeSegment DEF is_split
<1>3. call[x].ptr \notin R
  BY <1>1, <1>2 DEF Settled
<1>. QED BY <1>1, <1>3 DEF release_blocks

\* garbage_collect_cached_blocks.
LEMMA GarbageCollectStep ==
  ASSUME IInv, NEW t \in Threads, GarbageCollect(t)
  PROVE  IInv'
<1>1. /\ pc[t] = "garbage_collect" /\ UNCHANGED <<musa_events, pend, depth, lock, call, todo>>
      /\ pc' = [pc EXCEPT ![t] = "alloc_block"]
  BY DEF GarbageCollect, Locked, Goto, gpuVars
<1>2. call[t].ptr = 0 /\ "alloc_block" \in Places
  BY <1>1, NoPtr DEF Places
<1>3. CASE \E R \in SUBSET {u \in cached : ~block[u].is_small /\ ~is_split(block[u])} :
             release_blocks(R)
  <2>1. PICK R \in SUBSET {u \in cached : ~block[u].is_small /\ ~is_split(block[u])} :
             release_blocks(R)
    BY <1>3
  <2>2. R \subseteq cached /\ \A u \in R : ~is_split(block[u])
    OBVIOUS
  <2>3. /\ pc' \in [Threads -> Places] /\ call' \in [Threads -> Calls] /\ CallOK'
        /\ InFlightSegments' = InFlightSegments
    BY <2>1, <2>2, <1>1, <1>2, ReleaseKeepsCalls, ThreadGoto
  <2>4. ThreadTypes'
    BY <2>3, <1>1 DEF ThreadTypes, IInv, TypeOK
  <2>. QED BY <2>1, <2>2, <2>3, <2>4, <1>1, ReleaseStep
<1>4. CASE UNCHANGED <<blockVars, driverVars>>
  <2>1. UNCHANGED <<block, cached, active, stats, segment>>
    BY <1>4 DEF blockVars, driverVars
  <2>2. /\ pc' \in [Threads -> Places] /\ call' \in [Threads -> Calls] /\ CallOK'
        /\ InFlightSegments' = InFlightSegments
    BY <2>1, <1>1, <1>2, ThreadGoto
  <2>3. ThreadTypes'
    BY <2>2, <1>1 DEF ThreadTypes, IInv, TypeOK
  <2>. QED BY <2>1, <2>2, <2>3, <1>1, ThreadsOnly
<1>. QED BY <1>3, <1>4 DEF GarbageCollect

\* The failure of alloc_block.
LEMMA AllocFailedThreads ==
  ASSUME IInv, NEW t \in Threads, AllocFailed(t), segment' = segment, call[t].ptr = 0,
         pc[t] \in {"alloc_block", "after_musaMalloc"}
  PROVE  ThreadTypes' /\ CallOK' /\ InFlightSegments' = InFlightSegments
<1>1. CASE \E l \in {"release_available", "synchronize"} :
             pc' = [pc EXCEPT ![t] = l] /\ lock' = t /\ call' = call /\ todo' = todo
  <2>1. PICK l \in {"release_available", "synchronize"} :
             pc' = [pc EXCEPT ![t] = l] /\ lock' = t /\ call' = call /\ todo' = todo
    BY <1>1
  <2>2. l \in Places
    BY DEF Places
  <2>3. /\ pc' \in [Threads -> Places] /\ call' \in [Threads -> Calls] /\ CallOK'
        /\ InFlightSegments' = InFlightSegments
    BY <2>1, <2>2, ThreadGoto
  <2>. QED BY <2>1, <2>3 DEF ThreadTypes, IInv, TypeOK
<1>2. CASE Return(t)
  <2>1. /\ pc' \in [Threads -> Places] /\ call' \in [Threads -> Calls] /\ CallOK'
        /\ lock' \in Threads \cup {NULL} /\ todo' \subseteq Streams
        /\ InFlightSegments' = InFlightSegments \ {call[t].ptr}
    BY <1>2, ThreadReturn
  <2>. QED BY <2>1, NoZeroSegment DEF ThreadTypes
<1>. QED BY <1>1, <1>2 DEF AllocFailed

\* alloc_block up to musaMalloc.
LEMMA AllocBlockStep ==
  ASSUME IInv, NEW t \in Threads, AllocBlock(t)
  PROVE  IInv'
<1>1. /\ lock = t /\ pc[t] = "alloc_block"
      /\ UNCHANGED <<block, cached, active, stats, musa_events, segment, pend, depth>>
  BY DEF AllocBlock, Locked, blockVars, driverVars, gpuVars
<1>2. call[t].ptr = 0 /\ "musaMalloc" \in Places
  BY <1>1, NoPtr DEF Places
<1>3. CASE AllocFailed(t)
  BY <1>1, <1>2, <1>3, AllocFailedThreads, ThreadsOnly
<1>4. CASE /\ pc' = [pc EXCEPT ![t] = "musaMalloc"] /\ lock' = IF ReleaseLock THEN NULL ELSE lock
           /\ call' = call /\ todo' = todo
  <2>1. /\ pc' \in [Threads -> Places] /\ call' \in [Threads -> Calls] /\ CallOK'
        /\ InFlightSegments' = InFlightSegments
    BY <1>1, <1>2, <1>4, ThreadGoto
  <2>2. ThreadTypes'
    BY <2>1, <1>1, <1>4 DEF ThreadTypes, IInv, TypeOK
  <2>. QED BY <2>1, <2>2, <1>1, ThreadsOnly
<1>. QED BY <1>3, <1>4 DEF AllocBlock

\* The driver hands out a segment that overlaps no other.
LEMMA MusaMallocStep ==
  ASSUME IInv, NEW t \in Threads, MusaMalloc(t)
  PROVE  IInv'
<1>. DEFINE size == get_allocation_size(call[t].size)
<1>1. /\ pc[t] = "musaMalloc" /\ pc' = [pc EXCEPT ![t] = "after_musaMalloc"]
      /\ UNCHANGED <<block, cached, active, stats, musa_events, pend, depth, lock, todo>>
  BY DEF MusaMalloc, blockVars, gpuVars
<1>2. call[t].ptr = 0 /\ call[t].size \in Requests /\ call[t].stream \in Streams
  BY <1>1 DEF IInv, CallOK
<1>3. "after_musaMalloc" \in Places
  BY DEF Places
<1>4. pc \in [Threads -> Places] /\ call \in [Threads -> Calls] /\ call[t] \in Calls
      /\ segment \in [Units -> Nat]
  BY DEF IInv, TypeOK, Places, Calls
<1>5. CASE segment' = segment /\ call' = call
  <2>1. /\ pc' \in [Threads -> Places] /\ call' \in [Threads -> Calls] /\ CallOK'
        /\ InFlightSegments' = InFlightSegments
    BY <1>1, <1>2, <1>3, <1>5, ThreadGoto
  <2>2. ThreadTypes'
    BY <2>1, <1>1 DEF ThreadTypes, IInv, TypeOK
  <2>. QED BY <2>1, <2>2, <1>1, <1>5, ThreadsOnly
<1>6. CASE \E p \in Units : /\ Room(p, size)
                            /\ segment' = [segment EXCEPT ![p] = size]
                            /\ call' = [call EXCEPT ![t].ptr = p]
  <2>1. PICK p \in Units : /\ Room(p, size)
                           /\ segment' = [segment EXCEPT ![p] = size]
                           /\ call' = [call EXCEPT ![t].ptr = p]
    BY <1>6
  <2>2. size \in Nat /\ size > 0
    <3>1. \A n \in Requests : n \in Nat /\ n > 0
      BY SizeAssumption
    <3>2. size \in Nat /\ call[t].size <= size
      BY <3>1, <1>2, AllocationSize
    <3>. QED BY <3>1, <3>2, <1>2
  <2>3. p \in Nat /\ p > 0 /\ NumUnits \in Nat /\ Units = 1..NumUnits /\ p + size - 1 <= NumUnits
    BY <2>1, SizeAssumption DEF Room, Units
  <2>4. ASSUME NEW q \in Units, segment[q] > 0
        PROVE  q + segment[q] <= p \/ p + size <= q
    <3>0. segment[q] \in Nat /\ q \in Nat
      BY <1>4, <2>3
    <3>. SUFFICES ASSUME ~(q + segment[q] <= p), ~(p + size <= q) PROVE FALSE
      OBVIOUS
    <3>1. \A a \in q .. (q + segment[q] - 1) : a \in Owned
      BY <2>4 DEF Owned
    <3>2. \A a \in p .. (p + size - 1) : a \notin Owned
      BY <2>1 DEF Room
    <3>3. CASE q <= p
      BY <3>0, <3>1, <3>2, <3>3, <2>2, <2>3
    <3>4. CASE p < q
      BY <3>0, <3>1, <3>2, <3>4, <2>2, <2>3, <2>4
    <3>. QED BY <3>3, <3>4, <3>0, <2>3
  <2>5. segment[p] = 0
    BY <2>2, <2>3, <2>4, <1>4
  <2>. DEFINE c == [size |-> call[t].size, stream |-> call[t].stream,
                    try |-> call[t].try, ptr |-> p]
  <2>6. call' = [call EXCEPT ![t] = c]
    <3>1. [call[t] EXCEPT !.ptr = p] = c
      BY <1>4 DEF Calls
    <3>. QED BY <3>1, <2>1, <1>4
  <2>7. c \in Calls /\ c.ptr = p /\ c.size = call[t].size /\ c.stream = call[t].stream
    BY <1>4, <2>3 DEF Calls
  <2>. HIDE DEF c, size
  <2>8. /\ pc'[t] = "after_musaMalloc" /\ call'[t] = c
        /\ \A x \in Threads \ {t} : pc'[x] = pc[x] /\ call'[x] = call[x]
        /\ pc' \in [Threads -> Places] /\ call' \in [Threads -> Calls]
    BY <1>1, <1>3, <1>4, <2>6, <2>7
  <2>9. /\ segment' \in [Units -> Nat] /\ segment'[p] = size
        /\ \A q \in Units \ {p} : segment'[q] = segment[q]
    BY <1>4, <2>1, <2>2
  <2>10. \A x \in Threads : call[x].ptr # 0 => /\ call[x].ptr \in Units \ {p}
                                              /\ pc[x] = "after_musaMalloc"
                                              /\ segment[call[x].ptr]
                                                   = get_allocation_size(call[x].size)
    <3>. SUFFICES ASSUME NEW x \in Threads, call[x].ptr # 0
                  PROVE  /\ call[x].ptr \in Units \ {p} /\ pc[x] = "after_musaMalloc"
                         /\ segment[call[x].ptr] = get_allocation_size(call[x].size)
      OBVIOUS
    <3>1. /\ call[x].ptr \in 0..NumUnits /\ pc[x] = "after_musaMalloc"
          /\ segment[call[x].ptr] = get_allocation_size(call[x].size)
          /\ call[x].size \in Requests
      BY DEF IInv, TypeOK, CallOK
    <3>2. \A n \in Requests : n \in Nat /\ n > 0
      BY SizeAssumption
    <3>3. segment[call[x].ptr] \in Nat /\ call[x].size <= segment[call[x].ptr]
      BY <3>1, <3>2, AllocationSize
    <3>4. call[x].ptr # p
      BY <3>1, <3>2, <3>3, <2>5
    <3>. QED BY <3>1, <3>4, <2>3
  <2>11. CallOK'
    <3>1. ASSUME NEW x \in Threads
          PROVE  /\ pc'[x] \notin {"idle", "synchronize"} =>
                      call'[x].size \in Requests /\ call'[x].stream \in Streams
                 /\ call'[x].size # 0 => call'[x].stream \in Streams
                 /\ call'[x].ptr # 0 =>
                      /\ pc'[x] = "after_musaMalloc"
                      /\ segment'[call'[x].ptr] = get_allocation_size(call'[x].size)
      <4>1. CASE x = t
        BY <4>1, <1>2, <2>7, <2>8, <2>9 DEF size
      <4>2. CASE x # t
        BY <4>2, <2>8, <2>9, <2>10 DEF IInv, CallOK
      <4>. QED BY <4>1, <4>2
    <3>2. ASSUME NEW x \in Threads, NEW y \in Threads, x # y, call'[x].ptr # 0
          PROVE  call'[x].ptr # call'[y].ptr
      <4>1. CASE x # t /\ y # t
        BY <3>2, <4>1, <2>8 DEF IInv, CallOK
      <4>2. CASE x = t
        BY <3>2, <4>2, <2>3, <2>7, <2>8, <2>10
      <4>3. CASE y = t
        BY <3>2, <4>3, <2>3, <2>7, <2>8, <2>10
      <4>. QED BY <4>1, <4>2, <4>3
    <3>. QED BY <3>1, <3>2 DEF CallOK
  <2>12. InFlightSegments' = InFlightSegments \cup {p}
    <3>1. \A x \in Threads : InFlight(x) <=> call[x].ptr # 0
      BY DEF IInv, CallOK, InFlight
    <3>2. \A x \in Threads : InFlight(x)' <=> call'[x].ptr # 0
      BY <2>11 DEF CallOK, InFlight
    <3>3. InFlightSegments = {call[x].ptr : x \in {y \in Threads : call[y].ptr # 0}}
      BY <3>1 DEF InFlightSegments
    <3>4. InFlightSegments' = {call'[x].ptr : x \in {y \in Threads : call'[y].ptr # 0}}
      BY <3>2 DEF InFlightSegments
    <3>5. call'[t].ptr = p /\ p # 0 /\ call[t].ptr = 0
          /\ \A x \in Threads \ {t} : call'[x].ptr = call[x].ptr
      BY <1>2, <2>3, <2>7, <2>8
    <3>. QED BY <3>3, <3>4, <3>5
  <2>13. Settled' = Settled /\ \A q \in Settled : segment'[q] = segment[q]
    BY <2>5, <2>9, <2>12 DEF Settled
  <2>14. BlockInv'
    BY <1>1, <2>13, BlocksKept
  <2>15. SegmentsDisjoint'
    <3>. SUFFICES ASSUME NEW q \in Units, segment'[q] > 0
                  PROVE  /\ q + segment'[q] - 1 <= NumUnits
                         /\ \A x \in Units : segment'[x] > 0 /\ q < x => q + segment'[q] <= x
      BY DEF SegmentsDisjoint
    <3>1. \A x, y \in Units : segment[x] > 0 => /\ x + segment[x] - 1 <= NumUnits
                                                /\ segment[y] > 0 /\ x < y => x + segment[x] <= y
      BY DEF IInv, SegmentsDisjoint
    <3>2. \A x \in Units : x \in Nat /\ segment[x] \in Nat
      BY <1>4, <2>3
    <3>3. CASE q = p
      BY <3>2, <3>3, <2>2, <2>3, <2>4, <2>9
    <3>4. CASE q # p
      <4>1. segment'[q] = segment[q] /\ segment[q] > 0
        BY <3>4, <2>9
      <4>2. ASSUME NEW x \in Units, segment'[x] > 0, q < x PROVE q + segment[q] <= x
        <5>1. CASE x = p
          BY <5>1, <4>1, <4>2, <3>2, <2>2, <2>3, <2>4
        <5>2. CASE x # p
          BY <5>2, <4>1, <4>2, <3>1, <2>9
        <5>. QED BY <5>1, <5>2
      <4>. QED BY <4>1, <4>2, <3>1
    <3>. QED BY <3>3, <3>4
  <2>16. DataTypes' /\ PendBound'
    BY <1>1, <2>9 DEF IInv, TypeOK, DataTypes, PendBound
  <2>17. ThreadTypes'
    BY <1>1, <2>8 DEF IInv, TypeOK, ThreadTypes
  <2>. QED BY <2>11, <2>14, <2>15, <2>16, <2>17, PartsPrimed
<1>. QED BY <1>5, <1>6 DEF MusaMalloc

\* alloc_block after musaMalloc.
LEMMA AfterMusaMallocStep ==
  ASSUME IInv, NEW t \in Threads, AfterMusaMalloc(t)
  PROVE  IInv'
<1>1. pc[t] = "after_musaMalloc" /\ UNCHANGED <<musa_events, segment, pend, depth>>
  BY DEF AfterMusaMalloc, gpuVars
<1>2. CASE call[t].ptr = 0 /\ AllocFailed(t) /\ UNCHANGED <<blockVars, total>>
  BY <1>1, <1>2, AllocFailedThreads, ThreadsOnly DEF blockVars
<1>3. CASE /\ call[t].ptr # 0 /\ Return(t)
           /\ alloc_found_block(call[t].ptr,
                NewBlock(get_allocation_size(call[t].size), call[t].stream,
                         is_small(call[t].size)), call[t].size)
  <2>1. PICK u : u = call[t].ptr
    OBVIOUS
  <2>2. PICK n : n = call[t].size
    OBVIOUS
  <2>3. PICK S : S = Settled \cup {u}
    OBVIOUS
  <2>. DEFINE b == NewBlock(get_allocation_size(call[t].size), call[t].stream,
                            is_small(call[t].size))
  <2>4. Allocatable(u, b, n, u, S) /\ InSegment(u, b, n, u, S) /\ u \notin Settled
    BY <1>3, <2>1, <2>2, <2>3, FromDriver
  <2>5. alloc_found_block(u, b, n)
    BY <1>3, <2>1, <2>2
  <2>. HIDE DEF b
  <2>6. /\ pc' \in [Threads -> Places] /\ call' \in [Threads -> Calls] /\ CallOK'
        /\ lock' \in Threads \cup {NULL} /\ todo' \subseteq Streams
        /\ InFlightSegments' = InFlightSegments \ {u}
    BY <1>1, <1>3, <2>1, ThreadReturn
  <2>7. u \in Units /\ segment[u] > 0
    BY <2>3, <2>4 DEF InSegment
  <2>8. Settled' = S
    BY <1>1, <2>3, <2>6, <2>7 DEF Settled
  <2>9. /\ BlockInv' /\ block' \in [Units -> Block]
        /\ cached' \subseteq Units /\ active' \subseteq Units
        /\ stats' \in [inactive_split : Int, inactive_split_bytes : Int]
    BY <1>1, <2>4, <2>5, <2>8, AllocInv
  <2>10. ThreadTypes'
    BY <2>6 DEF ThreadTypes
  <2>11. musa_events' \in [Streams -> [Units -> Nat \cup {NoEvent}]]
    BY <1>1 DEF IInv, TypeOK
  <2>. QED BY <2>6, <2>9, <2>10, <2>11, <1>1, BlocksOnly
<1>. QED BY <1>2, <1>3 DEF AfterMusaMalloc

\* release_available_cached_blocks: the oversize blocks it releases are whole
\* segments.
LEMMA ReleaseAvailableStep ==
  ASSUME IInv, NEW t \in Threads, ReleaseAvailable(t)
  PROVE  IInv'
<1>. DEFINE n == call[t].size
            pool == SamePool(call[t].stream, n)
            key == IF n < MaxSplitSize THEN MaxSplitSize ELSE n
            oversize == {u \in pool : block[u].size >= MaxSplitSize}
            Again(enough) ==
              /\ call' = IF enough THEN [call EXCEPT ![t].try = 1] ELSE call
              /\ pc' = [pc EXCEPT ![t] = IF enough THEN "alloc_block" ELSE "synchronize"]
<1>1. /\ pc[t] = "release_available"
      /\ UNCHANGED <<musa_events, pend, depth, lock, todo>>
  BY DEF ReleaseAvailable, Locked, gpuVars
<1>2. call[t].size # 0 /\ call[t].ptr = 0 /\ call[t].size \in Nat
  <2>1. \A x \in Requests : x \in Nat /\ x # 0
    BY SizeAssumption
  <2>. QED BY <2>1, <1>1 DEF IInv, CallOK
<1>3. PICK R \in SUBSET oversize : release_blocks(R) /\ \E enough \in BOOLEAN : Again(enough)
  <2>1. CASE \E u \in pool : /\ lower_bound(pool, key, u)
                            /\ release_blocks({u}) /\ Again(TRUE)
    <3>1. PICK u \in pool : /\ lower_bound(pool, key, u)
                            /\ release_blocks({u}) /\ Again(TRUE)
      BY <2>1
    <3>2. block[u].size >= MaxSplitSize
      <4>1. block[u].size >= key /\ u \in Units
        BY <3>1, Types DEF lower_bound, SamePool
      <4>2. block[u].size \in Nat /\ MaxSplitSize \in Nat
        BY <4>1, Types, SizeAssumption
      <4>. QED BY <4>1, <4>2, <1>2
    <3>. QED BY <3>1, <3>2
  <2>2. CASE \E R \in SUBSET oversize : release_blocks(R) /\ Again(BytesOf(R) >= key)
    <3>1. PICK R \in SUBSET oversize : release_blocks(R) /\ Again(BytesOf(R) >= key)
      BY <2>2
    <3>2. (BytesOf(R) >= key) \in BOOLEAN
      OBVIOUS
    <3>3. \E enough \in BOOLEAN : Again(enough)
      BY <3>1, <3>2
    <3>. QED BY <3>1, <3>3
  <2>. QED BY <2>1, <2>2 DEF ReleaseAvailable
<1>4. PICK enough \in BOOLEAN : Again(enough)
  BY <1>3
<1>5. R \subseteq cached /\ \A u \in R : ~is_split(block[u])
  <2>1. \A u \in R : u \in cached /\ block[u].size >= MaxSplitSize
    BY DEF SamePool
  <2>. QED BY <2>1, OversizeWhole
<1>6. \A x \in Threads : call[x].ptr # 0 => segment'[call[x].ptr] = segment[call[x].ptr]
  BY <1>3, <1>5, ReleaseKeepsCalls
<1>7. "alloc_block" \in Places /\ "synchronize" \in Places
  BY DEF Places
<1>8. /\ pc' \in [Threads -> Places] /\ call' \in [Threads -> Calls] /\ CallOK'
      /\ InFlightSegments' = InFlightSegments
  <2>1. CASE enough = TRUE
    <3>1. call' = [call EXCEPT ![t].try = 1] /\ pc' = [pc EXCEPT ![t] = "alloc_block"]
      BY <1>4, <2>1
    <3>2. 1 \in 0..2 /\ pc[t] # "after_musaMalloc"
      BY <1>1
    <3>3. \A x \in Threads \ {t} : call[x].ptr # 0 => segment'[call[x].ptr] = segment[call[x].ptr]
      BY <1>6
    <3>. QED BY <3>1, <3>2, <3>3, <1>2, <1>7, ThreadTry
  <2>2. CASE enough = FALSE
    <3>1. call' = call /\ pc' = [pc EXCEPT ![t] = "synchronize"]
      BY <1>4, <2>2
    <3>. QED BY <3>1, <1>1, <1>2, <1>6, <1>7, ThreadGoto
  <2>. QED BY <2>1, <2>2
<1>9. ThreadTypes'
  BY <1>1, <1>8 DEF ThreadTypes, IInv, TypeOK
<1>. QED BY <1>1, <1>3, <1>5, <1>8, <1>9, ReleaseStep

\* release_cached_blocks.
LEMMA ReleaseCachedBlocksStep ==
  ASSUME IInv, NEW t \in Threads, ReleaseCachedBlocks(t)
  PROVE  IInv'
<1>. DEFINE Q == {u \in cached : ~is_split(block[u])}
<1>0. PICK R : R = Q
  OBVIOUS
<1>1. /\ pc[t] = "synchronize" /\ release_blocks(R)
      /\ UNCHANGED <<musa_events, pend, depth>>
  BY <1>0 DEF ReleaseCachedBlocks, Locked, gpuVars
<1>2. R \subseteq cached /\ \A u \in R : ~is_split(block[u])
  BY <1>0
<1>3. \A x \in Threads : call[x].ptr # 0 => segment'[call[x].ptr] = segment[call[x].ptr]
  BY <1>1, <1>2, ReleaseKeepsCalls
<1>4. call[t].ptr = 0
  BY <1>1, NoPtr
<1>5. ThreadTypes' /\ CallOK' /\ InFlightSegments' = InFlightSegments
  <2>1. CASE /\ call[t].size # 0 /\ call' = [call EXCEPT ![t].try = 2]
             /\ pc' = [pc EXCEPT ![t] = "alloc_block"] /\ UNCHANGED <<lock, todo>>
    <3>1. "alloc_block" \in Places
      BY DEF Places
    <3>2. /\ pc' \in [Threads -> Places] /\ call' \in [Threads -> Calls] /\ CallOK'
          /\ InFlightSegments' = InFlightSegments
      <4>1. 2 \in 0..2 /\ pc[t] # "after_musaMalloc"
        BY <1>1
      <4>2. \A x \in Threads \ {t} : call[x].ptr # 0 => segment'[call[x].ptr] = segment[call[x].ptr]
        BY <1>3
      <4>. QED BY <2>1, <3>1, <4>1, <4>2, ThreadTry
    <3>. QED BY <2>1, <3>2 DEF ThreadTypes, IInv, TypeOK
  <2>2. CASE Return(t)
    <3>1. /\ pc' \in [Threads -> Places] /\ call' \in [Threads -> Calls] /\ CallOK'
          /\ lock' \in Threads \cup {NULL} /\ todo' \subseteq Streams
          /\ InFlightSegments' = InFlightSegments \ {call[t].ptr}
      BY <2>2, <1>3, ThreadReturn
    <3>. QED BY <3>1, <1>4, NoZeroSegment DEF ThreadTypes
  <2>. QED BY <2>1, <2>2 DEF ReleaseCachedBlocks
<1>. QED BY <1>1, <1>2, <1>5, ReleaseStep

\* A kernel is queued on a block by a stream that may use it.
LEMMA LaunchStep ==
  ASSUME IInv, NEW s \in Streams, NEW u \in Units, Launch(s, u)
  PROVE  IInv'
<1>1. /\ u \in Blocks /\ (s = block[u].stream \/ s \in block[u].stream_uses)
      /\ depth' = [depth EXCEPT ![s] = depth[s] + 1]
      /\ pend' = [pend EXCEPT ![s] =
                    [a \in Units |-> IF a \in Extent(u) THEN depth[s] + 1 ELSE pend[s][a]]]
      /\ UNCHANGED <<block, cached, active, stats, musa_events, segment, lock, pc, call, todo>>
  BY DEF Launch, blockVars, driverVars, threadVars
<1>2. depth \in [Streams -> Nat] /\ pend \in [Streams -> [Units -> Nat]]
  BY DEF IInv, TypeOK
<1>3. /\ \A a \in Units : pend'[s][a] = IF a \in Extent(u) THEN depth[s] + 1 ELSE pend[s][a]
      /\ \A x \in Streams \ {s} : \A a \in Units : pend'[x][a] = pend[x][a]
      /\ depth'[s] = depth[s] + 1 /\ \A x \in Streams \ {s} : depth'[x] = depth[x]
      /\ depth' \in [Streams -> Nat] /\ pend' \in [Streams -> [Units -> Nat]]
  BY <1>1, <1>2
<1>4. ThreadTypes' /\ CallOK' /\ InFlightSegments' = InFlightSegments
  BY <1>1, ThreadsKept DEF IInv, TypeOK
<1>5. Settled' = Settled
  BY <1>1, <1>4 DEF Settled
<1>6. GeometryKept
  BY <1>1 DEF GeometryKept
<1>7. /\ Blocks' = Blocks /\ \A v \in Blocks : Extent(v)' = Extent(v)
      /\ WellFormed' /\ Linked' /\ Disjoint' /\ SegmentsSplit' /\ SplitSizes'
  BY <1>1, <1>5, <1>6, GeometryInv
<1>8. FlagsMatchPools' /\ UsesAllocated' /\ EventCounts' /\ Coalesced'
  <2>1. FlagsMatchPools'
    BY <1>1, <1>7 DEF IInv, FlagsMatchPools, can_merge
  <2>2. UsesAllocated' /\ Coalesced'
    BY <1>1, <1>7 DEF IInv, UsesAllocated, Coalesced
  <2>3. EventCounts'
    BY <1>1, <1>7 DEF IInv, EventCounts
  <2>. QED BY <2>1, <2>2, <2>3
<1>9. WorkTracked'
  <2>. SUFFICES ASSUME NEW v \in Blocks, NEW a \in Extent(v), NEW x \in Streams,
                       x # block[v].stream, pend'[x][a] > 0
                PROVE  x \in block[v].stream_uses \/ musa_events[x][v] >= pend'[x][a]
    BY <1>1, <1>7 DEF WorkTracked
  <2>1. a \in Units /\ a \in Nat
    BY Types
  <2>2. CASE x = s /\ a \in Extent(u)
    <3>1. /\ u \in Nat /\ v \in Nat /\ block[u].size \in Nat /\ block[v].size \in Nat
          /\ u < v => u + block[u].size <= v
          /\ v < u => v + block[v].size <= u
      BY <1>1, Types DEF IInv, Disjoint
    <3>2. v = u
      BY <2>1, <2>2, <3>1 DEF Extent
    <3>. QED BY <2>2, <3>2, <1>1
  <2>3. CASE ~(x = s /\ a \in Extent(u))
    <3>1. pend'[x][a] = pend[x][a]
      BY <2>1, <2>3, <1>3
    <3>. QED BY <3>1 DEF IInv, WorkTracked
  <2>. QED BY <2>2, <2>3
<1>10. UncoveredIdle'
  <2>. SUFFICES ASSUME NEW a \in Units, NEW x \in Streams, pend'[x][a] > 0
                PROVE  \E v \in Blocks : a \in Extent(v)
    BY <1>7 DEF UncoveredIdle
  <2>1. CASE x = s /\ a \in Extent(u)
    BY <2>1, <1>1
  <2>2. CASE ~(x = s /\ a \in Extent(u))
    <3>1. pend'[x][a] = pend[x][a]
      BY <2>2, <1>3
    <3>. QED BY <3>1 DEF IInv, UncoveredIdle
  <2>. QED BY <2>1, <2>2
<1>11. PendBound'
  <2>. SUFFICES ASSUME NEW x \in Streams, NEW a \in Units PROVE pend'[x][a] <= depth'[x]
    BY DEF PendBound
  <2>1. pend[x][a] <= depth[x] /\ depth[x] \in Nat /\ pend[x][a] \in Nat
    BY <1>2 DEF IInv, PendBound
  <2>. QED BY <2>1, <1>3
<1>12. DataTypes' /\ SegmentsDisjoint'
  BY <1>1, <1>3 DEF IInv, TypeOK, DataTypes, SegmentsDisjoint
<1>13. BlockInv'
  BY <1>7, <1>8, <1>9, <1>10 DEF BlockInv
<1>. QED BY <1>4, <1>11, <1>12, <1>13, PartsPrimed

\* A kernel completes; work and events of its stream come closer alike.
LEMMA CompleteStep ==
  ASSUME IInv, NEW s \in Streams, Complete(s)
  PROVE  IInv'
<1>1. /\ depth[s] > 0 /\ depth' = [depth EXCEPT ![s] = depth[s] - 1]
      /\ pend' = [pend EXCEPT ![s] =
                    [a \in Units |-> IF pend[s][a] > 0 THEN pend[s][a] - 1 ELSE 0]]
      /\ musa_events' = [musa_events EXCEPT ![s] =
                    [a \in Units |-> IF musa_events[s][a] > 0 THEN musa_events[s][a] - 1
                                     ELSE musa_events[s][a]]]
      /\ UNCHANGED <<block, cached, active, stats, segment, lock, pc, call, todo>>
  BY DEF Complete, blockVars, driverVars, threadVars
<1>2. /\ depth \in [Streams -> Nat] /\ pend \in [Streams -> [Units -> Nat]]
      /\ musa_events \in [Streams -> [Units -> Nat \cup {NoEvent}]]
  BY DEF IInv, TypeOK
<1>3. /\ \A a \in Units : /\ pend'[s][a] = IF pend[s][a] > 0 THEN pend[s][a] - 1 ELSE 0
                          /\ musa_events'[s][a] = IF musa_events[s][a] > 0
                                                    THEN musa_events[s][a] - 1
                                                    ELSE musa_events[s][a]
      /\ \A x \in Streams \ {s} : \A a \in Units : /\ pend'[x][a] = pend[x][a]
                                                   /\ musa_events'[x][a] = musa_events[x][a]
      /\ depth'[s] = depth[s] - 1 /\ \A x \in Streams \ {s} : depth'[x] = depth[x]
      /\ depth' \in [Streams -> Nat]
  BY <1>1, <1>2
<1>4. pend' \in [Streams -> [Units -> Nat]]
  BY <1>1, <1>2
<1>5. musa_events' \in [Streams -> [Units -> Nat \cup {NoEvent}]]
  <2>1. \A a \in Units : (IF musa_events[s][a] > 0 THEN musa_events[s][a] - 1
                          ELSE musa_events[s][a]) \in Nat \cup {NoEvent}
    BY <1>2 DEF NoEvent
  <2>. QED BY <2>1, <1>1, <1>2
<1>6. \A x \in Streams, a \in Units :
        /\ pend[x][a] \in Nat /\ pend'[x][a] \in Nat
        /\ pend'[x][a] > 0 => pend[x][a] > 0
        /\ musa_events[x][a] \in Nat \cup {NoEvent}
        /\ musa_events'[x][a] = NoEvent <=> musa_events[x][a] = NoEvent
  <2>. SUFFICES ASSUME NEW x \in Streams, NEW a \in Units
                PROVE  /\ pend[x][a] \in Nat /\ pend'[x][a] \in Nat
                       /\ pend'[x][a] > 0 => pend[x][a] > 0
                       /\ musa_events[x][a] \in Nat \cup {NoEvent}
                       /\ musa_events'[x][a] = NoEvent <=> musa_events[x][a] = NoEvent
    OBVIOUS
  <2>1. CASE x = s
    BY <2>1, <1>2, <1>3 DEF NoEvent
  <2>2. CASE x # s
    BY <2>2, <1>2, <1>3
  <2>. QED BY <2>1, <2>2
<1>7. ThreadTypes' /\ CallOK' /\ InFlightSegments' = InFlightSegments
  BY <1>1, ThreadsKept DEF IInv, TypeOK
<1>8. Settled' = Settled
  BY <1>1, <1>7 DEF Settled
<1>9. GeometryKept
  BY <1>1 DEF GeometryKept
<1>10. /\ Blocks' = Blocks /\ \A v \in Blocks : Extent(v)' = Extent(v)
       /\ WellFormed' /\ Linked' /\ Disjoint' /\ SegmentsSplit' /\ SplitSizes'
  BY <1>1, <1>8, <1>9, GeometryInv
<1>11. FlagsMatchPools' /\ UsesAllocated' /\ Coalesced'
  <2>1. FlagsMatchPools'
    BY <1>1, <1>10 DEF IInv, FlagsMatchPools, can_merge
  <2>2. UsesAllocated' /\ Coalesced'
    BY <1>1, <1>10 DEF IInv, UsesAllocated, Coalesced
  <2>. QED BY <2>1, <2>2
<1>12. EventCounts'
  <2>. SUFFICES ASSUME NEW a \in Units
                PROVE  LET W == {x \in Streams : musa_events'[x][a] # NoEvent}
                       IN /\ block[a].event_count = Cardinality(W)
                          /\ W # {} => a \in Blocks /\ ~block[a].allocated
    BY <1>1, <1>10 DEF EventCounts
  <2>1. {x \in Streams : musa_events'[x][a] # NoEvent}
          = {x \in Streams : musa_events[x][a] # NoEvent}
    BY <1>6
  <2>. QED BY <2>1 DEF IInv, EventCounts
<1>13. WorkTracked'
  <2>. SUFFICES ASSUME NEW v \in Blocks, NEW a \in Extent(v), NEW x \in Streams,
                       x # block[v].stream, pend'[x][a] > 0
                PROVE  x \in block[v].stream_uses \/ musa_events'[x][v] >= pend'[x][a]
    BY <1>1, <1>10 DEF WorkTracked
  <2>1. a \in Units /\ v \in Units
    BY Types
  <2>2. x \in block[v].stream_uses \/ musa_events[x][v] >= pend[x][a]
    BY <2>1, <1>6 DEF IInv, WorkTracked
  <2>3. CASE x = s
    BY <2>1, <2>2, <2>3, <1>3, <1>6 DEF NoEvent
  <2>4. CASE x # s
    BY <2>1, <2>2, <2>4, <1>3
  <2>. QED BY <2>3, <2>4
<1>14. UncoveredIdle'
  BY <1>6, <1>10 DEF IInv, UncoveredIdle
<1>15. PendBound'
  <2>. SUFFICES ASSUME NEW x \in Streams, NEW a \in Units PROVE pend'[x][a] <= depth'[x]
    BY DEF PendBound
  <2>1. pend[x][a] <= depth[x] /\ depth[x] \in Nat /\ pend[x][a] \in Nat
    BY <1>2 DEF IInv, PendBound
  <2>. QED BY <2>1, <1>1, <1>3
<1>16. DataTypes' /\ SegmentsDisjoint'
  BY <1>1, <1>3, <1>4, <1>5 DEF IInv, TypeOK, DataTypes, SegmentsDisjoint
<1>17. BlockInv'
  BY <1>10, <1>11, <1>12, <1>13, <1>14 DEF BlockInv
<1>. QED BY <1>7, <1>15, <1>16, <1>17, PartsPrimed

(***************************************************************************)
(* The theorems.                                                           *)
(***************************************************************************)
\* Before the first call the allocator holds nothing.
LEMMA InitInv == Init => IInv
<1>. SUFFICES ASSUME Init PROVE IInv
  OBVIOUS
<1>1. \A a \in Units : block[a] = NoBlock /\ segment[a] = 0
  BY DEF Init
<1>2. \A s \in Streams, a \in Units : musa_events[s][a] = NoEvent /\ pend[s][a] = 0 /\ depth[s] = 0
  BY DEF Init
<1>3. Blocks = {} /\ Settled = {}
  BY <1>1 DEF Blocks, Settled, NoBlock
<1>4. TypeOK
  <2>1. NoBlock \in Block
    BY SizeAssumption DEF NoBlock, Block
  <2>2. block \in [Units -> Block]
    BY <2>1 DEF Init
  <2>3. NoCall \in [size : Requests \cup {0}, stream : Streams \cup {NULL},
                    try : 0..2, ptr : 0..NumUnits]
    BY SizeAssumption DEF NoCall
  <2>4. call \in [Threads -> [size : Requests \cup {0}, stream : Streams \cup {NULL},
                              try : 0..2, ptr : 0..NumUnits]]
    BY <2>3 DEF Init
  <2>5. musa_events \in [Streams -> [Units -> Nat \cup {NoEvent}]]
    BY DEF Init
  <2>6. /\ segment \in [Units -> Nat] /\ pend \in [Streams -> [Units -> Nat]]
        /\ depth \in [Streams -> Nat]
        /\ stats \in [inactive_split : Int, inactive_split_bytes : Int]
    BY DEF Init
  <2>. QED BY <2>2, <2>4, <2>5, <2>6 DEF Init, TypeOK
<1>5. WellFormed /\ Linked /\ Disjoint /\ UsesAllocated /\ WorkTracked
  <2>1. WellFormed
    <3>1. NoBlock.size = 0
      BY DEF NoBlock
    <3>. QED BY <1>1, <3>1 DEF WellFormed
  <2>. QED BY <2>1, <1>3 DEF Linked, Disjoint, UsesAllocated, WorkTracked
<1>6. FlagsMatchPools /\ Coalesced
  BY <1>3 DEF FlagsMatchPools, Coalesced, Init
<1>7. EventCounts
  <2>. SUFFICES ASSUME NEW u \in Units
                PROVE  LET waiting == {s \in Streams : musa_events[s][u] # NoEvent}
                       IN /\ block[u].event_count = Cardinality(waiting)
                          /\ waiting # {} => u \in Blocks /\ ~block[u].allocated
    BY DEF EventCounts
  <2>1. {s \in Streams : musa_events[s][u] # NoEvent} = {}
    BY <1>2
  <2>2. block[u].event_count = 0
    BY <1>1 DEF NoBlock
  <2>. QED BY <2>1, <2>2, FS_EmptySet
<1>8. UncoveredIdle /\ PendBound
  BY <1>2 DEF UncoveredIdle, PendBound
<1>9. SegmentsDisjoint /\ SegmentsSplit /\ SplitSizes
  BY <1>1, <1>3 DEF SegmentsDisjoint, SegmentsSplit, SplitSizes
<1>10. CallOK
  BY DEF CallOK, Init, NoCall
<1>. QED BY <1>4, <1>5, <1>6, <1>7, <1>8, <1>9, <1>10 DEF IInv

\* No operation of the allocator and no step of the GPU breaks the invariant.
LEMMA NextInv == IInv /\ [Next]_vars => IInv'
<1>. SUFFICES ASSUME IInv, [Next]_vars PROVE IInv'
  OBVIOUS
<1>1. ASSUME NEW t \in Threads, CallStep(t) PROVE IInv'
  <2>1. CASE \E s \in Streams : ProcessEvents(t, s)
    BY <2>1, ProcessEventsStep
  <2>2. CASE GetFreeBlock(t)
    <3>1. "callbacks" \in Places
      BY DEF Places
    <3>. QED BY <2>2, <3>1, SearchStep DEF GetFreeBlock
  <2>3. CASE \E u \in Units : FreeMemoryCallback(t, u)
    BY <2>3, FreeStep
  <2>4. CASE GetFreeBlockRetry(t)
    <3>1. "garbage_collect" \in Places
      BY DEF Places
    <3>. QED BY <2>4, <3>1, SearchStep DEF GetFreeBlockRetry
  <2>5. CASE GarbageCollect(t)
    BY <2>5, GarbageCollectStep
  <2>6. CASE AllocBlock(t)
    BY <2>6, AllocBlockStep
  <2>7. CASE MusaMalloc(t)
    BY <2>7, MusaMallocStep
  <2>8. CASE AfterMusaMalloc(t)
    BY <2>8, AfterMusaMallocStep
  <2>9. CASE ReleaseAvailable(t)
    BY <2>9, ReleaseAvailableStep
  <2>10. CASE \E s \in Streams, u \in Units : SynchronizeEvent(t, s, u)
    BY <2>10, SynchronizeEventStep
  <2>11. CASE ReleaseCachedBlocks(t)
    BY <2>11, ReleaseCachedBlocksStep
  <2>. QED BY <1>1, <2>1, <2>2, <2>3, <2>4, <2>5, <2>6, <2>7, <2>8, <2>9, <2>10, <2>11
           DEF CallStep
<1>2. ASSUME NEW t \in Threads, NEW s \in Streams, NEW n \in Requests, Malloc(t, s, n) PROVE IInv'
  BY <1>2, MallocStep
<1>3. ASSUME NEW t \in Threads, NEW u \in Units, Free(t, u) PROVE IInv'
  BY <1>3, FreeStep
<1>4. ASSUME NEW t \in Threads, NEW u \in Units, NEW s \in Streams, RecordStream(t, u, s)
      PROVE  IInv'
  BY <1>4, RecordStreamStep
<1>5. ASSUME NEW t \in Threads, EmptyCache(t) PROVE IInv'
  BY <1>5, EmptyCacheStep
<1>6. ASSUME NEW s \in Streams, NEW u \in Units, Launch(s, u) PROVE IInv'
  BY <1>6, LaunchStep
<1>7. ASSUME NEW s \in Streams, Complete(s) PROVE IInv'
  BY <1>7, CompleteStep
<1>8. CASE UNCHANGED vars
  <2>1. UNCHANGED <<block, cached, active, stats, musa_events, segment, pend, depth, lock, pc,
                    call, todo>>
    BY <1>8 DEF vars, blockVars, driverVars, gpuVars, threadVars
  <2>2. ThreadTypes' /\ CallOK' /\ InFlightSegments' = InFlightSegments
    BY <2>1, ThreadsKept DEF IInv, TypeOK
  <2>. QED BY <2>1, <2>2, ThreadsOnly
<1>. QED BY <1>1, <1>2, <1>3, <1>4, <1>5, <1>6, <1>7, <1>8 DEF Next

\* Whatever the threads, the streams, the sizes and the interleaving, the invariant
\* that ties blocks, pools, events, segments and pending work together holds.
THEOREM Invariance == Spec => []IInv
BY InitInv, NextInv, PTL DEF Spec

\* Every variable of the allocator keeps its type.
THEOREM TypeCorrect == Spec => []TypeOK
<1>1. IInv => TypeOK
  BY DEF IInv
<1>. QED BY <1>1, Invariance, PTL

\* A block in a pool is used by no other stream, and work of another stream on an
\* allocated block was announced by recordStream in this lifetime of the block.
THEOREM CrossStreamSafety == Spec => []NoForeignWork
<1>1. IInv => NoForeignWork
  <2>. SUFFICES ASSUME IInv, NEW u \in Blocks, NEW a \in Extent(u),
                       NEW s \in Streams \ {block[u].stream}, pend[s][a] > 0
                PROVE  u \notin cached /\ (block[u].allocated => s \in block[u].stream_uses)
    BY DEF NoForeignWork
  <2>1. u \notin cached
    BY CachedQuiet
  <2>2. ASSUME block[u].allocated PROVE s \in block[u].stream_uses
    <3>1. s \in block[u].stream_uses \/ musa_events[s][u] >= pend[s][a]
      BY DEF IInv, WorkTracked
    <3>2. musa_events[s][u] = NoEvent
      BY <2>2, AllocatedNoEvents
    <3>3. pend[s][a] \in Nat
      BY Types
    <3>. QED BY <3>1, <3>2, <3>3 DEF NoEvent
  <2>. QED BY <2>1, <2>2
<1>. QED BY <1>1, Invariance, PTL

\* The units of a block are units of the segment it is inside of.
LEMMA SegmentCovers ==
  ASSUME IInv, NEW u \in Blocks, NEW a \in Extent(u), NEW p \in Settled, Inside(u, p)
  PROVE  a \in p .. (p + segment[p] - 1)
<1>1. /\ u \in Nat /\ block[u].size \in Nat /\ p \in Nat /\ segment[p] \in Nat /\ a \in Nat
  BY Types
<1>2. u <= a /\ a <= u + block[u].size - 1
  BY <1>1 DEF Extent
<1>3. p <= u /\ u + block[u].size <= p + segment[p]
  BY DEF Inside
<1>. QED BY <1>1, <1>2, <1>3

\* No work is pending on memory the driver has taken back: musaFree waits for the
\* kernels on the block it is called with, and that block is the whole segment.
THEOREM ReturnedMemory == Spec => []ReturnedMemoryIdle
<1>1. IInv => ReturnedMemoryIdle
  <2>. SUFFICES ASSUME IInv, NEW a \in Units, NEW s \in Streams, pend[s][a] # 0
                PROVE  a \in Owned
    BY DEF ReturnedMemoryIdle
  <2>1. pend[s][a] > 0
    BY Types
  <2>2. PICK u \in Blocks : a \in Extent(u)
    BY <2>1 DEF IInv, UncoveredIdle
  <2>3. PICK p \in Settled : Inside(u, p)
    BY DEF IInv, SegmentsSplit
  <2>4. a \in p .. (p + segment[p] - 1)
    BY <2>2, <2>3, SegmentCovers
  <2>5. p \in {b \in Units : segment[b] > 0}
    BY Types
  <2>. QED BY <2>4, <2>5 DEF Owned
<1>. QED BY <1>1, Invariance, PTL

\* The blocks tile the segments obtained from the driver, whatever is in flight.
THEOREM Tiling == Spec => []SegmentsTiled
<1>1. IInv => SegmentsTiled
  <2>. SUFFICES ASSUME IInv PROVE SegmentsTiled
    OBVIOUS
  <2>1. \A u, v \in Blocks : u # v => Extent(u) \cap Extent(v) = {}
    <3>. SUFFICES ASSUME NEW u \in Blocks, NEW v \in Blocks, u # v
                  PROVE  Extent(u) \cap Extent(v) = {}
      OBVIOUS
    <3>1. /\ u \in Nat /\ v \in Nat /\ block[u].size \in Nat /\ block[v].size \in Nat
          /\ u < v => u + block[u].size <= v
          /\ v < u => v + block[v].size <= u
      BY Types DEF IInv, Disjoint
    <3>. QED BY <3>1 DEF Extent
  <2>. DEFINE Flying == UNION {b .. (b + segment[b] - 1) : b \in InFlightSegments}
  <2>2. ASSUME NEW u \in Blocks, NEW a \in Extent(u)
        PROVE  a \in Owned /\ a \notin Flying
    <3>1. PICK p \in Settled : Inside(u, p)
      BY DEF IInv, SegmentsSplit
    <3>2. a \in p .. (p + segment[p] - 1)
      BY <3>1, <2>2, SegmentCovers
    <3>3. p \in Units /\ segment[p] > 0 /\ p \notin InFlightSegments
      BY DEF Settled
    <3>4. a \in Owned
      BY <3>2, <3>3 DEF Owned
    <3>5. a \notin Flying
      <4>. SUFFICES ASSUME NEW b \in InFlightSegments, a \in b .. (b + segment[b] - 1)
                    PROVE  FALSE
        OBVIOUS
      <4>1. PICK t \in Threads : b = call[t].ptr /\ b # 0
        BY DEF InFlightSegments, InFlight
      <4>2. b \in Units
        <5>1. call[t].ptr \in 0..NumUnits
          BY DEF IInv, TypeOK
        <5>. QED BY <5>1, <4>1, SizeAssumption DEF Units
      <4>3. segment[b] \in Nat /\ segment[p] \in Nat /\ p \in Nat /\ b \in Nat
        <5>1. segment \in [Units -> Nat] /\ \A x \in Units : x \in Nat
          BY SizeAssumption DEF IInv, TypeOK, Units
        <5>. QED BY <5>1, <4>2, <3>3
      <4>4. segment[b] > 0
        <5>1. a \in Nat /\ b <= a /\ a <= b + segment[b] - 1
          BY <4>3, Types
        <5>. QED BY <5>1, <4>3
      <4>5. /\ p < b => p + segment[p] <= b
            /\ b < p => b + segment[b] <= p
        BY <3>3, <4>2, <4>4 DEF IInv, SegmentsDisjoint
      <4>. QED BY <3>2, <3>3, <4>3, <4>5
    <3>. QED BY <3>4, <3>5
  <2>3. ASSUME NEW a \in Owned, a \notin Flying
        PROVE  \E u \in Blocks : a \in Extent(u)
    <3>1. PICK p \in Units : segment[p] > 0 /\ a \in p .. (p + segment[p] - 1)
      BY DEF Owned
    <3>2. p \in Settled
      BY <3>1, <2>3 DEF Settled
    <3>. QED BY <3>1, <3>2 DEF IInv, SegmentsSplit
  <2>4. UNION {Extent(u) : u \in Blocks} = Owned \ Flying
    BY <2>2, <2>3
  <2>. QED BY <2>1, <2>4 DEF SegmentsTiled, Covered
<1>. QED BY <1>1, Invariance, PTL

\* Neighbouring free blocks are merged, and the flags try_merge_blocks looks at
\* tell exactly the blocks that are in a pool.
THEOREM MergingSound == Spec => [](Coalesced /\ FlagsMatchPools /\ Linked)
<1>1. IInv => Coalesced /\ FlagsMatchPools /\ Linked
  BY DEF IInv
<1>. QED BY <1>1, Invariance, PTL

\* event_count is the number of queued events of a block.
THEOREM EventAccounting == Spec => []EventCounts
<1>1. IInv => EventCounts
  BY DEF IInv
<1>. QED BY <1>1, Invariance, PTL

\* Whatever release_block is called on is one whole segment of the driver.
THEOREM WholeSegments == Spec => []ReleasesWholeSegments
<1>1. IInv => ReleasesWholeSegments
  <2>. SUFFICES ASSUME IInv, NEW u \in cached,
                       ~is_split(block[u]) \/ block[u].size >= MaxSplitSize
                PROVE  segment[u] = block[u].size
    BY DEF ReleasesWholeSegments
  <2>1. ~is_split(block[u])
    BY OversizeWhole
  <2>2. u \in Blocks
    BY CachedQuiet
  <2>. QED BY <2>1, <2>2, WholeSegment DEF is_split
<1>. QED BY <1>1, Invariance, PTL

(***************************************************************************)
(* Allocations are stable.                                                 *)
(***************************************************************************)
Kept(v) ==
  /\ block'[v].size = block[v].size
  /\ block'[v].stream = block[v].stream
  /\ block'[v].allocated

\* free_block changes no allocation but the one that is freed: the neighbours it
\* absorbs are free, and of the one that follows only the link back changes.
LEMMA FreeBlockKeeps ==
  ASSUME IInv, NEW u, NEW STATE b, free_block(u, b),
         NEW v \in Blocks, block[v].allocated, v # u
  PROVE  Kept(v)
<1>1. v \in Units /\ v # 0
  BY Types
<1>2. /\ MergePrev(b) # 0 => ~block[MergePrev(b)].allocated
      /\ MergeNext(b) # 0 => ~block[MergeNext(b)].allocated
  BY DEF MergePrev, MergeNext, can_merge
<1>3. v # Low(u, b) /\ v # MergeNext(b)
  BY <1>1, <1>2 DEF Low
<1>4. block'[v] = IF v = AfterHigh(b)
                    THEN Linking(block[v], block[v].size, Low(u, b), block[v].next)
                    ELSE block[v]
  BY <1>1, <1>3 DEF free_block, Low, MergePrev, MergeNext, AfterHigh
<1>. QED BY <1>4 DEF Linking, Kept

\* Nor does alloc_found_block: the block it hands out was free, and the rest of it
\* becomes a block where there was none.
LEMMA AllocKeeps ==
  ASSUME IInv, NEW u, NEW STATE b, NEW n, NEW p, NEW S,
         Allocatable(u, b, n, p, S), alloc_found_block(u, b, n),
         NEW v \in Blocks, block[v].allocated
  PROVE  Kept(v)
<1>0. PICK r : r = u + n
  OBVIOUS
<1>1. /\ v \in Units /\ v \in Nat /\ block[v].size \in Nat /\ block[v].size > 0
      /\ block \in [Units -> Block]
  BY Types
<1>2. v # u
  BY CachedQuiet DEF Allocatable
<1>3. CASE should_split(b, n)
  <2>1. /\ u \in Nat /\ n \in Nat /\ n > 0 /\ b.size \in Nat
        /\ v < u => v + block[v].size <= u
        /\ u < v => u + b.size <= v
    BY <1>2, Types DEF Allocatable, Block
  <2>2. b.size - n >= 1
    BY <1>3, <2>1, SizeAssumption DEF should_split
  <2>3. v # r
    BY <1>0, <1>1, <2>1, <2>2
  <2>4. block'[v] = IF v = b.next
                      THEN Linking(block[v], block[v].size, r, block[v].next)
                      ELSE block[v]
    BY <1>0, <1>1, <1>2, <1>3, <2>3 DEF alloc_found_block
  <2>. QED BY <2>4 DEF Linking, Kept
<1>4. CASE ~should_split(b, n)
  <2>1. block'[v] = block[v]
    BY <1>1, <1>2, <1>4 DEF alloc_found_block
  <2>. QED BY <2>1 DEF Kept
<1>. QED BY <1>3, <1>4

\* A popped event may free the block it held, and no other.
LEMMA PopEventKeeps ==
  ASSUME IInv, NEW s \in Streams, NEW u \in Units, pop_event(s, u),
         NEW v \in Blocks, block[v].allocated
  PROVE  Kept(v)
<1>1. musa_events[s][u] # NoEvent
  BY DEF pop_event, NoEvent
<1>2. v # u
  BY <1>1 DEF IInv, EventCounts
<1>3. block \in [Units -> Block] /\ v \in Units
  BY Types
<1>. DEFINE b == Marking(block[u], block[u].allocated, block[u].stream_uses,
                         block[u].event_count - 1)
<1>4. CASE free_block(u, b)
  BY <1>2, <1>4, FreeBlockKeeps
<1>5. CASE block' = [block EXCEPT ![u] = b]
  BY <1>2, <1>3, <1>5 DEF Kept
<1>. QED BY <1>4, <1>5 DEF pop_event

\* Only blocks that are in a pool are released.
LEMMA ReleaseKeeps ==
  ASSUME IInv, NEW R, R \subseteq cached, release_blocks(R),
         NEW v \in Blocks, block[v].allocated
  PROVE  Kept(v)
<1>1. v \notin R /\ v \in Units
  BY CachedQuiet, Types
<1>. QED BY <1>1 DEF release_blocks, Kept

LEMMA SearchKeeps ==
  ASSUME IInv, NEW t \in Threads, NEW where \in {"process_events", "callbacks"}, NEW next,
         Search(t, where, next), NEW v \in Blocks, block[v].allocated
  PROVE  Kept(v)
<1>1. CASE UNCHANGED blockVars
  BY <1>1 DEF blockVars, Kept
<1>2. CASE \E u \in cached : /\ get_free_block(call[t].stream, call[t].size, u)
                             /\ alloc_found_block(u, block[u], call[t].size)
  <2>1. PICK u \in cached : /\ get_free_block(call[t].stream, call[t].size, u)
                            /\ alloc_found_block(u, block[u], call[t].size)
    BY <1>2
  <2>2. call[t].size \in Requests /\ call[t].stream \in Streams
    BY DEF IInv, CallOK, Search, Locked
  <2>3. call[t].size \in Nat /\ call[t].size > 0
    <3>1. \A n \in Requests : n \in Nat /\ n > 0
      BY SizeAssumption
    <3>. QED BY <2>2, <3>1
  <2>4. PICK n, s : n = call[t].size /\ s = call[t].stream
    OBVIOUS
  <2>5. PICK p \in Settled : Allocatable(u, block[u], n, p, Settled)
    BY <2>1, <2>2, <2>3, <2>4, FromPool
  <2>6. PICK S : S = Settled
    OBVIOUS
  <2>7. Allocatable(u, block[u], n, p, S) /\ alloc_found_block(u, block[u], n)
    BY <2>1, <2>4, <2>5, <2>6
  <2>. QED BY <2>7, AllocKeeps
<1>. QED BY <1>1, <1>2 DEF Search

LEMMA AfterMusaMallocKeeps ==
  ASSUME IInv, NEW t \in Threads, AfterMusaMalloc(t), NEW v \in Blocks, block[v].allocated
  PROVE  Kept(v)
<1>1. CASE UNCHANGED blockVars
  BY <1>1 DEF blockVars, Kept
<1>2. CASE /\ call[t].ptr # 0
           /\ alloc_found_block(call[t].ptr,
                NewBlock(get_allocation_size(call[t].size), call[t].stream,
                         is_small(call[t].size)), call[t].size)
  <2>1. PICK u, n : u = call[t].ptr /\ n = call[t].size
    OBVIOUS
  <2>2. PICK S : S = Settled \cup {u}
    OBVIOUS
  <2>. DEFINE b == NewBlock(get_allocation_size(call[t].size), call[t].stream,
                            is_small(call[t].size))
  <2>3. Allocatable(u, b, n, u, S)
    BY <1>2, <2>1, <2>2, FromDriver
  <2>4. alloc_found_block(u, b, n)
    BY <1>2, <2>1
  <2>. HIDE DEF b
  <2>. QED BY <2>3, <2>4, AllocKeeps
<1>. QED BY <1>1, <1>2 DEF AfterMusaMalloc

\* What the program holds stays where it is: splitting, merging, events, garbage
\* collection and the work of other threads never move, shrink or hand out again a
\* block that has not been freed.
THEOREM AllocationsStable == Spec => AllocationStable
<1>1. ASSUME IInv, [Next]_vars, NEW v \in Blocks, block[v].allocated
      PROVE  Kept(v) \/ \E t \in Threads : Free(t, v) \/ FreeMemoryCallback(t, v)
  <2>1. block \in [Units -> Block] /\ v \in Units
    BY <1>1, Types
  <2>2. CASE block' = block
    BY <1>1, <2>2 DEF Kept
  <2>3. ASSUME NEW t \in Threads, NEW u \in Units, Free(t, u) \/ FreeMemoryCallback(t, u)
        PROVE  Kept(v) \/ Free(t, v) \/ FreeMemoryCallback(t, v)
    <3>1. CASE u = v
      BY <2>3, <3>1
    <3>2. CASE u # v
      <4>1. free(u)
        BY <2>3 DEF Free, FreeMemoryCallback
      <4>2. CASE insert_events(u)
        BY <1>1, <2>1, <3>2, <4>2 DEF insert_events, Kept
      <4>3. CASE free_block(u, Marking(block[u], FALSE, block[u].stream_uses,
                                       block[u].event_count))
        BY <1>1, <3>2, <4>3, FreeBlockKeeps
      <4>. QED BY <4>1, <4>2, <4>3 DEF free
    <3>. QED BY <3>1, <3>2
  <2>4. ASSUME NEW t \in Threads, NEW u \in Units, NEW s \in Streams, RecordStream(t, u, s)
        PROVE  Kept(v)
    BY <1>1, <2>1, <2>4 DEF RecordStream, Marking, Kept
  <2>5. ASSUME NEW t \in Threads, NEW s \in Streams, ProcessEvents(t, s) PROVE Kept(v)
    <3>1. CASE \E u \in Units : pop_event(s, u)
      BY <1>1, <3>1, PopEventKeeps
    <3>2. CASE UNCHANGED blockVars
      BY <1>1, <3>2 DEF blockVars, Kept
    <3>. QED BY <2>5, <3>1, <3>2 DEF ProcessEvents
  <2>6. ASSUME NEW t \in Threads, GetFreeBlock(t) \/ GetFreeBlockRetry(t) PROVE Kept(v)
    BY <1>1, <2>6, SearchKeeps DEF GetFreeBlock, GetFreeBlockRetry
  <2>7. ASSUME NEW t \in Threads, GarbageCollect(t) PROVE Kept(v)
    <3>1. CASE UNCHANGED blockVars
      BY <1>1, <3>1 DEF blockVars, Kept
    <3>2. CASE \E R \in SUBSET cached : release_blocks(R)
      BY <1>1, <3>2, ReleaseKeeps
    <3>. QED BY <2>7, <3>1, <3>2 DEF GarbageCollect
  <2>8. ASSUME NEW t \in Threads, AfterMusaMalloc(t) PROVE Kept(v)
    BY <1>1, <2>8, AfterMusaMallocKeeps
  <2>9. ASSUME NEW t \in Threads, ReleaseAvailable(t) PROVE Kept(v)
    <3>1. \E R \in SUBSET cached : release_blocks(R)
      <4>1. PICK pool : pool = SamePool(call[t].stream, call[t].size) /\ pool \subseteq cached
        BY DEF SamePool
      <4>. QED BY <2>9, <4>1 DEF ReleaseAvailable
    <3>. QED BY <1>1, <3>1, ReleaseKeeps
  <2>10. ASSUME NEW t \in Threads, NEW s \in Streams, NEW u \in Units, SynchronizeEvent(t, s, u)
         PROVE  Kept(v)
    BY <1>1, <2>10, PopEventKeeps DEF SynchronizeEvent
  <2>11. ASSUME NEW t \in Threads, ReleaseCachedBlocks(t) PROVE Kept(v)
    <3>1. \E R \in SUBSET cached : release_blocks(R)
      BY <2>11 DEF ReleaseCachedBlocks
    <3>. QED BY <1>1, <3>1, ReleaseKeeps
  <2>12. ASSUME NEW t \in Threads, AllocBlock(t) \/ MusaMalloc(t) \/ EmptyCache(t)
         PROVE  block' = block
    BY <2>12 DEF AllocBlock, MusaMalloc, EmptyCache, blockVars
  <2>13. ASSUME NEW t \in Threads, NEW s \in Streams, NEW n \in Requests, Malloc(t, s, n)
         PROVE  block' = block
    BY <2>13 DEF Malloc, blockVars
  <2>14. ASSUME NEW s \in Streams, Complete(s) \/ \E u \in Units : Launch(s, u)
         PROVE  block' = block
    BY <2>14 DEF Complete, Launch, blockVars
  <2>15. ASSUME UNCHANGED vars PROVE block' = block
    BY <2>15 DEF vars, blockVars
  <2>16. ASSUME NEW t \in Threads, CallStep(t)
         PROVE  Kept(v) \/ \E x \in Threads : Free(x, v) \/ FreeMemoryCallback(x, v)
    <3>1. CASE AllocBlock(t) \/ MusaMalloc(t)
      BY <2>2, <2>12, <3>1
    <3>2. CASE \E u \in Units : FreeMemoryCallback(t, u)
      BY <2>3, <3>2
    <3>. QED BY <2>5, <2>6, <2>7, <2>8, <2>9, <2>10, <2>11, <2>16, <3>1, <3>2 DEF CallStep
  <2>. QED BY <1>1, <2>2, <2>3, <2>4, <2>12, <2>13, <2>14, <2>15, <2>16 DEF Next
<1>2. IInv /\ [Next]_vars =>
        [\A u \in Blocks :
           block[u].allocated =>
             \/ /\ block'[u].size = block[u].size
                /\ block'[u].stream = block[u].stream
                /\ block'[u].allocated
             \/ \E t \in Threads : Free(t, u) \/ FreeMemoryCallback(t, u)]_vars
  BY <1>1 DEF Kept
<1>. QED BY <1>2, Invariance, PTL DEF Spec, AllocationStable

(***************************************************************************)
(* The statistics.  SumOf(f, S) is the sum of the sizes f of the blocks of *)
(* S, which lie apart from each other in a memory of N units.              *)
(***************************************************************************)
SumOf(f, S) == Cardinality(UNION {a .. (a + f[a] - 1) : a \in S})

Apart(N, f, S) ==
  /\ N \in Nat
  /\ \A a \in S : a \in 1..N /\ f[a] \in Nat /\ a + f[a] - 1 <= N
  /\ \A a, c \in S : a < c => a + f[a] <= c

TwoOf(N, f, S, A, B) == Apart(N, f, S) /\ A \subseteq S /\ B \subseteq S /\ A \cap B = {}

\* The sizes of two disjoint sets of blocks add up, and so do their numbers.
LEMMA SumAdds ==
  ASSUME NEW N, NEW f, NEW S, NEW A, NEW B, TwoOf(N, f, S, A, B)
  PROVE  /\ SumOf(f, A) \in Nat /\ SumOf(f, B) \in Nat
         /\ SumOf(f, A \cup B) = SumOf(f, A) + SumOf(f, B)
         /\ Cardinality(A) \in Nat /\ Cardinality(B) \in Nat
         /\ Cardinality(A \cup B) = Cardinality(A) + Cardinality(B)
<1>. USE DEF TwoOf
<1>. DEFINE Cover(T) == UNION {a .. (a + f[a] - 1) : a \in T}
<1>1. N \in Nat /\ IsFiniteSet(1..N)
  BY FS_Interval DEF Apart
<1>2. /\ \A a \in S : a \in 1..N /\ f[a] \in Nat /\ a + f[a] - 1 <= N
      /\ \A a, c \in S : a < c => a + f[a] <= c
  BY DEF Apart
<1>3. ASSUME NEW T \in SUBSET S PROVE Cover(T) \subseteq 1..N /\ T \subseteq 1..N
  BY <1>1, <1>2
<1>4. IsFiniteSet(Cover(A)) /\ IsFiniteSet(Cover(B)) /\ IsFiniteSet(A) /\ IsFiniteSet(B)
  BY <1>1, <1>3, FS_Subset
<1>5. Cover(A) \cap Cover(B) = {}
  <2>. SUFFICES ASSUME NEW x, x \in Cover(A), x \in Cover(B) PROVE FALSE
    OBVIOUS
  <2>1. PICK a \in A : x \in a .. (a + f[a] - 1)
    OBVIOUS
  <2>2. PICK c \in B : x \in c .. (c + f[c] - 1)
    OBVIOUS
  <2>3. a # c /\ a \in S /\ c \in S
    OBVIOUS
  <2>. HIDE DEF Cover
  <2>4a. a \in Nat /\ f[a] \in Nat /\ c \in Nat /\ f[c] \in Nat
    BY <2>3, <1>1, <1>2
  <2>4. /\ a \in Nat /\ f[a] \in Nat /\ c \in Nat /\ f[c] \in Nat
        /\ x \in Int /\ a <= x /\ x <= a + f[a] - 1 /\ c <= x /\ x <= c + f[c] - 1
    BY <2>1, <2>2, <2>4a
  <2>5. a < c \/ c < a
    BY <2>3, <2>4
  <2>6. a < c => a + f[a] <= c
    BY <2>3, <1>2
  <2>7. c < a => c + f[c] <= a
    BY <2>3, <1>2
  <2>. QED BY <2>4, <2>5, <2>6, <2>7
<1>6. Cover(A \cup B) = Cover(A) \cup Cover(B)
  OBVIOUS
<1>7. /\ Cardinality(Cover(A)) \in Nat /\ Cardinality(Cover(B)) \in Nat
      /\ Cardinality(A) \in Nat /\ Cardinality(B) \in Nat
  BY <1>4, FS_CardinalityType
<1>8. Cardinality(Cover(A) \cup Cover(B))
        = Cardinality(Cover(A)) + Cardinality(Cover(B)) - Cardinality(Cover(A) \cap Cover(B))
  BY <1>4, FS_Union
<1>9. Cardinality(A \cup B) = Cardinality(A) + Cardinality(B) - Cardinality(A \cap B)
  BY <1>4, FS_Union
<1>10. Cardinality(Cover(A) \cap Cover(B)) = 0 /\ Cardinality(A \cap B) = 0
  BY <1>5, FS_EmptySet
<1>. HIDE DEF Cover
<1>11. Cardinality(Cover(A \cup B)) = Cardinality(Cover(A)) + Cardinality(Cover(B))
  <2>1. Cardinality(Cover(A \cup B)) = Cardinality(Cover(A) \cup Cover(B))
    BY <1>6
  <2>2. PICK x, y, z : /\ x = Cardinality(Cover(A)) /\ y = Cardinality(Cover(B))
                       /\ z = Cardinality(Cover(A) \cap Cover(B))
    OBVIOUS
  <2>3. x \in Nat /\ y \in Nat /\ z = 0
    BY <2>2, <1>7, <1>10
  <2>4. Cardinality(Cover(A \cup B)) = x + y - z
    BY <2>1, <2>2, <1>8
  <2>5. x + y - z = x + y
    BY <2>3
  <2>. QED BY <2>2, <2>4, <2>5
<1>12. Cardinality(A \cup B) = Cardinality(A) + Cardinality(B)
  BY <1>7, <1>9, <1>10
<1>. QED BY <1>7, <1>11, <1>12 DEF SumOf, Cover

\* One block, and none.
LEMMA SumOfOne ==
  ASSUME NEW f, NEW a \in Nat, f[a] \in Nat
  PROVE  SumOf(f, {a}) = f[a]
<1>1. UNION {x .. (x + f[x] - 1) : x \in {a}} = a .. (a + f[a] - 1)
  OBVIOUS
<1>2. Cardinality(a .. (a + f[a] - 1)) = f[a]
  <2>1. PICK n \in Int : n = a + f[a] - 1
    OBVIOUS
  <2>2. Cardinality(a .. n) = IF a > n THEN 0 ELSE n - a + 1
    BY FS_Interval
  <2>. QED BY <2>1, <2>2
<1>. QED BY <1>1, <1>2 DEF SumOf

LEMMA SumOfNone == \A f : SumOf(f, {}) = 0 /\ Cardinality({}) = 0
<1>. SUFFICES ASSUME NEW f PROVE SumOf(f, {}) = 0 /\ Cardinality({}) = 0
  OBVIOUS
<1>1. UNION {x .. (x + f[x] - 1) : x \in {}} = {}
  OBVIOUS
<1>. QED BY <1>1, FS_EmptySet DEF SumOf

\* The sum depends on the sizes of the blocks alone.
LEMMA SumOfSame ==
  ASSUME NEW f, NEW g, NEW S, \A a \in S : f[a] = g[a]
  PROVE  SumOf(f, S) = SumOf(g, S)
<1>1. {a .. (a + f[a] - 1) : a \in S} = {a .. (a + g[a] - 1) : a \in S}
  OBVIOUS
<1>. QED BY <1>1 DEF SumOf

\* The blocks of M are replaced by those of M2: the sums over all blocks, and
\* over the blocks of I, change by what goes and what comes.
Replaces(N, f, g, B, B2, I, I2, M, M2, J, J2) ==
  /\ Apart(N, f, B) /\ Apart(N, g, B2) /\ I \subseteq B /\ I2 \subseteq B2 /\ M \subseteq B
  /\ B2 = (B \ M) \cup M2 /\ M2 \cap (B \ M) = {}
  /\ J = I \cap M /\ J2 = I2 \cap M2
  /\ \A a \in B \ M : g[a] = f[a] /\ (a \in I2 <=> a \in I)

LEMMA SumReplaced ==
  ASSUME NEW N, NEW f, NEW g, NEW B, NEW B2, NEW I, NEW I2, NEW M, NEW M2, NEW J, NEW J2,
         Replaces(N, f, g, B, B2, I, I2, M, M2, J, J2)
  PROVE  /\ SumOf(g, B2) = SumOf(f, B) - SumOf(f, M) + SumOf(g, M2)
         /\ Cardinality(I2) = Cardinality(I) - Cardinality(J) + Cardinality(J2)
         /\ SumOf(g, I2) = SumOf(f, I) - SumOf(f, J) + SumOf(g, J2)
<1>. USE DEF Replaces
<1>1. PICK K, L : K = B \ M /\ L = I \ M
  OBVIOUS
<1>2. SumOf(g, K) = SumOf(f, K) /\ SumOf(g, L) = SumOf(f, L)
  BY <1>1, SumOfSame
<1>4. /\ SumOf(f, B) = SumOf(f, K) + SumOf(f, M)
      /\ SumOf(f, K) \in Nat /\ SumOf(f, M) \in Nat
  <2>1. TwoOf(N, f, B, K, M) /\ B = K \cup M
    BY <1>1 DEF TwoOf
  <2>. QED BY ONLY <2>1, SumAdds
<1>5. /\ SumOf(g, B2) = SumOf(g, K) + SumOf(g, M2)
      /\ SumOf(g, K) \in Nat /\ SumOf(g, M2) \in Nat
  <2>1. TwoOf(N, g, B2, K, M2) /\ B2 = K \cup M2
    BY <1>1 DEF TwoOf
  <2>. QED BY ONLY <2>1, SumAdds
<1>6. /\ SumOf(f, I) = SumOf(f, L) + SumOf(f, J)
      /\ SumOf(f, L) \in Nat /\ SumOf(f, J) \in Nat
      /\ Cardinality(I) = Cardinality(L) + Cardinality(J)
      /\ Cardinality(L) \in Nat /\ Cardinality(J) \in Nat
  <2>1. TwoOf(N, f, B, L, J) /\ I = L \cup J
    BY <1>1 DEF TwoOf
  <2>. QED BY ONLY <2>1, SumAdds
<1>7. /\ SumOf(g, I2) = SumOf(g, L) + SumOf(g, J2)
      /\ SumOf(g, L) \in Nat /\ SumOf(g, J2) \in Nat
      /\ Cardinality(I2) = Cardinality(L) + Cardinality(J2)
      /\ Cardinality(L) \in Nat /\ Cardinality(J2) \in Nat
  <2>1. TwoOf(N, g, B2, L, J2) /\ I2 = L \cup J2
    BY <1>1 DEF TwoOf
  <2>. QED BY ONLY <2>1, SumAdds
<1>. QED BY <1>1, <1>2, <1>4, <1>5, <1>6, <1>7

Sizes == [a \in Units |-> block[a].size]
Inactive == {u \in cached : is_split(block[u])}

\* The invariant puts the blocks apart.
LEMMA BlocksApart ==
  ASSUME IInv
  PROVE  /\ Apart(NumUnits, Sizes, Blocks) /\ Inactive \subseteq Blocks
         /\ \A u \in Blocks : SumOf(Sizes, {u}) = block[u].size
         /\ \A S \in SUBSET Units : BytesOf(S) = SumOf(Sizes, S)
<1>1. /\ NumUnits \in Nat /\ Units = 1..NumUnits
      /\ \A a \in Blocks : /\ a \in Units /\ a \in Nat /\ block[a].size \in Nat
                           /\ a + block[a].size - 1 <= NumUnits
  BY Types
<1>2. \A a \in Units : Sizes[a] = block[a].size
  BY DEF Sizes
<1>3. Apart(NumUnits, Sizes, Blocks)
  BY <1>1, <1>2 DEF Apart, IInv, Disjoint
<1>4. Inactive \subseteq Blocks
  BY DEF Inactive, IInv, FlagsMatchPools
<1>5. ASSUME NEW u \in Blocks PROVE SumOf(Sizes, {u}) = block[u].size
  BY <1>1, <1>2, SumOfOne
<1>6. ASSUME NEW S \in SUBSET Units PROVE BytesOf(S) = SumOf(Sizes, S)
  <2>1. {Extent(a) : a \in S} = {a .. (a + Sizes[a] - 1) : a \in S}
    BY <1>2 DEF Extent
  <2>. QED BY <2>1 DEF BytesOf, Covered, SumOf
<1>. QED BY <1>3, <1>4, <1>5, <1>6

Measured ==
  /\ Apart(NumUnits, Sizes, Blocks) /\ Inactive \subseteq Blocks
  /\ \A u \in Blocks : SumOf(Sizes, {u}) = block[u].size
  /\ \A S \in SUBSET Units : BytesOf(S) = SumOf(Sizes, S)

Recorded ==
  /\ total = SumOf(Sizes, Blocks)
  /\ stats.inactive_split = Cardinality(Inactive)
  /\ stats.inactive_split_bytes = SumOf(Sizes, Inactive)

LEMMA RecordedIs == Measured => (StatsMatch <=> Recorded)
<1>. SUFFICES ASSUME Measured PROVE StatsMatch <=> Recorded
  OBVIOUS
<1>1. Blocks \in SUBSET Units /\ Inactive \in SUBSET Units
  BY DEF Measured, Blocks
<1>2. BytesOf(Blocks) = SumOf(Sizes, Blocks) /\ BytesOf(Inactive) = SumOf(Sizes, Inactive)
  BY <1>1 DEF Measured
<1>. QED BY <1>2 DEF StatsMatch, Recorded, Inactive

\* The step replaces the blocks of M by those of M2, of which J were and J2 are
\* inactive, and books the difference.
Booked(M, M2, J, J2) ==
  /\ M \subseteq Blocks /\ Blocks' = (Blocks \ M) \cup M2 /\ M2 \cap (Blocks \ M) = {}
  /\ \A a \in Blocks \ M : /\ block'[a].size = block[a].size
                           /\ a \in Inactive' <=> a \in Inactive
  /\ J = Inactive \cap M /\ J2 = Inactive' \cap M2
  /\ total' = total - SumOf(Sizes, M) + SumOf(Sizes', M2)
  /\ stats'.inactive_split = stats.inactive_split - Cardinality(J) + Cardinality(J2)
  /\ stats'.inactive_split_bytes
       = stats.inactive_split_bytes - SumOf(Sizes, J) + SumOf(Sizes', J2)

LEMMA Balance ==
  ASSUME Measured, Measured', Recorded, NEW M, NEW M2, NEW J, NEW J2, Booked(M, M2, J, J2)
  PROVE  Recorded'
<1>1. PICK f, g, B, B2, I, I2 : /\ f = Sizes /\ g = Sizes' /\ B = Blocks /\ B2 = Blocks'
                                /\ I = Inactive /\ I2 = Inactive'
  OBVIOUS
<1>2. Apart(NumUnits, f, B) /\ I \subseteq B
  BY <1>1 DEF Measured
<1>3. Apart(NumUnits, g, B2) /\ I2 \subseteq B2
  BY <1>1 DEF Measured, Apart
<1>4. /\ M \subseteq B /\ B2 = (B \ M) \cup M2 /\ M2 \cap (B \ M) = {}
      /\ J = I \cap M /\ J2 = I2 \cap M2
  BY <1>1 DEF Booked
<1>5. \A a \in B \ M : g[a] = f[a] /\ (a \in I2 <=> a \in I)
  BY <1>1 DEF Booked, Sizes, Blocks
<1>6. /\ SumOf(g, B2) = SumOf(f, B) - SumOf(f, M) + SumOf(g, M2)
      /\ Cardinality(I2) = Cardinality(I) - Cardinality(J) + Cardinality(J2)
      /\ SumOf(g, I2) = SumOf(f, I) - SumOf(f, J) + SumOf(g, J2)
  <2>1. Replaces(NumUnits, f, g, B, B2, I, I2, M, M2, J, J2)
    BY <1>2, <1>3, <1>4, <1>5 DEF Replaces
  <2>. QED BY <2>1, SumReplaced
<1>7. /\ total = SumOf(f, B) /\ stats.inactive_split = Cardinality(I)
      /\ stats.inactive_split_bytes = SumOf(f, I)
  BY <1>1 DEF Recorded
<1>8. /\ total' = total - SumOf(f, M) + SumOf(g, M2)
      /\ stats'.inactive_split = stats.inactive_split - Cardinality(J) + Cardinality(J2)
      /\ stats'.inactive_split_bytes = stats.inactive_split_bytes - SumOf(f, J) + SumOf(g, J2)
  BY <1>1 DEF Booked
<1>9. /\ total' = SumOf(g, B2) /\ stats'.inactive_split = Cardinality(I2)
      /\ stats'.inactive_split_bytes = SumOf(g, I2)
  BY <1>6, <1>7, <1>8
<1>. QED BY <1>1, <1>9 DEF Recorded, SumOf

\* Nothing is booked when the blocks keep their sizes and links.
LEMMA SameBooked ==
  ASSUME IInv, Recorded, cached' = cached, stats' = stats, total' = total,
         \A a \in Units : /\ block'[a].size = block[a].size
                          /\ block'[a].prev = block[a].prev /\ block'[a].next = block[a].next
  PROVE  Recorded'
<1>1. Sizes' = Sizes /\ Blocks' = Blocks
  BY DEF Sizes, Blocks
<1>2. Inactive' = Inactive
  BY Types DEF Inactive, is_split
<1>. QED BY <1>1, <1>2 DEF Recorded

\* release_blocks: whole segments go, none of them split.
LEMMA ReleaseBooked ==
  ASSUME IInv, Measured, Measured', Recorded, NEW R, R \subseteq cached,
         \A u \in R : ~is_split(block[u]), release_blocks(R)
  PROVE  Recorded'
<1>1. /\ block' = [a \in Units |-> IF a \in R THEN NoBlock ELSE block[a]]
      /\ cached' = cached \ R /\ total' = total - BytesOf(R) /\ stats' = stats
  BY DEF release_blocks
<1>2. R \subseteq Blocks /\ Blocks \subseteq Units
  BY DEF IInv, FlagsMatchPools, Blocks
<1>3. Blocks' = (Blocks \ R) \cup {}
  BY <1>1 DEF Blocks, NoBlock
<1>4. \A a \in Blocks \ R : block'[a] = block[a]
  BY <1>1, <1>2
<1>5. \A a \in Blocks \ R : block'[a].size = block[a].size /\ (a \in Inactive' <=> a \in Inactive)
  BY <1>1, <1>4 DEF Inactive, is_split
<1>6. {} = Inactive \cap R /\ {} = Inactive' \cap {}
  BY DEF Inactive
<1>7. total' = total - SumOf(Sizes, R) + SumOf(Sizes', {})
  <2>1. BytesOf(R) = SumOf(Sizes, R)
    BY <1>2 DEF Measured
  <2>2. SumOf(Sizes, R) \in Nat
    <3>1. TwoOf(NumUnits, Sizes, Blocks, R, {})
      BY <1>2 DEF TwoOf, Measured
    <3>. QED BY <3>1, SumAdds
  <2>3. SumOf(Sizes', {}) = 0
    BY SumOfNone
  <2>4. total \in Nat
    <3>1. TwoOf(NumUnits, Sizes, Blocks, Blocks, {})
      BY DEF TwoOf, Measured
    <3>. QED BY <3>1, SumAdds DEF Recorded
  <2>. QED BY <1>1, <2>1, <2>2, <2>3, <2>4
<1>8. /\ stats'.inactive_split = stats.inactive_split - Cardinality({}) + Cardinality({})
      /\ stats'.inactive_split_bytes
           = stats.inactive_split_bytes - SumOf(Sizes, {}) + SumOf(Sizes', {})
  <2>1. Cardinality({}) = 0 /\ SumOf(Sizes, {}) = 0 /\ SumOf(Sizes', {}) = 0
    BY SumOfNone
  <2>2. stats.inactive_split \in Int /\ stats.inactive_split_bytes \in Int
    BY DEF IInv, TypeOK
  <2>. QED BY <1>1, <2>1, <2>2
<1>9. Booked(R, {}, {}, {})
  BY <1>2, <1>3, <1>5, <1>6, <1>7, <1>8 DEF Booked
<1>. QED BY <1>9, Balance

\* alloc_found_block: the block at u, if it is there, is replaced by itself or by
\* itself and the rest; a block that was inactive is so no more, the rest is.
LEMMA AllocBooked ==
  ASSUME IInv, Measured, Measured', Recorded, NEW u, NEW STATE b, NEW n, NEW p, NEW S,
         Allocatable(u, b, n, p, S), alloc_found_block(u, b, n),
         u \notin Blocks => ~is_split(b),
         total' = IF u \in Blocks THEN total ELSE total + b.size
  PROVE  Recorded'
<1>0. PICK r, M, J : r = u + n /\ M = Blocks \cap {u} /\ J = Inactive \cap M
  OBVIOUS
<1>1. /\ block \in [Units -> Block] /\ NumUnits \in Nat /\ Units = 1..NumUnits
      /\ cached \subseteq Units
      /\ \A a \in Blocks : /\ a \in Units /\ a \in Nat
                           /\ block[a].size \in Nat /\ block[a].size > 0
  BY Types
<1>2. /\ u \in Units /\ u \in Nat /\ u > 0 /\ b.size \in Nat /\ b.size > 0
      /\ u + b.size - 1 <= NumUnits /\ b.prev \in Nat /\ b.next \in Nat
      /\ n \in Nat /\ n > 0 /\ n <= b.size
      /\ b.next \notin cached
      /\ u \in Blocks => u \in cached /\ b = block[u]
      /\ \A v \in Blocks \ {u} : (v < u => v + block[v].size <= u) /\ (u < v => u + b.size <= v)
  <2>1. b.next \notin cached
    BY <1>1 DEF Allocatable
  <2>2. /\ b.size \in 0..NumUnits /\ b.prev \in 0..NumUnits /\ b.next \in 0..NumUnits
    BY DEF Allocatable, Block
  <2>3. u \in Units /\ b.size > 0 /\ u + b.size - 1 <= NumUnits /\ n \in Nat /\ 0 < n /\ n <= b.size
    BY DEF Allocatable
  <2>4. /\ u \in Blocks => u \in cached /\ b = block[u]
        /\ \A v \in Blocks \ {u} : (v < u => v + block[v].size <= u) /\ (u < v => u + b.size <= v)
    BY DEF Allocatable
  <2>. QED BY <1>1, <2>1, <2>2, <2>3, <2>4
<1>3. /\ stats.inactive_split \in Int /\ stats.inactive_split_bytes \in Int /\ total \in Int
  <2>1. TwoOf(NumUnits, Sizes, Blocks, Blocks, {})
    BY DEF TwoOf, Measured
  <2>2. SumOf(Sizes, Blocks) \in Nat
    BY <2>1, SumAdds
  <2>. QED BY <2>2 DEF IInv, TypeOK, Recorded
<1>4. /\ u \in Blocks => M = {u} /\ SumOf(Sizes, M) = b.size
      /\ u \notin Blocks => M = {} /\ SumOf(Sizes, M) = 0
  BY <1>0, <1>2, SumOfNone DEF Measured
<1>5. /\ is_split(b) => J = {u} /\ Cardinality(J) = 1 /\ SumOf(Sizes, J) = b.size
      /\ ~is_split(b) => J = {} /\ Cardinality(J) = 0 /\ SumOf(Sizes, J) = 0
  <2>1. CASE is_split(b)
    <3>1. J = {u} /\ u \in Blocks
      BY <2>1, <1>0, <1>2 DEF Inactive
    <3>. QED BY <2>1, <3>1, <1>2, FS_Singleton DEF Measured
  <2>2. CASE ~is_split(b)
    <3>1. J = {}
      BY <2>2, <1>0, <1>2 DEF Inactive
    <3>. QED BY <2>2, <3>1, SumOfNone
  <2>. QED BY <2>1, <2>2
<1>6. SumOf(Sizes', {}) = 0 /\ Cardinality({}) = 0
  BY SumOfNone
<1>7. CASE should_split(b, n)
  <2>0. PICK rest : rest = b.size - n
    OBVIOUS
  <2>1. rest \in Nat /\ rest > 0
    BY <2>0, <1>2, <1>7, SizeAssumption DEF should_split
  <2>2. /\ block' = [a \in Units |->
                  IF a = u THEN Linking(Marking(b, TRUE, b.stream_uses, b.event_count),
                                        n, b.prev, r)
                  ELSE IF a = r THEN Linking(b, rest, u, b.next)
                  ELSE IF a = b.next
                    THEN Linking(block[a], block[a].size, r, block[a].next)
                  ELSE block[a]]
        /\ cached' = (cached \ {u}) \cup {r}
        /\ stats' = IF is_split(b)
             THEN [inactive_split |-> stats.inactive_split + 0,
                   inactive_split_bytes |-> stats.inactive_split_bytes + (-n)]
             ELSE [inactive_split |-> stats.inactive_split + 1,
                   inactive_split_bytes |-> stats.inactive_split_bytes + rest]
    BY <1>0, <1>7, <2>0 DEF alloc_found_block
  <2>3. r \in Units /\ r \in Nat /\ r # u /\ r \notin Blocks
    BY <1>0, <1>1, <1>2, <2>0, <2>1
  <2>4. /\ block'[u].size = n /\ block'[r].size = rest /\ block'[r].prev = u
        /\ \A a \in Units \ {u, r} : /\ block'[a].size = block[a].size
                                     /\ a # b.next => block'[a] = block[a]
    BY <1>2, <2>2, <2>3 DEF Linking
  <2>5. Blocks' = (Blocks \ M) \cup {u, r}
    <3>1. \A a \in Units : block'[a].size > 0 <=> a = u \/ a = r \/ block[a].size > 0
      BY <1>2, <2>1, <2>3, <2>4
    <3>. QED BY <3>1, <1>0, <1>2, <2>3 DEF Blocks
  <2>6. \A a \in Blocks \ M : block'[a].size = block[a].size /\ (a \in Inactive' <=> a \in Inactive)
    <3>. SUFFICES ASSUME NEW a \in Blocks \ M
                  PROVE  block'[a].size = block[a].size /\ (a \in Inactive' <=> a \in Inactive)
      OBVIOUS
    <3>1. a \in Units \ {u, r}
      BY <1>0, <1>1, <2>3
    <3>2. a \in cached' <=> a \in cached
      BY <2>2, <3>1
    <3>. QED BY <1>2, <2>4, <3>1, <3>2 DEF Inactive, is_split
  <2>7. {r} = Inactive' \cap {u, r}
    <3>1. r \in cached' /\ u \notin cached'
      BY <2>2, <2>3
    <3>2. is_split(block[r])'
      BY <1>2, <2>4 DEF is_split
    <3>. QED BY <3>1, <3>2 DEF Inactive
  <2>8. /\ SumOf(Sizes', {r}) = rest /\ SumOf(Sizes', {u, r}) = b.size
        /\ Cardinality({r}) = 1
    <3>1. SumOf(Sizes', {r}) = rest /\ SumOf(Sizes', {u}) = n
      BY <2>4, <2>5 DEF Measured
    <3>2. PICK g, B2 : g = Sizes' /\ B2 = Blocks'
      OBVIOUS
    <3>3. TwoOf(NumUnits, g, B2, {u}, {r})
      BY <2>3, <2>5, <3>2 DEF TwoOf, Measured
    <3>4. SumOf(g, {u} \cup {r}) = SumOf(g, {u}) + SumOf(g, {r})
      BY <3>3, SumAdds
    <3>5. {u} \cup {r} = {u, r}
      OBVIOUS
    <3>6. SumOf(g, {u, r}) = n + rest
      BY <3>1, <3>2, <3>4, <3>5
    <3>7. n + rest = b.size
      BY <2>0, <1>2
    <3>. QED BY <3>1, <3>2, <3>6, <3>7, FS_Singleton
  <2>9. total' = total - SumOf(Sizes, M) + SumOf(Sizes', {u, r})
    BY <1>2, <1>3, <1>4, <2>8
  <2>10. /\ stats'.inactive_split = stats.inactive_split - Cardinality(J) + Cardinality({r})
         /\ stats'.inactive_split_bytes
              = stats.inactive_split_bytes - SumOf(Sizes, J) + SumOf(Sizes', {r})
    BY <1>2, <1>3, <1>5, <2>0, <2>1, <2>2, <2>8
  <2>11. Booked(M, {u, r}, J, {r})
    BY <1>0, <2>3, <2>5, <2>6, <2>7, <2>9, <2>10 DEF Booked
  <2>. QED BY <2>11, Balance
<1>8. CASE ~should_split(b, n)
  <2>1. /\ block' = [block EXCEPT ![u] = Marking(b, TRUE, b.stream_uses, b.event_count)]
        /\ cached' = cached \ {u}
        /\ stats' = IF is_split(b)
             THEN [inactive_split |-> stats.inactive_split + (-1),
                   inactive_split_bytes |-> stats.inactive_split_bytes + (-b.size)]
             ELSE [inactive_split |-> stats.inactive_split + 0,
                   inactive_split_bytes |-> stats.inactive_split_bytes + 0]
    BY <1>8 DEF alloc_found_block
  <2>2. block'[u].size = b.size /\ \A a \in Units \ {u} : block'[a] = block[a]
    BY <1>1, <1>2, <2>1 DEF Marking
  <2>3. Blocks' = (Blocks \ M) \cup {u}
    <3>1. \A a \in Units : block'[a].size > 0 <=> a = u \/ block[a].size > 0
      BY <1>2, <2>2
    <3>. QED BY <3>1, <1>0, <1>2 DEF Blocks
  <2>4. \A a \in Blocks \ M : block'[a].size = block[a].size /\ (a \in Inactive' <=> a \in Inactive)
    BY <1>0, <1>1, <2>1, <2>2 DEF Inactive, is_split
  <2>5. {} = Inactive' \cap {u}
    BY <2>1 DEF Inactive
  <2>6. SumOf(Sizes', {u}) = b.size
    BY <2>2, <2>3 DEF Measured
  <2>7. total' = total - SumOf(Sizes, M) + SumOf(Sizes', {u})
    BY <1>2, <1>3, <1>4, <2>6
  <2>8. /\ stats'.inactive_split = stats.inactive_split - Cardinality(J) + Cardinality({})
        /\ stats'.inactive_split_bytes
             = stats.inactive_split_bytes - SumOf(Sizes, J) + SumOf(Sizes', {})
    BY <1>2, <1>3, <1>5, <1>6, <2>1
  <2>9. Booked(M, {u}, J, {})
    BY <1>0, <2>3, <2>4, <2>5, <2>7, <2>8 DEF Booked
  <2>. QED BY <2>9, Balance
<1>. QED BY <1>7, <1>8

\* free_block: the neighbours it absorbs were cached and split, hence inactive; the
\* block they become with the freed one is inactive if it is still split.
LEMMA FreeBooked ==
  ASSUME IInv, Measured, Measured', Recorded, NEW u, NEW STATE b, Freeable(u, b),
         free_block(u, b), total' = total
  PROVE  Recorded'
<1>0. PICK p, n, lo, M : p = MergePrev(b) /\ n = MergeNext(b) /\ lo = Low(u, b) /\ M = Merged(u, b)
  OBVIOUS
<1>1. PICK P, Q : P = {p} \ {0} /\ Q = {n} \ {0}
  OBVIOUS
<1>. DEFINE psize == IF p # 0 THEN block[p].size ELSE 0
            nsize == IF n # 0 THEN block[n].size ELSE 0
            size == b.size + psize + nsize
            merged == Linking(b, size, BeforeLow(b), AfterHigh(b))
            split == is_split(merged)
            J2 == IF split THEN {lo} ELSE {}
<1>2. FreeShape(u, b)
  BY FreeBlockShape
<1>3. /\ p # 0 => p \in cached /\ p \in Blocks /\ block[p].next = u /\ p + block[p].size = u
      /\ n # 0 => n \in cached /\ n \in Blocks /\ block[n].prev = u /\ u + block[u].size = n
      /\ u \in Nat /\ u > 0 /\ block[u].size \in Nat /\ block[u].size > 0
      /\ u \in Blocks /\ u \notin cached /\ b.size = block[u].size
  BY <1>0, MergeShape DEF Freeable
<1>4. /\ cached \subseteq Units /\ \A a \in Units : a > 0 /\ a \in Nat
      /\ \A a \in Blocks : a \in Units /\ block[a].size \in Nat /\ block[a].size > 0
  BY Types
<1>5. /\ P \subseteq Blocks /\ Q \subseteq Blocks /\ P \cap Q = {} /\ u \notin P \cup Q
      /\ M = {u} \cup (P \cup Q) /\ 0 \notin M
  BY <1>0, <1>1, <1>3, <1>4 DEF Merged
<1>6. /\ psize \in Nat /\ nsize \in Nat
      /\ p # 0 => psize = block[p].size /\ P = {p} /\ p \in Blocks
      /\ p = 0 => psize = 0 /\ P = {}
      /\ n # 0 => nsize = block[n].size /\ Q = {n} /\ n \in Blocks
      /\ n = 0 => nsize = 0 /\ Q = {}
  BY <1>1, <1>3, <1>4
<1>7. stats' = [inactive_split |->
                  stats.inactive_split
                    - ((IF p # 0 THEN 1 ELSE 0) + (IF n # 0 THEN 1 ELSE 0))
                    + (IF split THEN 1 ELSE 0),
                inactive_split_bytes |->
                  stats.inactive_split_bytes - psize - nsize
                    + (IF split THEN merged.size ELSE 0)]
  BY <1>0 DEF free_block, MergePrev, MergeNext, Low, BeforeLow, AfterHigh
<1>8. /\ block'[lo] = merged /\ lo \in Blocks'
      /\ Blocks' = (Blocks \ M) \cup {lo} /\ cached' = (cached \ M) \cup {lo}
      /\ lo \in M /\ M \subseteq Blocks /\ AfterHigh(b) \notin cached
      /\ \A a \in Blocks \ M : block'[a] = IF a = AfterHigh(b)
           THEN Linking(block[a], block[a].size, lo, block[a].next) ELSE block[a]
  <2>1. High(u, b) - lo = size
    <3>1. p # 0 => lo = p
      BY <1>0 DEF Low
    <3>2. p = 0 => lo = u
      BY <1>0 DEF Low
    <3>3. High(u, b) = IF n # 0 THEN n + block[n].size ELSE u + block[u].size
      BY <1>0 DEF High
    <3>. QED BY <3>1, <3>2, <3>3, <1>3, <1>4
  <2>. QED BY <2>1, <1>0, <1>2 DEF FreeShape
<1>9. merged.size = size /\ size \in Nat
  BY <1>3, <1>6 DEF Linking
<1>. HIDE DEF psize, nsize, size, merged, split
<1>10. /\ SumOf(Sizes, P) = psize /\ SumOf(Sizes, Q) = nsize
       /\ Cardinality(P) = (IF p # 0 THEN 1 ELSE 0) /\ Cardinality(Q) = (IF n # 0 THEN 1 ELSE 0)
  BY <1>6, SumOfNone, FS_Singleton DEF Measured
<1>11. /\ SumOf(Sizes, P \cup Q) = psize + nsize
       /\ Cardinality(P \cup Q) = (IF p # 0 THEN 1 ELSE 0) + (IF n # 0 THEN 1 ELSE 0)
  <2>1. TwoOf(NumUnits, Sizes, Blocks, P, Q)
    BY <1>5 DEF TwoOf, Measured
  <2>2. /\ SumOf(Sizes, P) \in Nat /\ SumOf(Sizes, Q) \in Nat
        /\ SumOf(Sizes, P \cup Q) = SumOf(Sizes, P) + SumOf(Sizes, Q)
        /\ Cardinality(P) \in Nat /\ Cardinality(Q) \in Nat
        /\ Cardinality(P \cup Q) = Cardinality(P) + Cardinality(Q)
    BY <2>1, SumAdds
  <2>. QED BY <2>2, <1>10
<1>12. SumOf(Sizes, M) = size
  <2>1. TwoOf(NumUnits, Sizes, Blocks, {u}, P \cup Q)
    BY <1>3, <1>5 DEF TwoOf, Measured
  <2>2. SumOf(Sizes, {u} \cup (P \cup Q)) = SumOf(Sizes, {u}) + SumOf(Sizes, P \cup Q)
    BY <2>1, SumAdds
  <2>3. SumOf(Sizes, {u}) = b.size
    BY <1>3 DEF Measured
  <2>. QED BY <2>2, <2>3, <1>3, <1>5, <1>6, <1>11 DEF size
<1>13. SumOf(Sizes', {lo}) = size
  BY <1>8, <1>9 DEF Measured
<1>14. P \cup Q = Inactive \cap M
  <2>1. \A a \in P \cup Q : a \in Inactive
    BY <1>3, <1>6 DEF Inactive, is_split
  <2>2. u \notin Inactive
    BY <1>3 DEF Inactive
  <2>. QED BY <2>1, <2>2, <1>5
<1>15. J2 = Inactive' \cap {lo}
  BY <1>8 DEF Inactive, is_split, split
<1>16. \A a \in Blocks \ M : block'[a].size = block[a].size /\ (a \in Inactive' <=> a \in Inactive)
  <2>. SUFFICES ASSUME NEW a \in Blocks \ M
                PROVE  block'[a].size = block[a].size /\ (a \in Inactive' <=> a \in Inactive)
    OBVIOUS
  <2>1. a \in cached' <=> a \in cached
    BY <1>8
  <2>2. CASE a = AfterHigh(b)
    <3>1. block'[a].size = block[a].size
      <4>1. block'[a] = Linking(block[a], block[a].size, lo, block[a].next)
        BY <2>2, <1>8
      <4>. QED BY <4>1 DEF Linking
    <3>2. a \notin cached
      BY <2>2, <1>8
    <3>. QED BY <2>1, <3>1, <3>2 DEF Inactive
  <2>3. CASE a # AfterHigh(b)
    BY <2>1, <2>3, <1>8 DEF Inactive, is_split
  <2>. QED BY <2>2, <2>3
<1>17. /\ stats.inactive_split \in Int /\ stats.inactive_split_bytes \in Int /\ total \in Int
  <2>1. TwoOf(NumUnits, Sizes, Blocks, Blocks, {})
    BY DEF TwoOf, Measured
  <2>2. SumOf(Sizes, Blocks) \in Nat
    BY <2>1, SumAdds
  <2>. QED BY <2>2 DEF IInv, TypeOK, Recorded
<1>18. /\ Cardinality(J2) = (IF split THEN 1 ELSE 0)
       /\ SumOf(Sizes', J2) = (IF split THEN size ELSE 0)
  BY <1>13, SumOfNone, FS_Singleton
<1>. HIDE DEF J2
<1>19. total' = total - SumOf(Sizes, M) + SumOf(Sizes', {lo})
  BY <1>9, <1>12, <1>13, <1>17
<1>20. /\ stats'.inactive_split = stats.inactive_split - Cardinality(P \cup Q) + Cardinality(J2)
       /\ stats'.inactive_split_bytes
            = stats.inactive_split_bytes - SumOf(Sizes, P \cup Q) + SumOf(Sizes', J2)
  <2>1. stats'.inactive_split
          = stats.inactive_split
              - ((IF p # 0 THEN 1 ELSE 0) + (IF n # 0 THEN 1 ELSE 0)) + (IF split THEN 1 ELSE 0)
    BY <1>7
  <2>2. stats'.inactive_split_bytes
          = stats.inactive_split_bytes - psize - nsize + (IF split THEN size ELSE 0)
    BY <1>7, <1>9
  <2>3. stats.inactive_split_bytes - psize - nsize = stats.inactive_split_bytes - (psize + nsize)
    BY <1>6, <1>17
  <2>. QED BY <2>1, <2>2, <2>3, <1>11, <1>18
<1>21. Booked(M, {lo}, P \cup Q, J2)
  BY <1>8, <1>14, <1>15, <1>16, <1>19, <1>20 DEF Booked
<1>. QED BY <1>21, Balance

\* Each kind of step keeps the statistics.
LEMMA FreeRecorded ==
  ASSUME IInv, Measured, Measured', Recorded, NEW u \in Blocks, block[u].allocated, free(u),
         total' = total
  PROVE  Recorded'
<1>1. CASE insert_events(u)
  <2>1. /\ block' = [block EXCEPT ![u] = Marking(block[u], FALSE, {},
                       block[u].event_count + Cardinality(block[u].stream_uses))]
        /\ cached' = cached /\ stats' = stats
    BY <1>1 DEF insert_events
  <2>2. block \in [Units -> Block]
    BY Types
  <2>3. \A a \in Units : /\ block'[a].size = block[a].size
                         /\ block'[a].prev = block[a].prev /\ block'[a].next = block[a].next
    BY <2>1, <2>2 DEF Marking
  <2>. QED BY <2>1, <2>3, SameBooked
<1>2. CASE /\ block[u].stream_uses = {}
           /\ free_block(u, Marking(block[u], FALSE, block[u].stream_uses, block[u].event_count))
  <2>. DEFINE b == Marking(block[u], FALSE, block[u].stream_uses, block[u].event_count)
  <2>1. Freeable(u, b) /\ free_block(u, b)
    BY <1>2, FreeReady
  <2>. HIDE DEF b
  <2>. QED BY <2>1, FreeBooked
<1>. QED BY <1>1, <1>2 DEF free

LEMMA PopRecorded ==
  ASSUME IInv, Measured, Measured', Recorded, NEW s \in Streams, NEW u \in Units,
         pop_event(s, u), total' = total
  PROVE  Recorded'
<1>. DEFINE b == Marking(block[u], block[u].allocated, block[u].stream_uses,
                         block[u].event_count - 1)
<1>1. b.event_count = block[u].event_count - 1
  BY DEF Marking
<1>2. CASE b.event_count = 0 /\ free_block(u, b)
  <2>1. musa_events[s][u] = 0
    BY DEF pop_event
  <2>2. Freeable(u, b) /\ free_block(u, b)
    BY <1>1, <1>2, <2>1, PopReady
  <2>. HIDE DEF b
  <2>. QED BY <2>2, FreeBooked
<1>3. CASE block' = [block EXCEPT ![u] = b] /\ UNCHANGED <<cached, active, stats>>
  <2>1. block \in [Units -> Block]
    BY Types
  <2>2. \A a \in Units : /\ block'[a].size = block[a].size
                         /\ block'[a].prev = block[a].prev /\ block'[a].next = block[a].next
    BY <1>3, <2>1 DEF Marking
  <2>. QED BY <1>3, <2>2, SameBooked
<1>. QED BY <1>2, <1>3 DEF pop_event

LEMMA SearchRecorded ==
  ASSUME IInv, Measured, Measured', Recorded, NEW t \in Threads,
         NEW where \in {"process_events", "callbacks"}, NEW next, Search(t, where, next)
  PROVE  Recorded'
<1>1. total' = total
  BY DEF Search, driverVars
<1>2. CASE UNCHANGED blockVars
  BY <1>1, <1>2, SameBooked DEF blockVars
<1>3. CASE \E u \in cached : /\ get_free_block(call[t].stream, call[t].size, u)
                             /\ alloc_found_block(u, block[u], call[t].size)
  <2>1. PICK u \in cached : /\ get_free_block(call[t].stream, call[t].size, u)
                            /\ alloc_found_block(u, block[u], call[t].size)
    BY <1>3
  <2>2. call[t].size \in Requests /\ call[t].stream \in Streams
    BY DEF IInv, CallOK, Search, Locked
  <2>3. call[t].size \in Nat /\ call[t].size > 0
    <3>1. \A n \in Requests : n \in Nat /\ n > 0
      BY SizeAssumption
    <3>. QED BY <2>2, <3>1
  <2>4. PICK n, s : n = call[t].size /\ s = call[t].stream
    OBVIOUS
  <2>5. PICK p \in Settled : Allocatable(u, block[u], n, p, Settled)
    BY <2>1, <2>2, <2>3, <2>4, FromPool
  <2>6. PICK S, b : S = Settled /\ b = block[u]
    OBVIOUS
  <2>7. Allocatable(u, b, n, p, S) /\ alloc_found_block(u, b, n)
    BY <2>1, <2>4, <2>5, <2>6
  <2>8. u \in Blocks
    BY CachedQuiet
  <2>9. total' = IF u \in Blocks THEN total ELSE total + b.size
    BY <1>1, <2>8
  <2>. QED BY <2>7, <2>8, <2>9, AllocBooked
<1>. QED BY <1>2, <1>3 DEF Search

LEMMA AfterMusaMallocRecorded ==
  ASSUME IInv, Measured, Measured', Recorded, NEW t \in Threads, AfterMusaMalloc(t)
  PROVE  Recorded'
<1>1. CASE UNCHANGED <<blockVars, total>>
  BY <1>1, SameBooked DEF blockVars
<1>2. CASE /\ call[t].ptr # 0
           /\ total' = total + get_allocation_size(call[t].size)
           /\ alloc_found_block(call[t].ptr,
                NewBlock(get_allocation_size(call[t].size), call[t].stream,
                         is_small(call[t].size)), call[t].size)
  <2>1. PICK u, n : u = call[t].ptr /\ n = call[t].size
    OBVIOUS
  <2>2. PICK S : S = Settled \cup {u}
    OBVIOUS
  <2>. DEFINE b == NewBlock(get_allocation_size(call[t].size), call[t].stream,
                            is_small(call[t].size))
  <2>3. Allocatable(u, b, n, u, S) /\ InSegment(u, b, n, u, S) /\ u \notin Settled
    BY <1>2, <2>1, <2>2, FromDriver
  <2>4. alloc_found_block(u, b, n)
    BY <1>2, <2>1
  <2>5. ~is_split(b) /\ b.size = get_allocation_size(call[t].size)
    BY DEF NewBlock, is_split
  <2>. HIDE DEF b
  <2>6. u \notin Blocks
    <3>1. u \in Blocks => u \in cached /\ ~is_split(block[u])
      BY <2>3, <2>5 DEF Allocatable
    <3>. QED BY <2>3, <3>1, WholeSegment DEF is_split
  <2>7. total' = IF u \in Blocks THEN total ELSE total + b.size
    BY <1>2, <2>5, <2>6
  <2>. QED BY <2>3, <2>4, <2>5, <2>7, AllocBooked
<1>. QED BY <1>1, <1>2 DEF AfterMusaMalloc

LEMMA ReleaseRecorded ==
  ASSUME IInv, Measured, Measured', Recorded, NEW t \in Threads,
         GarbageCollect(t) \/ ReleaseAvailable(t) \/ ReleaseCachedBlocks(t)
  PROVE  Recorded'
<1>1. CASE \E R \in SUBSET cached : (\A u \in R : ~is_split(block[u])) /\ release_blocks(R)
  BY <1>1, ReleaseBooked
<1>2. CASE UNCHANGED <<blockVars, driverVars>>
  BY <1>2, SameBooked DEF blockVars, driverVars
<1>3. CASE GarbageCollect(t)
  BY <1>1, <1>2, <1>3 DEF GarbageCollect
<1>4. CASE ReleaseCachedBlocks(t)
  BY <1>1, <1>4 DEF ReleaseCachedBlocks
<1>5. CASE ReleaseAvailable(t)
  <2>1. PICK pool : pool = SamePool(call[t].stream, call[t].size) /\ pool \subseteq cached
    BY DEF SamePool
  <2>2. PICK key : key = IF call[t].size < MaxSplitSize THEN MaxSplitSize ELSE call[t].size
    OBVIOUS
  <2>3. \/ \E u \in pool : lower_bound(pool, key, u) /\ release_blocks({u})
        \/ \E R \in SUBSET {u \in pool : block[u].size >= MaxSplitSize} : release_blocks(R)
    BY <1>5, <2>1, <2>2 DEF ReleaseAvailable
  <2>4. CASE \E u \in pool : lower_bound(pool, key, u) /\ release_blocks({u})
    <3>1. PICK u \in pool : lower_bound(pool, key, u) /\ release_blocks({u})
      BY <2>4
    <3>2. block[u].size >= MaxSplitSize
      <4>1. block[u].size >= key /\ block[u].size \in Nat
        BY <2>1, <3>1, Types DEF lower_bound
      <4>2. call[t].size \in Requests \cup {0}
        BY DEF IInv, TypeOK
      <4>3. MaxSplitSize \in Nat /\ \A n \in Requests : n \in Nat
        BY SizeAssumption
      <4>4. call[t].size \in Nat
        BY <4>2, <4>3
      <4>. QED BY <2>2, <4>1, <4>3, <4>4
    <3>3. {u} \in SUBSET cached /\ \A v \in {u} : ~is_split(block[v])
      BY <2>1, <3>2, OversizeWhole
    <3>. QED BY <1>1, <3>1, <3>3
  <2>5. CASE \E R \in SUBSET {u \in pool : block[u].size >= MaxSplitSize} : release_blocks(R)
    BY <1>1, <2>1, <2>5, OversizeWhole
  <2>. QED BY <2>3, <2>4, <2>5
<1>. QED BY <1>3, <1>4, <1>5

LEMMA StatsStep ==
  ASSUME IInv, Measured, Measured', Recorded, [Next]_vars
  PROVE  Recorded'
<1>1. CASE UNCHANGED <<block, cached, stats, total>>
  BY <1>1, SameBooked
<1>2. ASSUME NEW t \in Threads, NEW u \in Units, Free(t, u) \/ FreeMemoryCallback(t, u)
      PROVE  Recorded'
  BY <1>2, FreeRecorded DEF Free, FreeMemoryCallback, driverVars
<1>3. ASSUME NEW t \in Threads, NEW u \in Units, NEW s \in Streams, RecordStream(t, u, s)
      PROVE  Recorded'
  <2>1. /\ block' = [block EXCEPT ![u] =
                       Marking(block[u], TRUE, block[u].stream_uses \cup {s}, block[u].event_count)]
        /\ cached' = cached /\ stats' = stats /\ total' = total
    BY <1>3 DEF RecordStream, driverVars
  <2>2. block \in [Units -> Block]
    BY Types
  <2>3. \A a \in Units : /\ block'[a].size = block[a].size
                         /\ block'[a].prev = block[a].prev /\ block'[a].next = block[a].next
    BY <2>1, <2>2 DEF Marking
  <2>. QED BY <2>1, <2>3, SameBooked
<1>4. ASSUME NEW t \in Threads, NEW s \in Streams, ProcessEvents(t, s) PROVE Recorded'
  <2>1. total' = total
    BY <1>4 DEF ProcessEvents, driverVars
  <2>2. CASE \E u \in Units : pop_event(s, u)
    BY <2>1, <2>2, PopRecorded
  <2>3. CASE UNCHANGED blockVars
    BY <1>1, <2>1, <2>3 DEF blockVars
  <2>. QED BY <1>4, <2>2, <2>3 DEF ProcessEvents
<1>5. ASSUME NEW t \in Threads, GetFreeBlock(t) \/ GetFreeBlockRetry(t) PROVE Recorded'
  BY <1>5, SearchRecorded DEF GetFreeBlock, GetFreeBlockRetry
<1>6. ASSUME NEW t \in Threads, NEW s \in Streams, NEW u \in Units, SynchronizeEvent(t, s, u)
      PROVE  Recorded'
  BY <1>6, PopRecorded DEF SynchronizeEvent, driverVars
<1>7. ASSUME NEW t \in Threads, AllocBlock(t) \/ MusaMalloc(t) \/ EmptyCache(t) PROVE Recorded'
  BY <1>1, <1>7 DEF AllocBlock, MusaMalloc, EmptyCache, blockVars, driverVars
<1>8. ASSUME NEW t \in Threads, NEW s \in Streams, NEW n \in Requests, Malloc(t, s, n)
      PROVE  Recorded'
  BY <1>1, <1>8 DEF Malloc, blockVars, driverVars
<1>9. ASSUME NEW s \in Streams, Complete(s) \/ \E u \in Units : Launch(s, u) PROVE Recorded'
  BY <1>1, <1>9 DEF Complete, Launch, blockVars, driverVars
<1>10. CASE UNCHANGED vars
  BY <1>1, <1>10 DEF vars, blockVars, driverVars
<1>11. ASSUME NEW t \in Threads, CallStep(t) PROVE Recorded'
  BY <1>2, <1>4, <1>5, <1>6, <1>7, <1>11, ReleaseRecorded, AfterMusaMallocRecorded DEF CallStep
<1>. QED BY <1>2, <1>3, <1>7, <1>8, <1>9, <1>10, <1>11 DEF Next

\* The bytes obtained from the driver, and the number and the bytes of the split
\* blocks in the pools, which every call adjusts by what it does, are at any time
\* those of the blocks there are.
THEOREM StatisticsMatch == Spec => []StatsMatch
<1>1. IInv => Measured
  BY BlocksApart DEF Measured
<1>2. Measured => (StatsMatch <=> Recorded)
  BY RecordedIs
<1>3. Init => Recorded
  <2>. SUFFICES ASSUME Init PROVE Recorded
    OBVIOUS
  <2>1. Blocks = {} /\ Inactive = {}
    BY DEF Init, Blocks, NoBlock, Inactive
  <2>. QED BY <2>1, SumOfNone DEF Init, Recorded
<1>4. IInv /\ Measured /\ Measured' /\ Recorded /\ [Next]_vars => Recorded'
  BY StatsStep
<1>. QED BY <1>1, <1>2, <1>3, <1>4, Invariance, PTL DEF Spec

=============================================================================
