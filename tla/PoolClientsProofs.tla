-------------------------- MODULE PoolClientsProofs --------------------------
(***************************************************************************)
(* Proofs about the pool and its callers, for every mix of calls, every    *)
(* size of a dl_array or dl_list and mallocs that fail anywhere: the pool  *)
(* is an allocator whose last block can grow and shrink, and what is       *)
(* pushed to an array or a list stays there.                               *)
(***************************************************************************)
EXTENDS PoolClients, PoolProofs

-------------------------------------------------------------------------------
(* Steps of the callers' blocks, and how many there are.                     *)

Tallied(L, n) == IsFiniteSet(L) /\ n = Cardinality(L)

\* Blocks that nobody held before, each as long as asked for.
NewOnes(L, B) == IsFiniteSet(B) /\ B \cap L = {} /\ \A b \in B : b.want = b.len

AllApart(L) == \A b, c \in L : b # c => Apart(b, c)

\* What an allocator may do, or nothing.
AllocatorStep == A!Grant \/ A!Extend \/ A!ReleaseSome \/ UNCHANGED <<live, held>>

\* The instance counts as this module does.
LEMMA SameCardinality == \A S : A!Cardinality(S) = Cardinality(S)
BY DEF A!Cardinality, Cardinality

\* A call gives blocks.
LEMMA GiveStep ==
    ASSUME Tallied(live, held), NEW B, Give(B), NewOnes(live, B), live \subseteq Extent,
           B \subseteq Extent, AllApart(live')
    PROVE  Tallied(live', held') /\ AllocatorStep
<1>1. live' = live \cup B /\ held' = held + Cardinality(B)
  BY DEF Give
<1>2. /\ IsFiniteSet(live) /\ held = Cardinality(live)
      /\ IsFiniteSet(B) /\ B \cap live = {}
  BY DEF Tallied, NewOnes
<1>3. Cardinality(B) \in Nat /\ Cardinality(live) \in Nat
  BY <1>2, FS_CardinalityType
<1>4. live \cap B = {} /\ Cardinality(live \cap B) = 0
  BY <1>2, FS_EmptySet
<1>5. IsFiniteSet(live') /\ Cardinality(live') = held + Cardinality(B)
  <2>1. IsFiniteSet(live \cup B)
        /\ Cardinality(live \cup B) = Cardinality(live) + Cardinality(B) - Cardinality(live \cap B)
    BY <1>2, FS_Union
  <2> QED
    BY <1>1, <1>2, <1>3, <1>4, <2>1
<1>6. Tallied(live', held')
  BY <1>1, <1>5 DEF Tallied
<1>7. CASE B = {}
  <2>1. Cardinality(B) = 0
    BY <1>7, FS_EmptySet
  <2>2. held + 0 = held
    BY <1>2, <1>3
  <2>3. live' = live /\ held' = held
    BY <1>1, <1>7, <2>1, <2>2
  <2> QED
    BY <1>6, <2>3 DEF AllocatorStep
<1>8. CASE B # {}
  <2>1. live' \ live = B /\ live \subseteq live'
    BY <1>1, <1>2
  <2>2. ASSUME NEW b \in B PROVE b.want <= b.len
    <3>1. b \in Extent /\ b.want = b.len
      BY DEF NewOnes
    <3>2. b.len \in Nat
      BY <3>1 DEF Extent
    <3> QED
      BY <3>1, <3>2
  <2>3. \A b \in B, c \in live' : c # b => A!Disjoint(b, c)
    BY <1>1 DEF AllApart, Apart, A!Disjoint
  <2>4. A!Grant
    BY <1>1, <1>8, <2>1, <2>2, <2>3, SameCardinality DEF A!Grant
  <2> QED
    BY <1>6, <2>4 DEF AllocatorStep
<1> QED
  BY <1>7, <1>8

\* Blocks go back.
LEMMA TakeStep ==
    ASSUME Tallied(live, held), NEW B, B \subseteq live,
           live' = live \ B, held' = held - Cardinality(B)
    PROVE  Tallied(live', held') /\ AllocatorStep
<1>1. IsFiniteSet(live) /\ held = Cardinality(live) /\ Cardinality(live) \in Nat
  BY FS_CardinalityType DEF Tallied
<1>2. live \cap B = B /\ live \ live' = B /\ live' \subseteq live
  <2>1. live \cap B = B /\ live \ (live \ B) = B /\ live \ B \subseteq live
    OBVIOUS
  <2> QED
    BY <2>1
<1>3. IsFiniteSet(live \ B) /\ Cardinality(live \ B) = Cardinality(live) - Cardinality(live \cap B)
  BY <1>1, FS_Difference
<1>4. Tallied(live', held')
  BY <1>1, <1>2, <1>3 DEF Tallied
<1>5. A!ReleaseSome
  BY <1>2, SameCardinality DEF A!ReleaseSome
<1> QED
  BY <1>4, <1>5 DEF AllocatorStep

\* All blocks go back.
LEMMA EndStep ==
    ASSUME Tallied(live, held), live' = {}, held' = 0
    PROVE  Tallied(live', held') /\ AllocatorStep
<1>1. IsFiniteSet(live) /\ held = Cardinality(live) /\ Cardinality(live) \in Nat
  BY FS_CardinalityType DEF Tallied
<1>2. live' = live \ live /\ held' = held - Cardinality(live)
  BY <1>1
<1> QED
  BY <1>2, TakeStep

\* A block grows where it lies.
LEMMA GrowStep ==
    ASSUME Tallied(live, held), live \subseteq Extent, NEW b \in live, NEW c \in Extent,
           c.at = b.at, b.len < c.len, c.want = c.len, c \notin live,
           live' = (live \ {b}) \cup {c}, held' = held, AllApart(live')
    PROVE  Tallied(live', held') /\ AllocatorStep
<1>1. IsFiniteSet(live) /\ held = Cardinality(live) /\ Cardinality(live) \in Nat
  BY FS_CardinalityType DEF Tallied
<1>2. IsFiniteSet(live \ {b}) /\ Cardinality(live \ {b}) = Cardinality(live) - 1
  BY <1>1, FS_RemoveElement
<1>3. /\ IsFiniteSet((live \ {b}) \cup {c})
      /\ Cardinality((live \ {b}) \cup {c}) = Cardinality(live \ {b}) + 1
  <2>1. c \notin live \ {b}
    OBVIOUS
  <2> QED
    BY <1>2, <2>1, FS_AddElement
<1>4. Tallied(live', held')
  <2>1. Cardinality(live') = held
    BY <1>1, <1>2, <1>3
  <2> QED
    BY <1>3, <2>1 DEF Tallied
<1>5. A!Extend
  <2>1. c \in live' \ live /\ c.want <= c.len /\ c.len > b.len
    BY DEF Extent
  <2>2. \A d \in live \ {b} : A!Disjoint(c, d)
    BY DEF AllApart, Apart, A!Disjoint
  <2> QED
    BY <2>1, <2>2 DEF A!Extend
<1> QED
  BY <1>4, <1>5 DEF AllocatorStep

-------------------------------------------------------------------------------
(* d.last of the first block, moved behind the pool's back.                  *)

\* pool->d.last = x
LastSet(p, x) == [p EXCEPT !.chain[1].last = x]

\* Only d.last of the first block changes.
LEMMA LastSetIs ==
    ASSUME NEW p \in PoolType, 1 \in ChainIdx(p), NEW x \in Nat, NEW q, q = LastSet(p, x)
    PROVE  /\ q \in PoolType /\ ChainIdx(q) = ChainIdx(p) /\ LargeIdx(q) = LargeIdx(p)
           /\ Len(q.chain) = Len(p.chain)
           /\ q.max = p.max /\ q.current = p.current /\ q.large = p.large /\ q.cleanup = p.cleanup
           /\ q.chain[1].last = x
           /\ \A j \in ChainIdx(p) : /\ q.chain[j].base = p.chain[j].base
                                     /\ q.chain[j].end = p.chain[j].end
                                     /\ q.chain[j].failed = p.chain[j].failed
                                     /\ j # 1 => q.chain[j] = p.chain[j]
<1> DEFINE c == [p.chain[1] EXCEPT !.last = x]
           d == [p.chain EXCEPT ![1] = c]
<1>1. p.chain \in Seq(ChainBlock) /\ 1 \in DOMAIN p.chain /\ p.chain[1] \in ChainBlock
  BY DEF PoolType, ChainIdx
<1>2. c \in ChainBlock /\ c.base = p.chain[1].base /\ c.end = p.chain[1].end
      /\ c.last = x /\ c.failed = p.chain[1].failed
  BY <1>1 DEF ChainBlock
<1>3. q = [p EXCEPT !.chain = d]
  BY DEF LastSet
<1> HIDE DEF c
<1>4. d \in Seq(ChainBlock) /\ Len(d) = Len(p.chain)
  BY <1>1, <1>2
<1>5. d[1] = c /\ \A j \in ChainIdx(p) : j # 1 => d[j] = p.chain[j]
  BY <1>1 DEF ChainIdx
<1> HIDE DEF d
<1>6. /\ q \in PoolType /\ q.chain = d
      /\ q.max = p.max /\ q.current = p.current /\ q.large = p.large /\ q.cleanup = p.cleanup
  BY <1>3, <1>4 DEF PoolType
<1>7. ChainIdx(q) = ChainIdx(p) /\ LargeIdx(q) = LargeIdx(p) /\ Len(q.chain) = Len(p.chain)
  BY <1>4, <1>6 DEF ChainIdx, LargeIdx
<1>8. ASSUME NEW j \in ChainIdx(p)
      PROVE  /\ q.chain[j].base = p.chain[j].base /\ q.chain[j].end = p.chain[j].end
             /\ q.chain[j].failed = p.chain[j].failed /\ (j # 1 => q.chain[j] = p.chain[j])
  BY <1>2, <1>5, <1>6
<1> QED
  BY <1>2, <1>5, <1>6, <1>7, <1>8

\* Moved twice is moved to where it came at last.
LEMMA LastSetTwice ==
    ASSUME NEW p \in PoolType, 1 \in ChainIdx(p), NEW x, NEW y
    PROVE  LastSet(LastSet(p, x), y) = LastSet(p, y)
<1> DEFINE c == p.chain[1]
           d == p.chain
           put(v) == [c EXCEPT !.last = v]
<1>1. d \in Seq(ChainBlock) /\ 1 \in DOMAIN d /\ c \in ChainBlock
  BY DEF PoolType, ChainIdx
<1>2. [put(x) EXCEPT !.last = y] = put(y)
  <2> HIDE DEF c
  <2> QED
    BY <1>1 DEF ChainBlock
<1>3. [[d EXCEPT ![1] = put(x)] EXCEPT ![1] = put(y)] = [d EXCEPT ![1] = put(y)]
  <2> HIDE DEF d, put
  <2> QED
    BY <1>1
<1>4. [d EXCEPT ![1] = put(x)][1] = put(x)
  <2> HIDE DEF put
  <2> QED
    BY <1>1
<1>5. ASSUME NEW e, NEW f
      PROVE  [[p EXCEPT !.chain = e] EXCEPT !.chain = f] = [p EXCEPT !.chain = f]
             /\ [p EXCEPT !.chain = e].chain = e
  BY DEF PoolType
<1>6. \A v : LastSet(p, v) = [p EXCEPT !.chain = [d EXCEPT ![1] = put(v)]]
  BY DEF LastSet
<1> DEFINE r == LastSet(p, x)
           e == [d EXCEPT ![1] = put(x)]
           f == [d EXCEPT ![1] = put(y)]
<1>7. r = [p EXCEPT !.chain = e]
  BY <1>6
<1>8. LastSet(r, y) = [r EXCEPT !.chain = [r.chain EXCEPT ![1] = [r.chain[1] EXCEPT !.last = y]]]
  BY DEF LastSet
<1>9. r.chain = e
  <2> HIDE DEF e, r
  <2> QED
    BY <1>5, <1>7
<1>10. LastSet(r, y) = [r EXCEPT !.chain = f]
  <2>1. [r.chain EXCEPT ![1] = [r.chain[1] EXCEPT !.last = y]] = f
    <3> HIDE DEF r, put, c, d
    <3> QED
      BY <1>2, <1>3, <1>4, <1>9
  <2> QED
    BY <1>8, <2>1
<1>11. [r EXCEPT !.chain = f] = [p EXCEPT !.chain = f]
  <2> HIDE DEF e, f, r
  <2> QED
    BY <1>5, <1>7
<1> QED
  BY <1>6, <1>10, <1>11

\* The first block of a pool.
LEMMA FirstBlock ==
    ASSUME NEW p, NEW h, NEW L, NEW T, Kept(p, h, L, T)
    PROVE  /\ p \in PoolType /\ BlocksOK(p) /\ 1 \in ChainIdx(p) /\ L \subseteq Extent
           /\ LET c == p.chain[1]
              IN  /\ c.base \in Starts /\ {c.base, c.last, c.end} \subseteq Nat
                  /\ c.end <= c.base + RegionSize
                  /\ c.base + HeaderSize <= c.last /\ c.last <= c.end
<1>1. p \in PoolType /\ BlocksOK(p) /\ L \subseteq Extent
  BY DEF Kept
<1>2. 1 \in ChainIdx(p)
  <2>1. p.current \in 1 .. Len(p.chain) /\ Len(p.chain) \in Nat
    BY <1>1 DEF BlocksOK, ChainIdx, PoolType
  <2> QED
    BY <2>1 DEF ChainIdx
<1> DEFINE c == p.chain[1]
<1>3. /\ c \in ChainBlock /\ c.base \in Starts /\ c.end <= c.base + RegionSize
      /\ c.base + HeaderSize <= c.last /\ c.last <= c.end
  BY <1>1, <1>2, BlockFacts
<1> HIDE DEF c
<1>4. {c.base, c.last, c.end} \subseteq Nat
  BY <1>3 DEF ChainBlock
<1> QED
  BY <1>1, <1>2, <1>3, <1>4 DEF c

\* A block that ends at d.last of the first block lies in the first block.
LEMMA EndsInFirst ==
    ASSUME NEW p, NEW h, NEW L, NEW T, Kept(p, h, L, T), NEW b \in L,
           b.at + b.len = p.chain[1].last
    PROVE  p.chain[1].base + HeaderSize <= b.at
<1> DEFINE c == p.chain[1]
<1>1. /\ p \in PoolType /\ BlocksOK(p) /\ RegionsOK(p, h, T) /\ 1 \in ChainIdx(p)
      /\ c.base \in Starts /\ {c.base, c.last, c.end} \subseteq Nat
      /\ c.end <= c.base + RegionSize
      /\ c.base + HeaderSize <= c.last /\ c.last <= c.end
  BY FirstBlock DEF Kept
<1>2. b.at \in Nat /\ b.len \in Nat \ {0} /\ b.at + b.len = c.last
  BY FirstBlock DEF Extent
<1>3. InBlock(p, b) \/ Alone(p, b)
  BY DEF Kept, ExtentsOK
<1>4. ASSUME NEW a \in Starts, a # c.base, a <= b.at, b.at + b.len <= a + RegionSize
      PROVE  FALSE
  <2>1. a + RegionSize <= c.base \/ c.base + RegionSize <= a
    BY <1>1, <1>4, StartsDiffer
  <2>2. a \in Nat
    BY StartFacts
  <2> DEFINE at == b.at
             len == b.len
             base == c.base
             last == c.last
             end == c.end
  <2>3. /\ at \in Nat /\ len \in Nat \ {0} /\ at + len = last /\ a <= at /\ at + len <= a + RegionSize
        /\ {base, last, end} \subseteq Nat /\ end <= base + RegionSize
        /\ base + HeaderSize <= last /\ last <= end
        /\ (a + RegionSize <= base \/ base + RegionSize <= a)
    BY <1>1, <1>2, <1>4, <2>1
  <2> HIDE DEF at, len, base, last, end
  <2> QED
    BY <2>2, <2>3, Sizings
<1>5. CASE InBlock(p, b)
  <2>1. PICK i \in ChainIdx(p) : /\ p.chain[i].base + HeaderSize <= b.at
                                 /\ b.at + b.len <= p.chain[i].last
    BY <1>5 DEF InBlock
  <2>2. CASE i = 1
    BY <2>1, <2>2
  <2>3. CASE i # 1
    <3> DEFINE e == p.chain[i]
    <3>1. e.base \in Starts /\ e.base # c.base
      BY <1>1, <2>3 DEF RegionsOK, BlocksOK
    <3>2. e \in ChainBlock /\ e.last <= e.end /\ e.end <= e.base + RegionSize
      BY <1>1, BlockFacts
    <3>3. e.base + HeaderSize <= b.at /\ b.at + b.len <= e.last
      BY <2>1
    <3> HIDE DEF e
    <3>4. e.base <= b.at /\ b.at + b.len <= e.base + RegionSize
      BY <1>2, <3>2, <3>3, Sizings DEF ChainBlock
    <3> QED
      BY <1>4, <3>1, <3>4
  <2> QED
    BY <2>2, <2>3
<1>6. CASE Alone(p, b)
  <2>1. PICK k \in LargeIdx(p) : p.large[k].alloc = b.at /\ b.len <= RegionSize
    BY <1>6 DEF Alone
  <2>2. b.at \in Starts /\ b.at # c.base
    BY <1>1, <2>1 DEF RegionsOK, BlocksOK
  <2>3. b.at <= b.at /\ b.at + b.len <= b.at + RegionSize
    BY <1>2, <2>1, Sizings
  <2> QED
    BY <1>4, <2>2, <2>3
<1> QED
  BY <1>3, <1>5, <1>6

\* The block goes back to the room of the first block.
LEMMA ShrinkGood ==
    ASSUME NEW p, NEW h, NEW L, NEW T, Kept(p, h, L, T), NEW b \in L,
           b.at + b.len = p.chain[1].last, NEW q, q = LastSet(p, b.at)
    PROVE  /\ Kept(q, h, L \ {b}, T)
           /\ q.cleanup = p.cleanup
           /\ q.chain[1].last = b.at /\ q.chain[1].end = p.chain[1].end
<1>1. /\ p \in PoolType /\ BlocksOK(p) /\ FailuresOK(p) /\ RegionsOK(p, h, T) /\ ExtentsOK(p, L)
      /\ 1 \in ChainIdx(p) /\ L \subseteq Extent /\ h \subseteq Regions /\ T \subseteq Starts
  BY FirstBlock DEF Kept
<1>2. b.at \in Nat /\ b.len \in Nat \ {0}
  BY <1>1 DEF Extent
<1>3. /\ q \in PoolType /\ ChainIdx(q) = ChainIdx(p) /\ LargeIdx(q) = LargeIdx(p)
      /\ Len(q.chain) = Len(p.chain)
      /\ q.max = p.max /\ q.current = p.current /\ q.large = p.large /\ q.cleanup = p.cleanup
      /\ q.chain[1].last = b.at
  BY <1>1, <1>2, LastSetIs
<1>4. \A j \in ChainIdx(p) : /\ q.chain[j].base = p.chain[j].base
                             /\ q.chain[j].end = p.chain[j].end
                             /\ q.chain[j].failed = p.chain[j].failed
                             /\ j # 1 => q.chain[j] = p.chain[j]
  BY <1>1, <1>2, LastSetIs
<1>5. p.chain[1].base + HeaderSize <= b.at
  BY EndsInFirst
<1>6. b.at <= p.chain[1].end
  <2> DEFINE c == p.chain[1]
  <2>1. {c.last, c.end} \subseteq Nat /\ c.last <= c.end /\ b.at + b.len = c.last
    BY FirstBlock
  <2> HIDE DEF c
  <2>2. b.at <= c.end
    BY <1>2, <2>1
  <2> QED
    BY <2>2 DEF c
<1>7. BlocksOK(q)
  <2>1. \A j \in ChainIdx(p) : /\ q.chain[j].base + HeaderSize <= q.chain[j].last
                               /\ q.chain[j].last <= q.chain[j].end
    BY <1>1, <1>3, <1>4, <1>5, <1>6 DEF BlocksOK
  <2> QED
    BY <1>1, <1>3, <1>4, <2>1 DEF BlocksOK
<1>8. FailuresOK(q)
  BY <1>1, <1>3, <1>4 DEF FailuresOK
<1>9. Owned(q) = Owned(p)
  BY <1>3, <1>4 DEF Owned
<1>10. RegionsOK(q, h, T)
  <2>1. h = {RegionOf(a) : a \in Owned(q) \cup T} /\ Owned(q) \cap T = {}
    BY <1>1, <1>9 DEF RegionsOK
  <2>2. \A j, k \in ChainIdx(q) : j # k => q.chain[j].base # q.chain[k].base
    BY <1>1, <1>3, <1>4 DEF RegionsOK
  <2>3. /\ \A k, l \in LargeIdx(q) : k # l => q.large[k].alloc # q.large[l].alloc
        /\ \A j \in ChainIdx(q), k \in LargeIdx(q) : q.chain[j].base # q.large[k].alloc
    BY <1>1, <1>3, <1>4 DEF RegionsOK
  <2> QED
    BY <2>1, <2>2, <2>3 DEF RegionsOK
<1>11. ASSUME NEW d, d.at \in Nat, d.len \in Nat \ {0}, Apart(b, d), InBlock(p, d)
       PROVE  InBlock(q, d)
  <2>1. PICK i \in ChainIdx(p) : /\ p.chain[i].base + HeaderSize <= d.at
                                 /\ d.at + d.len <= p.chain[i].last
    BY <1>11 DEF InBlock
  <2>2. CASE i # 1
    BY <1>3, <1>4, <2>1, <2>2 DEF InBlock
  <2>3. CASE i = 1
    <3>1. d.at + d.len <= b.at + b.len
      BY <2>1, <2>3
    <3>2. b.at + b.len <= d.at \/ d.at + d.len <= b.at
      BY <1>11 DEF Apart
    <3>3. d.at + d.len <= b.at
      BY <1>2, <1>11, <3>1, <3>2
    <3> QED
      BY <1>3, <1>4, <2>1, <2>3, <3>3 DEF InBlock
  <2> QED
    BY <2>2, <2>3
<1>12. \A k : Record(q, k) = Record(p, k)
  BY <1>3 DEF Record
<1>13. \A d \in L \ {b} : InBlock(q, d) \/ Alone(q, d)
  <2>1. ASSUME NEW d \in L \ {b} PROVE InBlock(q, d) \/ Alone(q, d)
    <3>1. d.at \in Nat /\ d.len \in Nat \ {0}
      BY <1>1 DEF Extent
    <3>2. Apart(b, d) /\ (InBlock(p, d) \/ Alone(p, d))
      BY <1>1 DEF ExtentsOK
    <3>3. Alone(p, d) => Alone(q, d)
      BY <1>3 DEF Alone
    <3> QED
      BY <1>11, <3>1, <3>2, <3>3
  <2> QED
    BY <2>1
<1>14. \A k \in LargeIdx(q) : InBlock(q, Record(q, k))
  <2>1. ASSUME NEW k \in LargeIdx(p) PROVE InBlock(q, Record(p, k))
    <3>1. p.large[k] \in LargeRecord
      BY <1>1 DEF PoolType, LargeIdx
    <3>2. Record(p, k).at \in Nat /\ Record(p, k).len \in Nat \ {0}
      BY <3>1, Sizings DEF Record, Block, LargeRecord
    <3>3. Apart(b, Record(p, k)) /\ InBlock(p, Record(p, k))
      BY <1>1 DEF ExtentsOK
    <3> QED
      BY <1>11, <3>2, <3>3
  <2> QED
    BY <1>3, <1>12, <2>1
<1>15. ExtentsOK(q, L \ {b})
  <2>1. \A d, e \in L \ {b} : d # e => Apart(d, e)
    BY <1>1 DEF ExtentsOK
  <2>2. \A d \in L \ {b}, k \in LargeIdx(q) : Apart(d, Record(q, k))
    BY <1>1, <1>3, <1>12 DEF ExtentsOK
  <2>3. \A k, l \in LargeIdx(q) : k # l => Apart(Record(q, k), Record(q, l))
    BY <1>1, <1>3, <1>12 DEF ExtentsOK
  <2> QED
    BY <1>13, <1>14, <2>1, <2>2, <2>3 DEF ExtentsOK
<1>16. Kept(q, h, L \ {b}, T)
  BY <1>1, <1>3, <1>7, <1>8, <1>10, <1>15 DEF Kept
<1> QED
  BY <1>1, <1>3, <1>4, <1>16

\* Block c takes the place of block b.
Replaced(p, q, h, L, T, b, c) ==
    /\ c \notin L /\ q.cleanup = p.cleanup
    /\ Kept(q, h, (L \ {b}) \cup {c}, T)

\* The block that ends at d.last gets longer.
LEMMA LongerGood ==
    ASSUME NEW p, NEW h, NEW L, NEW T, Kept(p, h, L, T), NEW b \in L,
           b.at + b.len = p.chain[1].last, NEW size \in Nat,
           b.len < size, b.at + size <= p.chain[1].end,
           NEW q, q = LastSet(p, b.at + size)
    PROVE  Replaced(p, q, h, L, T, b, Block(b.at, size))
<1> DEFINE r == LastSet(p, b.at)
           c == Block(b.at, size)
<1>1. b.at \in Nat /\ b.len \in Nat \ {0} /\ size \in Nat \ {0}
  BY FirstBlock DEF Extent
<1>2. /\ Kept(r, h, L \ {b}, T) /\ r.cleanup = p.cleanup
      /\ r.chain[1].last = b.at /\ r.chain[1].end = p.chain[1].end
  BY ShrinkGood
<1>3. q = LastSet(r, b.at + size)
  BY FirstBlock, LastSetTwice
<1> HIDE DEF r, c
<1>4. 1 \in ChainIdx(r) /\ r.chain[1].last <= b.at /\ b.at + size <= r.chain[1].end
  BY <1>1, <1>2, FirstBlock
<1>5. q = [r EXCEPT !.chain[1].last = b.at + size]
  BY <1>3 DEF LastSet
<1>6. /\ c \notin L \ {b} /\ q.cleanup = r.cleanup
      /\ Kept(q, h, (L \ {b}) \cup {c}, T)
  <2> DEFINE m == b.at
             M == L \ {b}
  <2>1. /\ Kept(r, h, M, T) /\ 1 \in ChainIdx(r) /\ m \in Nat /\ size \in Nat \ {0}
        /\ r.chain[1].last <= m /\ m + size <= r.chain[1].end
        /\ q = [r EXCEPT !.chain[1].last = m + size]
    BY <1>1, <1>2, <1>4, <1>5
  <2> HIDE DEF m, M
  <2>2. /\ Block(m, size) \notin M /\ q.cleanup = r.cleanup
        /\ Kept(q, h, M \cup {Block(m, size)}, T)
    BY <2>1, RoomGood
  <2> QED
    BY <2>2 DEF m, M, c
<1>7. c # b
  <2>1. c.len = size /\ b.len # size
    BY <1>1 DEF c, Block
  <2> QED
    BY <2>1
<1>8. c \notin L /\ q.cleanup = p.cleanup
  BY <1>2, <1>6, <1>7
<1> QED
  BY <1>6, <1>8 DEF c, Replaced

-------------------------------------------------------------------------------
(* What the calls of the library give.                                       *)

\* Blocks of a pool that is kept share no byte.
LEMMA OKApart ==
    ASSUME NEW p, NEW h, NEW L, PoolOK(p, h, L)
    PROVE  L \subseteq Extent /\ AllApart(L)
BY DEF PoolOK, Kept, ExtentsOK, AllApart

\* A call that turned s into d has given the blocks B, or it failed.
Given(s, d, L, B) ==
    /\ d.pool.cleanup = s.pool.cleanup
    /\ d.at = Null => Good(d, L, {})
    /\ d.at # Null => Good(d, L \cup B, {}) /\ NewOnes(L, B)

\* The block of a Palloc that did not fail.
LEMMA OneBlock ==
    ASSUME NEW s, NEW L, Good(s, L, {}), NEW x \in Nat \ {0}, NEW align \in BOOLEAN,
           NEW c, c = Palloc(s, x, align)
    PROVE  Given(s, c, L, {Block(c.at, x)})
<1> DEFINE b == Block(c.at, x)
<1>1. Gave(s, c, L, {}, x)
  BY PallocGood
<1>2. IsFiniteSet({b}) /\ b.want = b.len
  BY FS_Singleton DEF Block
<1>3. c.at # Null => b \notin L /\ Good(c, L \cup {b}, {})
  BY <1>1 DEF Gave
<1>4. c.at # Null => NewOnes(L, {b})
  <2> HIDE DEF b
  <2> QED
    BY <1>2, <1>3 DEF NewOnes
<1>5. c.pool.cleanup = s.pool.cleanup /\ (c.at = Null => Good(c, L, {}))
  BY <1>1 DEF Gave
<1> HIDE DEF b
<1>6. Given(s, c, L, {b})
  BY <1>3, <1>4, <1>5 DEF Given
<1> QED
  BY <1>6 DEF b

\* The blocks of two calls.
Two(c, x, d, y) == {Block(c.at, x), Block(d.at, y)}

GivenTwo(s, c, x, d, y, L) ==
    /\ Given(s, d, L, Two(c, x, d, y))
    /\ d.at # Null => Block(c.at, x) # Block(d.at, y)

\* Two blocks, one after the other, or none.
LEMMA TwoBlocks ==
    ASSUME NEW s, NEW L, Good(s, L, {}), NEW x \in Nat \ {0}, NEW y \in Nat \ {0},
           NEW c, c = Palloc(s, x, TRUE), c.at # Null, NEW d, d = Palloc(c, y, TRUE)
    PROVE  GivenTwo(s, c, x, d, y, L)
<1> DEFINE b == Block(c.at, x)
           e == Block(d.at, y)
           M == L \cup {b}
<1>1. c.pool.cleanup = s.pool.cleanup /\ Good(c, M, {}) /\ NewOnes(L, {b})
  BY OneBlock DEF Given
<1> HIDE DEF b, M
<1>2. Given(c, d, M, {e})
  BY <1>1, OneBlock
<1> HIDE DEF e
<1>3. /\ d.pool.cleanup = c.pool.cleanup
      /\ d.at = Null => Good(d, M, {})
      /\ d.at # Null => Good(d, M \cup {e}, {}) /\ NewOnes(M, {e})
  BY <1>2 DEF Given
<1>4. L \subseteq M
  BY DEF M
<1>5. Good(d, M, {}) => Good(d, L, {})
  BY <1>4, KeptFewer DEF Good
<1>6. ASSUME d.at # Null PROVE NewOnes(L, {b, e}) /\ b # e
  <2>1. NewOnes(M, {e})
    BY <1>3, <1>6
  <2>2. e \notin L /\ e # b /\ b \notin L /\ b.want = b.len /\ e.want = e.len
    BY <1>1, <2>1 DEF NewOnes, M
  <2>3. IsFiniteSet({b, e})
    <3>1. IsFiniteSet({b} \cup {e})
      BY <1>1, <2>1, FS_Union DEF NewOnes
    <3>2. {b} \cup {e} = {b, e}
      OBVIOUS
    <3> QED
      BY <3>1, <3>2
  <2> QED
    BY <2>2, <2>3 DEF NewOnes
<1>7. M \cup {e} = L \cup {b, e}
  BY DEF M
<1>8. d.pool.cleanup = s.pool.cleanup
  BY <1>1, <1>3
<1>9. Given(s, d, L, {b, e})
  BY <1>3, <1>5, <1>6, <1>7, <1>8 DEF Given
<1> QED
  BY <1>6, <1>9 DEF b, e, Two, GivenTwo

\* dl_palloc and dl_pnalloc give one block or none.
LEMMA AllocGives ==
    ASSUME PoolInv, NEW size \in Nat \ {0}, NEW align \in BOOLEAN, NEW fuel \in Nat,
           Alloc(size, align, fuel)
    PROVE  \E B : Give(B) /\ NewOnes(live, B)
<1> DEFINE s == Palloc(Call(fuel), size, align)
<1>1. Open /\ Give(IF s.at = Null THEN {} ELSE {Block(s.at, size)})
  BY DEF Alloc
<1>2. s.at # Null => NewOnes(live, {Block(s.at, size)})
  BY <1>1, CallGood, OneBlock DEF Given
<1>3. NewOnes(live, {})
  BY FS_EmptySet DEF NewOnes
<1> HIDE DEF s
<1> QED
  BY <1>1, <1>2, <1>3

\* dl_pool_cleanup_add gives a record, a record and its data, or nothing.
LEMMA CleanupAddGives ==
    ASSUME PoolInv, NEW size \in Nat, NEW fuel \in Nat, CleanupAdd(size, fuel)
    PROVE  \E B : Give(B) /\ NewOnes(live, B)
<1> DEFINE c == Palloc(Call(fuel), CleanupSize, TRUE)
           d == IF size = 0 THEN c ELSE Palloc(c, size, TRUE)
           cb == Block(c.at, CleanupSize)
           db == Block(d.at, size)
<1>1. /\ Open /\ c.at # Null
      /\ Give(IF d.at = Null THEN {} ELSE {cb} \cup (IF size = 0 THEN {} ELSE {db}))
  BY DEF CleanupAdd
<1>2. Good(Call(fuel), live, {}) /\ CleanupSize \in Nat \ {0}
  BY <1>1, CallGood, Sizings
<1>3. NewOnes(live, {})
  BY FS_EmptySet DEF NewOnes
<1>4. CASE d.at = Null
  <2> HIDE DEF d
  <2> QED
    BY <1>1, <1>3, <1>4
<1>5. CASE d.at # Null /\ size = 0
  <2>1. NewOnes(live, {cb})
    BY <1>1, <1>2, OneBlock DEF Given
  <2> HIDE DEF c, cb
  <2> QED
    BY <1>1, <1>5, <2>1
<1>6. CASE d.at # Null /\ size # 0
  <2>1. d = Palloc(c, size, TRUE) /\ size \in Nat \ {0}
    BY <1>6
  <2> HIDE DEF d
  <2>2. NewOnes(live, {cb, db})
    <3>1. Given(Call(fuel), d, live, Two(c, CleanupSize, d, size))
      BY <1>1, <1>2, <2>1, TwoBlocks DEF GivenTwo
    <3>2. Two(c, CleanupSize, d, size) = {cb, db}
      BY DEF Two
    <3> HIDE DEF c, cb, db
    <3> QED
      BY <1>6, <3>1, <3>2 DEF Given
  <2> HIDE DEF cb, db, c
  <2>3. Give({cb, db})
    <3>1. {cb} \cup {db} = {cb, db}
      OBVIOUS
    <3> QED
      BY <1>1, <1>6, <3>1
  <2> QED
    BY <2>2, <2>3
<1> QED
  BY <1>4, <1>5, <1>6

\* dl_array_create, dl_array_init, dl_list_create, dl_list_init and a new part.
LEMMA HeaderAndElementsGives ==
    ASSUME PoolInv, Open, NEW size \in Nat \ {0}, NEW inPool \in BOOLEAN,
           NEW n \in Nat \ {0}, NEW fuel \in Nat
    PROVE  LET made == HeaderAndElements(size, inPool, n, fuel)
               s == made.then
               hb == HeaderBlock(made.header, size)
               e == Elements(s.at, n)
           IN  /\ Given(Call(fuel), s, live, hb \cup {e})
               /\ s.at # Null => /\ e \notin hb /\ made.header \in Int /\ s.at \in Nat
                                 /\ (inPool => hb = {Block(made.header, size)})
<1> DEFINE made == HeaderAndElements(size, inPool, n, fuel)
           call == Call(fuel)
           h == IF inPool THEN Palloc(call, size, TRUE) ELSE call
           len == n * ElemSize
           s == made.then
           hb == HeaderBlock(made.header, size)
           e == Elements(s.at, n)
<1>1. Good(call, live, {}) /\ call.at = Null
  BY CallGood DEF Call
<1>2. len \in Nat \ {0}
  BY ClientsAssumption
<1>3. made.header = h.at /\ s = IF inPool /\ h.at = Null THEN h ELSE Palloc(h, len, TRUE)
  BY DEF HeaderAndElements
<1>4. e = Block(s.at, len) /\ e.at = s.at
  BY DEF Elements, Block
<1>5. ASSUME NEW M, NEW B, NEW x, NEW y \in B, y.at = x.at, Good(x, M \cup B, {})
      PROVE  x.at \in Nat
  BY <1>5 DEF Good, Kept, Extent
<1>6. \A x, M : Good(x, M, {}) => x.at \in Int
  BY DEF Good, CallType
<1>7. CASE ~inPool
  <2>1. h = call /\ s = Palloc(h, len, TRUE) /\ hb = {}
    BY <1>1, <1>3, <1>7 DEF HeaderBlock, Elsewhere
  <2>2. Good(h, live, {}) /\ made.header \in Int
    BY <1>1, <1>3, <1>6, <2>1
  <2> HIDE DEF h, call, len, s, e, hb, made
  <2>3. Given(h, s, live, {e})
    BY <1>2, <1>4, <2>1, <2>2, OneBlock
  <2>4. hb \cup {e} = {e} /\ e \notin hb
    BY <2>1
  <2>5. s.at # Null => s.at \in Nat
    <3>1. s.at # Null => Good(s, live \cup {e}, {})
      BY <2>3 DEF Given
    <3> QED
      BY <1>4, <1>5, <3>1
  <2> QED
    BY <1>7, <2>1, <2>2, <2>3, <2>4, <2>5 DEF s, e, hb, made, call
<1>8. CASE inPool /\ h.at = Null
  <2>1. h = Palloc(call, size, TRUE) /\ s = h /\ s.at = Null
    BY <1>3, <1>8
  <2> HIDE DEF h, call, s, e, hb, made
  <2>2. Given(call, h, live, {Block(h.at, size)})
    BY <1>1, <2>1, OneBlock
  <2>3. Given(call, s, live, hb \cup {e})
    BY <2>1, <2>2 DEF Given
  <2> QED
    BY <2>1, <2>3 DEF s, e, hb, made, call
<1>9. CASE inPool /\ h.at # Null
  <2>1. h = Palloc(call, size, TRUE) /\ s = Palloc(h, len, TRUE)
        /\ hb = {Block(h.at, size)} /\ h.at # Null
    BY <1>3, <1>9 DEF HeaderBlock, Elsewhere
  <2> DEFINE b == Block(h.at, size)
  <2> HIDE DEF h, call, len, s, e, hb, made
  <2>2. Given(call, s, live, {b, e}) /\ (s.at # Null => b # e)
    <3>1. /\ Good(call, live, {}) /\ size \in Nat \ {0} /\ len \in Nat \ {0}
          /\ h = Palloc(call, size, TRUE) /\ h.at # Null /\ s = Palloc(h, len, TRUE)
      BY <1>1, <1>2, <2>1
    <3>2. GivenTwo(call, h, size, s, len, live)
      BY <3>1, TwoBlocks
    <3>3. Given(call, s, live, Two(h, size, s, len)) /\ (s.at # Null => b # Block(s.at, len))
      BY <3>2 DEF GivenTwo
    <3>4. e = Block(s.at, len) /\ Two(h, size, s, len) = {b, e}
      BY <1>4 DEF Two
    <3> HIDE DEF b
    <3> QED
      BY <3>3, <3>4
  <2>3. made.header \in Int
    <3>1. Given(call, h, live, {b})
      BY <1>1, <2>1, OneBlock
    <3>2. Good(h, live \cup {b}, {})
      BY <2>1, <3>1 DEF Given
    <3> QED
      BY <1>3, <1>6, <3>2
  <2>4. s.at # Null => s.at \in Nat
    <3>1. s.at # Null => Good(s, live \cup {b, e}, {})
      BY <2>2 DEF Given
    <3>2. e \in {b, e}
      OBVIOUS
    <3> QED
      BY <1>4, <1>5, <3>1, <3>2
  <2>5. hb = {b} /\ hb \cup {e} = {b, e} /\ made.header = h.at
    BY <1>3, <2>1
  <2> HIDE DEF b
  <2>6. /\ Given(call, s, live, hb \cup {e})
        /\ s.at # Null => e \notin hb /\ made.header \in Int /\ s.at \in Nat
    BY <2>2, <2>3, <2>4, <2>5
  <2>7. hb = {Block(made.header, size)}
    BY <2>5 DEF b
  <2> QED
    BY <2>6, <2>7 DEF s, e, hb, made, call
<1> QED
  BY <1>7, <1>8, <1>9

-------------------------------------------------------------------------------
(* The invariant of a pool and its callers.                                  *)

ArrayType == [at : Int, elts : Nat, nalloc : Nat \ {0}, data : Seq(Nat)]
PartType == [at : Int, elts : Nat, data : Seq(Nat)]
ListType == [at : Int, nalloc : Nat \ {0}, nelts : Nat, parts : Seq(PartType)]

\* The blocks of an array are among those of L, and it holds what was pushed.
ArrayKept(a, L) ==
    a # NoArray =>
        /\ a \in ArrayType
        /\ Elements(a.elts, a.nalloc) \in L
        /\ HeaderBlock(a.at, ArraySize) \subseteq L \ {Elements(a.elts, a.nalloc)}
        /\ Len(a.data) <= a.nalloc
        /\ \A i \in DOMAIN a.data : a.data[i] = i

\* The header of part k of a list, its elements, and both.
HeaderOf(l, k) ==
    IF k = 1 THEN HeaderBlock(l.at, ListSize) ELSE HeaderBlock(l.parts[k].at, PartSize)
Run(l, k) == Elements(l.parts[k].elts, l.nalloc)
Memory(l, k) == HeaderOf(l, k) \cup {Run(l, k)}

\* What part k of a list holds.
PartKept(l, k) ==
    /\ Run(l, k) \notin HeaderOf(l, k)
    /\ Len(l.parts[k].data) <= l.nalloc
    /\ k < Len(l.parts) => Len(l.parts[k].data) = l.nalloc
    /\ \A j \in DOMAIN l.parts[k].data : l.parts[k].data[j] = (k - 1) * l.nalloc + j

ListKept(l, L) ==
    l # NoList =>
        /\ l \in ListType /\ Len(l.parts) >= 1
        /\ \A k \in 1 .. Len(l.parts) : Memory(l, k) \subseteq L /\ PartKept(l, k)
        /\ \A k, m \in 1 .. Len(l.parts) : k # m => Memory(l, k) \cap Memory(l, m) = {}
        /\ l.nelts = (Len(l.parts) - 1) * l.nalloc + Len(l.parts[Len(l.parts)].data)

\* Only calls of all kinds register cleanup records.
NoRecords == kind # "plain" /\ Open => pool.cleanup = <<>>

KindsOK ==
    /\ kind # "array" => array = NoArray
    /\ kind # "list" => list = NoList

ClientInv ==
    /\ PoolInv /\ Tallied(live, held)
    /\ NoRecords /\ KindsOK
    /\ ArrayKept(array, live) /\ ListKept(list, live)

\* More blocks make no difference to an array or a list.
LEMMA KeptMore ==
    ASSUME NEW L, NEW M, L \subseteq M
    PROVE  /\ \A a : ArrayKept(a, L) => ArrayKept(a, M)
           /\ \A l : ListKept(l, L) => ListKept(l, M)
<1>1. \A a : ArrayKept(a, L) => ArrayKept(a, M)
  BY DEF ArrayKept
<1>2. ASSUME NEW l, ListKept(l, L) PROVE ListKept(l, M)
  BY <1>2 DEF ListKept
<1> QED
  BY <1>1, <1>2

-------------------------------------------------------------------------------
(* The steps.                                                                *)

\* A call that gives blocks and keeps the pool.
LEMMA GivingStep ==
    ASSUME PoolInv, Tallied(live, held), PoolInv', NEW B, Give(B), NewOnes(live, B)
    PROVE  Tallied(live', held') /\ AllocatorStep /\ live \subseteq live'
<1>1. live' = live \cup B
  BY DEF Give
<1>2. live \subseteq Extent /\ live' \subseteq Extent /\ AllApart(live')
  BY OKApart DEF PoolInv
<1>3. B \subseteq Extent
  BY <1>1, <1>2
<1> QED
  BY <1>1, <1>2, <1>3, GiveStep

\* dl_palloc and dl_pnalloc
LEMMA AllocStep ==
    ASSUME PoolInv, Tallied(live, held),
           NEW size \in Nat \ {0}, NEW align \in BOOLEAN, NEW fuel \in Nat,
           Alloc(size, align, fuel)
    PROVE  /\ PoolInv' /\ Tallied(live', held') /\ AllocatorStep
           /\ live \subseteq live' /\ pool'.cleanup = pool.cleanup /\ Open /\ Open'
<1>1. PoolInv' /\ Open' /\ pool'.cleanup = pool.cleanup
  BY AllocInv
<1>2. PICK B : Give(B) /\ NewOnes(live, B)
  BY AllocGives
<1>3. Open
  BY DEF Alloc
<1> QED
  BY <1>1, <1>2, <1>3, GivingStep

\* Every call of the library is a step of the allocator.
LEMMA PoolStep ==
    ASSUME PoolInv, Tallied(live, held), [Next]_vars
    PROVE  PoolInv' /\ Tallied(live', held') /\ AllocatorStep
<1>0. PoolInv'
  BY NextInv
<1>1. CASE Create
  BY <1>0, <1>1 DEF Create, AllocatorStep
<1>2. ASSUME NEW size \in Sizes, NEW align \in BOOLEAN, NEW fuel \in Fuel, Alloc(size, align, fuel)
      PROVE  Tallied(live', held') /\ AllocatorStep
  <2>1. size \in Nat \ {0} /\ fuel \in Nat
    BY PoolAssumption DEF Fuel
  <2> QED
    BY <1>2, <2>1, AllocStep
<1>3. ASSUME NEW size \in DataSizes, NEW fuel \in CleanupFuel, CleanupAdd(size, fuel)
      PROVE  Tallied(live', held') /\ AllocatorStep
  <2>1. size \in Nat /\ fuel \in Nat
    BY PoolAssumption DEF CleanupFuel
  <2>2. PICK B : Give(B) /\ NewOnes(live, B)
    BY <1>3, <2>1, CleanupAddGives
  <2> QED
    BY <1>0, <2>2, GivingStep
<1>4. ASSUME NEW k \in DOMAIN pool.cleanup, SetHandler(k)
      PROVE  Tallied(live', held') /\ AllocatorStep
  BY <1>4 DEF SetHandler, AllocatorStep
<1>5. CASE Reset
  <2>1. live' = {} /\ held' = 0
    BY <1>5 DEF Reset
  <2> QED
    BY <1>0, <2>1, EndStep
<1>6. CASE Destroy
  <2>1. live' = {} /\ held' = 0
    BY <1>6 DEF Destroy
  <2> QED
    BY <1>0, <2>1, EndStep
<1>7. CASE UNCHANGED vars
  <2>1. live' = live /\ held' = held
    BY <1>7 DEF vars
  <2> QED
    BY <1>0, <2>1 DEF AllocatorStep
<1> QED
  BY <1>0, <1>1, <1>2, <1>3, <1>4, <1>5, <1>6, <1>7 DEF Next

\* Calls of all kinds.
LEMMA PlainStep ==
    ASSUME ClientInv, Plain
    PROVE  ClientInv' /\ AllocatorStep
<1>1. kind = "plain" /\ Next /\ UNCHANGED <<kind, array, list>>
  BY DEF Plain, clients
<1>2. PoolInv' /\ Tallied(live', held') /\ AllocatorStep
  BY <1>1, PoolStep DEF ClientInv
<1>3. array = NoArray /\ list = NoList
  BY <1>1 DEF ClientInv, KindsOK
<1>4. NoRecords' /\ KindsOK' /\ ArrayKept(array', live') /\ ListKept(list', live')
  BY <1>1, <1>3 DEF NoRecords, KindsOK, ArrayKept, ListKept
<1> QED
  BY <1>2, <1>4 DEF ClientInv

\* Other requests between those of an array or a list.
LEMMA OtherStep ==
    ASSUME ClientInv, Other
    PROVE  ClientInv' /\ AllocatorStep
<1>1. UNCHANGED <<kind, array, list>>
  BY DEF Other, clients
<1>2. CASE Create
  <2>1. PoolInv' /\ Tallied(live', held') /\ AllocatorStep
    BY <1>2, PoolStep DEF ClientInv, Next
  <2>2. live' = live /\ pool'.cleanup = <<>>
    BY <1>2, CreateInv DEF Create, ClientInv
  <2>3. NoRecords' /\ KindsOK' /\ ArrayKept(array', live') /\ ListKept(list', live')
    BY <1>1, <2>2 DEF ClientInv, NoRecords, KindsOK
  <2> QED
    BY <2>1, <2>3 DEF ClientInv
<1>3. ASSUME NEW fuel \in Fuel, Alloc(OtherSize, TRUE, fuel) PROVE ClientInv' /\ AllocatorStep
  <2>1. OtherSize \in Nat \ {0} /\ fuel \in Nat
    BY ClientsAssumption DEF Fuel
  <2>2. /\ PoolInv' /\ Tallied(live', held') /\ AllocatorStep
        /\ live \subseteq live' /\ pool'.cleanup = pool.cleanup /\ Open
    BY <1>3, <2>1, AllocStep DEF ClientInv
  <2>3. NoRecords' /\ KindsOK'
    BY <1>1, <2>2 DEF ClientInv, NoRecords, KindsOK
  <2>4. ArrayKept(array', live') /\ ListKept(list', live')
    BY <1>1, <2>2, KeptMore DEF ClientInv
  <2> QED
    BY <2>2, <2>3, <2>4 DEF ClientInv
<1> QED
  BY <1>2, <1>3 DEF Other

\* dl_reset_pool and dl_destroy_pool
LEMMA EndsAllStep ==
    ASSUME ClientInv, EndsAll
    PROVE  ClientInv' /\ AllocatorStep
<1>1. kind' = kind /\ array' = NoArray /\ list' = NoList /\ kind # "plain" /\ (Reset \/ Destroy)
  BY DEF EndsAll
<1>2. PoolInv' /\ Tallied(live', held') /\ AllocatorStep
  BY <1>1, PoolStep DEF ClientInv, Next
<1>3. NoRecords'
  <2>1. CASE Reset
    <3>1. Open /\ pool'.cleanup = pool.cleanup
      BY <2>1, ResetInv DEF Reset, ClientInv
    <3> QED
      BY <1>1, <3>1 DEF ClientInv, NoRecords
  <2>2. CASE Destroy
    BY <2>2, DestroyInv DEF ClientInv, NoRecords
  <2> QED
    BY <1>1, <2>1, <2>2
<1>4. KindsOK' /\ ArrayKept(array', live') /\ ListKept(list', live')
  BY <1>1 DEF KindsOK, ArrayKept, ListKept
<1> QED
  BY <1>2, <1>3, <1>4 DEF ClientInv

\* A call of an array or a list that asks the pool for blocks.
LEMMA CallStep ==
    ASSUME PoolInv, Tallied(live, held), Open, NEW fuel \in Nat, NEW s, NEW B,
           Given(Call(fuel), s, live, B), Keep(s), Give(IF s.at = Null THEN {} ELSE B)
    PROVE  /\ PoolInv' /\ Tallied(live', held') /\ AllocatorStep
           /\ live \subseteq live' /\ pool'.cleanup = pool.cleanup
           /\ s.at # Null => B \subseteq live'
<1> DEFINE G == IF s.at = Null THEN {} ELSE B
<1>1. pool' = s.pool /\ heap' = s.heap /\ live' = live \cup G
  BY DEF Keep, Give
<1>2. NewOnes(live, G)
  BY FS_EmptySet DEF NewOnes, Given
<1>3. Good(s, live', {})
  <2>1. CASE s.at = Null
    <3>1. live' = live
      BY <1>1, <2>1
    <3> QED
      BY <2>1, <3>1 DEF Given
  <2>2. CASE s.at # Null
    <3>1. live' = live \cup B
      BY <1>1, <2>2
    <3> QED
      BY <2>2, <3>1 DEF Given
  <2> QED
    BY <2>1, <2>2
<1>4. Kept(pool', heap', live', {})
  BY <1>1, <1>3 DEF Good
<1>5. PoolInv'
  BY <1>4, KeptOpen DEF PoolInv
<1>6. pool'.cleanup = pool.cleanup
  <2>1. Call(fuel).pool = pool
    BY CallGood
  <2> QED
    BY <1>1, <2>1 DEF Given
<1>7. s.at # Null => B \subseteq live'
  BY <1>1
<1>8. Give(G)
  OBVIOUS
<1> HIDE DEF G
<1> QED
  BY <1>2, <1>5, <1>6, <1>7, <1>8, GivingStep

\* An array that has just been made.
LEMMA NewArray ==
    ASSUME NEW at \in Int, NEW elts \in Nat, NEW n \in Nat \ {0}, NEW L,
           HeaderBlock(at, ArraySize) \cup {Elements(elts, n)} \subseteq L,
           Elements(elts, n) \notin HeaderBlock(at, ArraySize)
    PROVE  ArrayKept([at |-> at, elts |-> elts, nalloc |-> n, data |-> <<>>], L)
<1> DEFINE none == <<>>
           a == [at |-> at, elts |-> elts, nalloc |-> n, data |-> none]
<1>1. none \in Seq(Nat) /\ Len(none) = 0 /\ DOMAIN none = {}
  OBVIOUS
<1> HIDE DEF none
<1>2. a \in ArrayType /\ a.at = at /\ a.elts = elts /\ a.nalloc = n /\ a.data = none
  BY <1>1 DEF ArrayType
<1> HIDE DEF a
<1>3. Len(a.data) <= a.nalloc
  BY <1>1, <1>2
<1>4. /\ Elements(a.elts, a.nalloc) \in L
      /\ HeaderBlock(a.at, ArraySize) \subseteq L \ {Elements(a.elts, a.nalloc)}
  BY <1>2
<1>5. ArrayKept(a, L)
  BY <1>1, <1>2, <1>3, <1>4 DEF ArrayKept
<1> QED
  BY <1>5 DEF a, none

\* dl_array_create and dl_array_init
LEMMA ArrayInitStep ==
    ASSUME ClientInv, NEW n \in Counts, NEW inPool \in BOOLEAN, NEW fuel \in CleanupFuel,
           ArrayInit(n, inPool, fuel)
    PROVE  ClientInv' /\ AllocatorStep
<1> DEFINE made == HeaderAndElements(ArraySize, inPool, n, fuel)
           s == made.then
           hb == HeaderBlock(made.header, ArraySize)
           e == Elements(s.at, n)
           new == [at |-> made.header, elts |-> s.at, nalloc |-> n, data |-> <<>>]
<1>1. /\ kind = "array" /\ Open /\ Keep(s) /\ kind' = kind /\ list' = list
      /\ IF s.at = Null THEN Give({}) /\ array' = array
         ELSE Give(hb \cup {e}) /\ array' = new
  BY DEF ArrayInit
<1>2. n \in Nat \ {0} /\ ArraySize \in Nat \ {0} /\ fuel \in Nat
  BY ClientsAssumption DEF CleanupFuel
<1>3. PoolInv /\ Tallied(live, held) /\ NoRecords /\ KindsOK /\ ArrayKept(array, live) /\ ListKept(list, live)
  BY DEF ClientInv
<1>4. /\ Given(Call(fuel), s, live, hb \cup {e})
      /\ s.at # Null => e \notin hb /\ made.header \in Int /\ s.at \in Nat
  BY <1>1, <1>2, <1>3, HeaderAndElementsGives
<1> HIDE DEF made, s, hb, e
<1>5. Give(IF s.at = Null THEN {} ELSE hb \cup {e})
  BY <1>1
<1>6. /\ PoolInv' /\ Tallied(live', held') /\ AllocatorStep
      /\ live \subseteq live' /\ pool'.cleanup = pool.cleanup
      /\ s.at # Null => hb \cup {e} \subseteq live'
  BY <1>1, <1>2, <1>3, <1>4, <1>5, CallStep
<1>7. NoRecords' /\ KindsOK'
  BY <1>1, <1>3, <1>6 DEF NoRecords, KindsOK
<1>8. ListKept(list', live')
  BY <1>1, <1>3, <1>6, KeptMore
<1>9. ArrayKept(array', live')
  <2>1. CASE s.at = Null
    BY <1>1, <1>3, <1>6, <2>1, KeptMore
  <2>2. CASE s.at # Null
    <3>1. array' = new
      BY <1>1, <2>2
    <3>2. /\ made.header \in Int /\ s.at \in Nat
          /\ HeaderBlock(made.header, ArraySize) \cup {Elements(s.at, n)} \subseteq live'
          /\ Elements(s.at, n) \notin HeaderBlock(made.header, ArraySize)
      BY <1>4, <1>6, <2>2 DEF hb, e
    <3>3. ArrayKept(new, live')
      BY <1>2, <3>2, NewArray
    <3> HIDE DEF new
    <3> QED
      BY <3>1, <3>3
  <2> QED
    BY <2>1, <2>2
<1> QED
  BY <1>6, <1>7, <1>8, <1>9 DEF ClientInv

\* Elements are stored behind those that are there.
LEMMA FilledIs ==
    ASSUME NEW data \in Seq(Nat), \A i \in DOMAIN data : data[i] = i, NEW n \in Nat
    PROVE  /\ Filled(data, n) \in Seq(Nat)
           /\ Len(Filled(data, n)) = Len(data) + n
           /\ \A i \in DOMAIN Filled(data, n) : Filled(data, n)[i] = i
<1> DEFINE more == [i \in 1 .. n |-> Len(data) + i]
           all == data \o more
<1>1. Len(data) \in Nat /\ DOMAIN data = 1 .. Len(data)
  OBVIOUS
<1>2. more \in [1 .. n -> Nat] /\ \A i \in 1 .. n : more[i] = Len(data) + i
  BY <1>1
<1> HIDE DEF more
<1>3. more \in Seq(Nat) /\ Len(more) = n
  BY <1>2, FunctionIsSeq
<1>4. all \in Seq(Nat) /\ Len(all) = Len(data) + n
  BY <1>3
<1>5. ASSUME NEW i \in 1 .. Len(data) + n PROVE all[i] = i
  <2>1. CASE i <= Len(data)
    <3>1. all[i] = data[i] /\ i \in DOMAIN data
      BY <1>1, <1>3, <2>1
    <3> QED
      BY <3>1
  <2>2. CASE i > Len(data)
    <3>1. all[i] = more[i - Len(data)] /\ i - Len(data) \in 1 .. n
      BY <1>1, <1>3, <2>2
    <3> HIDE DEF all
    <3>2. more[i - Len(data)] = Len(data) + (i - Len(data))
      BY <1>2, <3>1
    <3>3. Len(data) + (i - Len(data)) = i
      BY <1>1
    <3> QED
      BY <3>1, <3>2, <3>3
  <2>3. i <= Len(data) \/ i > Len(data)
    BY <1>1
  <2> HIDE DEF all
  <2> QED
    BY <2>1, <2>2, <2>3
<1>6. DOMAIN all = 1 .. Len(data) + n
  BY <1>4
<1>7. Filled(data, n) = all
  BY DEF Filled, more
<1> HIDE DEF all
<1> QED
  BY <1>4, <1>5, <1>6, <1>7

\* memcpy of all elements
LEMMA CopiedIs ==
    ASSUME array.data \in Seq(Nat), NEW n \in Nat, Len(array.data) <= n
    PROVE  Copied(n) = array.data
<1> DEFINE d == array.data
<1>1. d \in Seq(Nat) /\ Len(d) <= n
  OBVIOUS
<1>2. Copied(n) = [i \in DOMAIN d |-> IF i <= n THEN d[i] ELSE Wild]
  BY DEF Copied
<1> HIDE DEF d
<1>3. \A i \in DOMAIN d : i <= n
  BY <1>1
<1>4. [i \in DOMAIN d |-> IF i <= n THEN d[i] ELSE Wild] = [i \in DOMAIN d |-> d[i]]
  BY <1>3
<1>5. [i \in DOMAIN d |-> d[i]] = d
  BY <1>1
<1> QED
  BY <1>2, <1>4, <1>5 DEF d

\* An array that got more room, or the same, and more elements.
LEMMA MoreArray ==
    ASSUME NEW a \in ArrayType, \A i \in DOMAIN a.data : a.data[i] = i, NEW n \in Nat,
           NEW elts \in Nat, NEW nalloc \in Nat \ {0}, Len(a.data) + n <= nalloc,
           NEW b, b = [a EXCEPT !.elts = elts, !.nalloc = nalloc, !.data = Filled(a.data, n)],
           NEW L, Elements(elts, nalloc) \in L,
           HeaderBlock(a.at, ArraySize) \subseteq L \ {Elements(elts, nalloc)}
    PROVE  ArrayKept(b, L)
<1> DEFINE d == Filled(a.data, n)
<1>1. a.data \in Seq(Nat)
  BY DEF ArrayType
<1>2. d \in Seq(Nat) /\ Len(d) = Len(a.data) + n /\ \A i \in DOMAIN d : d[i] = i
  BY <1>1, FilledIs
<1> HIDE DEF d
<1>3. b = [a EXCEPT !.elts = elts, !.nalloc = nalloc, !.data = d]
  BY DEF d
<1>4. b \in ArrayType /\ b.at = a.at /\ b.elts = elts /\ b.nalloc = nalloc /\ b.data = d
  BY <1>2, <1>3 DEF ArrayType
<1>5. Len(b.data) <= b.nalloc
  BY <1>2, <1>4
<1> QED
  BY <1>2, <1>4, <1>5 DEF ArrayKept

\* The array's elements end at d.last and grow in place.
LEMMA InPlaceStep ==
    ASSUME ClientInv, HasArray, NEW n \in Nat \ {0}, InPlace(n), Open,
           pool' = [pool EXCEPT !.chain[1].last = @ + n * ElemSize],
           live' = (live \ {Elements(array.elts, array.nalloc)})
                   \cup {Elements(array.elts, array.nalloc + n)},
           heap' = heap, held' = held
    PROVE  /\ PoolInv' /\ Tallied(live', held') /\ AllocatorStep
           /\ pool'.cleanup = pool.cleanup
           /\ Elements(array.elts, array.nalloc + n) \notin live
<1> DEFINE old == Elements(array.elts, array.nalloc)
           new == Elements(array.elts, array.nalloc + n)
           at == array.elts
           m == array.nalloc
           last == pool.chain[1].last
           size == (m + n) * ElemSize
<1>1. /\ Kept(pool, heap, live, {}) /\ Tallied(live, held)
      /\ at \in Nat /\ m \in Nat \ {0} /\ old \in live
  BY DEF ClientInv, PoolInv, PoolOK, Open, ArrayKept, HasArray, ArrayType
<1>2. ElemSize \in Nat \ {0}
  BY ClientsAssumption
<1>3. /\ old.at = at /\ old.len = m * ElemSize
      /\ new = Block(at, size) /\ new.at = at /\ new.len = size /\ new.want = size
  BY DEF Elements, Block
<1>4. at + ElemSize * m = last /\ last + n * ElemSize <= pool.chain[1].end
  BY DEF InPlace, AtEnd
<1>5. last \in Nat /\ pool.chain[1].end \in Nat
  BY <1>1, FirstBlock
<1>6. pool' = LastSet(pool, last + n * ElemSize)
  BY DEF LastSet
<1> HIDE DEF old, new, at, m, last
<1>7. /\ old.at + old.len = last /\ size \in Nat /\ old.len < size
      /\ last + n * ElemSize = old.at + size
  <2>1. m * ElemSize \in Nat /\ n * ElemSize \in Nat \ {0} /\ ElemSize * m = m * ElemSize
    BY <1>1, <1>2
  <2>2. size = m * ElemSize + n * ElemSize
    BY <1>1, <1>2
  <2> DEFINE x == m * ElemSize
             y == n * ElemSize
  <2>3. x \in Nat /\ y \in Nat \ {0} /\ ElemSize * m = x /\ size = x + y
    BY <2>1, <2>2
  <2> HIDE DEF x, y, size
  <2>4. size \in Nat /\ x < size /\ at + x = last /\ last + y = at + size
    BY <1>1, <1>4, <2>3
  <2> QED
    BY <1>3, <2>4 DEF x, y
<1> HIDE DEF size
<1>8. /\ Block(old.at, size) \notin live /\ pool'.cleanup = pool.cleanup
      /\ Kept(pool', heap, (live \ {old}) \cup {Block(old.at, size)}, {})
  <2> DEFINE q == pool'
             b == old
             p == pool
  <2>1. /\ Kept(p, heap, live, {}) /\ b \in live /\ b.at + b.len = p.chain[1].last
        /\ size \in Nat /\ b.len < size /\ b.at + size <= p.chain[1].end
        /\ q = LastSet(p, b.at + size)
    <3>1. Kept(p, heap, live, {}) /\ b \in live
      BY <1>1
    <3>2. b.at + b.len = p.chain[1].last /\ q = LastSet(p, b.at + size)
      BY <1>6, <1>7 DEF last
    <3>3. b.at + size <= p.chain[1].end
      BY <1>4, <1>7
    <3> QED
      BY <1>7, <3>1, <3>2, <3>3
  <2> HIDE DEF p, q, b
  <2>2. Replaced(p, q, heap, live, {}, b, Block(b.at, size))
    BY <2>1, LongerGood
  <2> QED
    BY <2>2 DEF p, q, b, Replaced
<1>9. Block(old.at, size) = new /\ live' = (live \ {old}) \cup {new}
  BY <1>3 DEF old, new
<1>10. new \notin live /\ Kept(pool', heap', live', {})
  BY <1>8, <1>9
<1>11. PoolInv'
  BY <1>10, KeptOpen DEF PoolInv
<1>12. live' \subseteq Extent /\ AllApart(live') /\ live \subseteq Extent
  BY <1>1, <1>11, OKApart DEF PoolInv, Kept
<1>13. new \in Extent
  BY <1>9, <1>12
<1>14. new.at = old.at /\ old.len < new.len /\ new.want = new.len
  BY <1>3, <1>7
<1>15. Tallied(live', held') /\ AllocatorStep
  BY <1>1, <1>9, <1>10, <1>12, <1>13, <1>14, GrowStep
<1> QED
  BY <1>8, <1>10, <1>11, <1>15 DEF new

\* dl_array_push and dl_array_push_n: what they have in common.
LEMMA PushStep ==
    ASSUME ClientInv, NEW n \in Nat \ {0}, NEW full \in BOOLEAN, NEW nalloc \in Nat \ {0},
           NEW copied \in Nat, NEW fuel \in Nat, Push(n, full, nalloc, copied, fuel),
           ~full => Len(array.data) + n <= array.nalloc,
           Len(array.data) + n <= nalloc, Len(array.data) <= copied
    PROVE  ClientInv' /\ AllocatorStep
<1> DEFINE s == Palloc(Call(fuel), nalloc * ElemSize, TRUE)
           old == Elements(array.elts, array.nalloc)
           e == Elements(s.at, nalloc)
           d == array.data
           m == array.nalloc
<1>1. kind = "array" /\ Open /\ HasArray /\ kind' = kind /\ list' = list
  BY DEF Push
<1>2. /\ PoolInv /\ Tallied(live, held) /\ NoRecords /\ KindsOK
      /\ array \in ArrayType /\ old \in live
      /\ HeaderBlock(array.at, ArraySize) \subseteq live \ {old}
      /\ Len(d) <= m /\ \A i \in DOMAIN d : d[i] = i
      /\ list = NoList
  BY <1>1 DEF ClientInv, ArrayKept, HasArray, KindsOK
<1>3. d \in Seq(Nat) /\ Len(d) \in Nat /\ m \in Nat \ {0} /\ array.elts \in Nat
  BY <1>2 DEF ArrayType
<1>4. KindsOK' /\ ListKept(list', live')
  BY <1>1, <1>2 DEF KindsOK, ListKept
<1>5. CASE ~full /\ array' = [array EXCEPT !.data = Filled(@, n)] /\ UNCHANGED <<pool, heap, live, held>>
  <2>1. PoolInv' /\ Tallied(live', held') /\ AllocatorStep
    BY <1>2, <1>5 DEF PoolInv, AllocatorStep
  <2>2. NoRecords'
    BY <1>1, <1>2, <1>5 DEF NoRecords, Open
  <2>3. array' = [array EXCEPT !.elts = array.elts, !.nalloc = m, !.data = Filled(d, n)]
    BY <1>2, <1>5 DEF ArrayType
  <2>4. Len(d) + n <= m
    BY <1>5
  <2>5. ArrayKept(array', live')
    BY <1>2, <1>3, <1>5, <2>3, <2>4, MoreArray
  <2> QED
    BY <1>4, <2>1, <2>2, <2>5 DEF ClientInv
<1>6. CASE /\ full /\ InPlace(n)
           /\ pool' = [pool EXCEPT !.chain[1].last = @ + n * ElemSize]
           /\ array' = [array EXCEPT !.nalloc = @ + n, !.data = Filled(@, n)]
           /\ live' = (live \ {old}) \cup {Elements(array.elts, array.nalloc + n)}
           /\ UNCHANGED <<heap, held>>
  <2> DEFINE new == Elements(array.elts, m + n)
  <2>1. /\ PoolInv' /\ Tallied(live', held') /\ AllocatorStep
        /\ pool'.cleanup = pool.cleanup /\ new \notin live
    BY <1>1, <1>6, InPlaceStep
  <2>2. NoRecords'
    BY <1>1, <1>2, <2>1 DEF NoRecords
  <2>3. array' = [array EXCEPT !.elts = array.elts, !.nalloc = m + n, !.data = Filled(d, n)]
    BY <1>2, <1>6 DEF ArrayType
  <2>4. Len(d) + n <= m + n /\ m + n \in Nat \ {0}
    BY <1>2, <1>3
  <2>5. live' = (live \ {old}) \cup {new}
    BY <1>6
  <2> HIDE DEF new, old
  <2>6. new \in live' /\ HeaderBlock(array.at, ArraySize) \subseteq live' \ {new}
    BY <1>2, <2>1, <2>5
  <2>7. ArrayKept(array', live')
    <3> DEFINE k == m + n
    <3>1. /\ k \in Nat \ {0} /\ Len(d) + n <= k /\ Elements(array.elts, k) \in live'
          /\ HeaderBlock(array.at, ArraySize) \subseteq live' \ {Elements(array.elts, k)}
          /\ array' = [array EXCEPT !.elts = array.elts, !.nalloc = k, !.data = Filled(d, n)]
      BY <2>3, <2>4, <2>6 DEF new
    <3> HIDE DEF k
    <3> QED
      BY <1>2, <1>3, <3>1, MoreArray
  <2> QED
    BY <1>4, <2>1, <2>2, <2>7 DEF ClientInv
<1>7. CASE /\ full /\ Keep(s)
           /\ IF s.at = Null THEN Give({}) /\ UNCHANGED array
              ELSE /\ Give({e})
                   /\ array' = [array EXCEPT !.elts = s.at, !.nalloc = nalloc,
                                             !.data = Filled(Copied(copied), n)]
  <2>1. nalloc * ElemSize \in Nat \ {0}
    BY ClientsAssumption
  <2>2. e = Block(s.at, nalloc * ElemSize) /\ e.at = s.at
    BY DEF Elements, Block
  <2>3. Given(Call(fuel), s, live, {e})
    <3> DEFINE c == Call(fuel)
               x == nalloc * ElemSize
    <3>1. Good(c, live, {}) /\ x \in Nat \ {0} /\ TRUE \in BOOLEAN /\ s = Palloc(c, x, TRUE)
      BY <1>1, <1>2, <2>1, CallGood
    <3> HIDE DEF c, x, s, e
    <3>2. Given(c, s, live, {Block(s.at, x)})
      BY <3>1, OneBlock
    <3> QED
      BY <2>2, <3>2 DEF c, x
  <2> HIDE DEF s, e
  <2>4. Keep(s) /\ Give(IF s.at = Null THEN {} ELSE {e})
    BY <1>7
  <2>5. /\ PoolInv' /\ Tallied(live', held') /\ AllocatorStep
        /\ live \subseteq live' /\ pool'.cleanup = pool.cleanup
        /\ s.at # Null => {e} \subseteq live'
    BY <1>1, <1>2, <2>3, <2>4, CallStep
  <2>6. NoRecords'
    BY <1>1, <1>2, <2>5 DEF NoRecords
  <2>7. CASE s.at = Null
    <3>1. array' = array
      BY <1>7, <2>7
    <3>2. ArrayKept(array', live')
      BY <2>5, <3>1, KeptMore DEF ClientInv
    <3> QED
      BY <1>4, <2>5, <2>6, <3>2 DEF ClientInv
  <2>8. CASE s.at # Null
    <3>1. array' = [array EXCEPT !.elts = s.at, !.nalloc = nalloc, !.data = Filled(Copied(copied), n)]
      BY <1>7, <2>8
    <3>2. Copied(copied) = d
      BY <1>3, CopiedIs
    <3>3. s.at \in Nat
      <4>1. Good(s, live \cup {e}, {})
        BY <2>3, <2>8 DEF Given
      <4>2. e \in Extent
        BY <4>1 DEF Good, Kept
      <4> QED
        BY <2>2, <4>2 DEF Extent
    <3>4. e \notin live /\ e \in live'
      BY <2>3, <2>5, <2>8 DEF Given, NewOnes
    <3>5. HeaderBlock(array.at, ArraySize) \subseteq live' \ {e}
      BY <1>2, <2>5, <3>4
    <3>6. ArrayKept(array', live')
      BY <1>2, <3>1, <3>2, <3>3, <3>4, <3>5, MoreArray DEF e
    <3> QED
      BY <1>4, <2>5, <2>6, <3>6 DEF ClientInv
  <2> QED
    BY <2>7, <2>8
<1> QED
  BY <1>5, <1>6, <1>7 DEF Push

\* dl_array_push
LEMMA ArrayPushStep ==
    ASSUME ClientInv, NEW fuel \in Fuel, dl_array_push(fuel)
    PROVE  ClientInv' /\ AllocatorStep
<1> DEFINE len == Len(array.data)
           m == array.nalloc
<1>1. HasArray /\ Push(1, len = m, 2 * m, m, fuel) /\ fuel \in Nat
  <2>1. Push(1, len = m, 2 * m, m, fuel)
    BY DEF dl_array_push
  <2>2. HasArray
    BY DEF dl_array_push, Push
  <2> QED
    BY <2>1, <2>2 DEF Fuel
<1>2. len \in Nat /\ m \in Nat \ {0} /\ len <= m
  BY <1>1 DEF ClientInv, ArrayKept, HasArray, ArrayType
<1> HIDE DEF len, m
<1>3. /\ 2 * m \in Nat \ {0} /\ m \in Nat /\ len + 1 <= 2 * m
      /\ len # m => len + 1 <= m
  BY <1>2
<1> DEFINE full == len = m
           one == 1
           double == 2 * m
<1>4. /\ one \in Nat \ {0} /\ full \in BOOLEAN /\ double \in Nat \ {0} /\ m \in Nat
      /\ Push(one, full, double, m, fuel)
      /\ ~full => Len(array.data) + one <= array.nalloc
      /\ Len(array.data) + one <= double /\ Len(array.data) <= m
  BY <1>1, <1>2, <1>3 DEF len, m
<1> HIDE DEF full, one, double
<1> QED
  BY <1>1, <1>4, PushStep

\* The greater one of two numbers.
LEMMA MaxOfTwo ==
    ASSUME NEW x \in Nat, NEW y \in Nat
    PROVE  MaxOf({x, y}) \in {x, y} /\ x <= MaxOf({x, y}) /\ y <= MaxOf({x, y})
<1>1. {x, y} \subseteq 0 .. x + y /\ {x, y} # {}
  OBVIOUS
<1>2. x + y \in Nat
  OBVIOUS
<1> QED
  BY <1>1, <1>2, MaxOfIs

\* dl_array_push_n
LEMMA ArrayPushNStep ==
    ASSUME ClientInv, NEW n \in Batches, NEW fuel \in Fuel, dl_array_push_n(n, fuel)
    PROVE  ClientInv' /\ AllocatorStep
<1> DEFINE len == Len(array.data)
           m == array.nalloc
           x == MaxOf({n, m})
<1>1. HasArray /\ Push(n, len + n > m, 2 * x, len, fuel) /\ fuel \in Nat
  <2>1. Push(n, len + n > m, 2 * x, len, fuel)
    BY DEF dl_array_push_n
  <2>2. HasArray
    BY DEF dl_array_push_n, Push
  <2> QED
    BY <2>1, <2>2 DEF Fuel
<1>2. len \in Nat /\ m \in Nat \ {0} /\ len <= m
  BY <1>1 DEF ClientInv, ArrayKept, HasArray, ArrayType
<1>3. n \in Nat \ {0}
  BY ClientsAssumption
<1>4. x \in {n, m} /\ n <= x /\ m <= x
  BY <1>2, <1>3, MaxOfTwo
<1> HIDE DEF len, m, x
<1>5. x \in Nat \ {0}
  BY <1>2, <1>3, <1>4
<1>6. /\ 2 * x \in Nat \ {0} /\ len + n <= 2 * x /\ len <= len
      /\ ~(len + n > m) => len + n <= m
  BY <1>2, <1>3, <1>4, <1>5
<1> DEFINE full == len + n > m
           double == 2 * x
<1>7. /\ n \in Nat \ {0} /\ full \in BOOLEAN /\ double \in Nat \ {0} /\ len \in Nat
      /\ Push(n, full, double, len, fuel)
      /\ ~full => Len(array.data) + n <= array.nalloc
      /\ Len(array.data) + n <= double /\ Len(array.data) <= len
  BY <1>1, <1>2, <1>3, <1>6 DEF len, m
<1> HIDE DEF full, double
<1> QED
  BY <1>1, <1>7, PushStep

\* d.last moved to where it is.
LEMMA LastSetSame ==
    ASSUME NEW p \in PoolType, 1 \in ChainIdx(p)
    PROVE  LastSet(p, p.chain[1].last) = p
<1> DEFINE d == p.chain
           c == d[1]
<1>1. d \in Seq(ChainBlock) /\ 1 \in DOMAIN d /\ c \in ChainBlock
  BY DEF PoolType, ChainIdx
<1>2. [c EXCEPT !.last = c.last] = c
  <2> HIDE DEF c
  <2> QED
    BY <1>1 DEF ChainBlock
<1>3. [d EXCEPT ![1] = c] = d
  <2> HIDE DEF d
  <2> QED
    BY <1>1
<1>4. [p EXCEPT !.chain = d] = p
  BY DEF PoolType
<1>5. LastSet(p, c.last) = [p EXCEPT !.chain = [d EXCEPT ![1] = [c EXCEPT !.last = c.last]]]
  BY DEF LastSet
<1> HIDE DEF c, d
<1>6. LastSet(p, c.last) = p
  BY <1>2, <1>3, <1>4, <1>5
<1> QED
  BY <1>6 DEF c, d

\* B is the block at d.last, which begins at x, or nothing, and x is d.last.
AtLast(p, L, B, x) ==
    \/ B = {} /\ x = p.chain[1].last
    \/ \E b \in L : B = {b} /\ b.at + b.len = p.chain[1].last /\ x = b.at

\* It goes back to the pool.
LEMMA BackGood ==
    ASSUME NEW p, NEW h, NEW L, Kept(p, h, L, {}), NEW B, NEW x, AtLast(p, L, B, x),
           NEW q, q = LastSet(p, x)
    PROVE  /\ Kept(q, h, L \ B, {}) /\ q.cleanup = p.cleanup /\ q.chain[1].last = x
           /\ B \subseteq L /\ IsFiniteSet(B)
<1>1. CASE B = {} /\ x = p.chain[1].last
  <2>1. q = p
    BY <1>1, FirstBlock, LastSetSame
  <2>2. L \ B = L /\ IsFiniteSet(B)
    BY <1>1, FS_EmptySet
  <2> QED
    BY <1>1, <2>1, <2>2
<1>2. CASE \E b \in L : B = {b} /\ b.at + b.len = p.chain[1].last /\ x = b.at
  <2>1. PICK b \in L : B = {b} /\ b.at + b.len = p.chain[1].last /\ x = b.at
    BY <1>2
  <2>2. Kept(q, h, L \ {b}, {}) /\ q.cleanup = p.cleanup /\ q.chain[1].last = b.at
    BY <2>1, ShrinkGood
  <2>3. IsFiniteSet(B)
    BY <2>1, FS_Singleton
  <2> QED
    BY <2>1, <2>2, <2>3
<1> QED
  BY <1>1, <1>2 DEF AtLast

\* dl_array_destroy
LEMMA ArrayDestroyStep ==
    ASSUME ClientInv, dl_array_destroy
    PROVE  ClientInv' /\ AllocatorStep
<1> DEFINE last == pool.chain[1].last
           less == IF AtEnd THEN last - ElemSize * array.nalloc ELSE last
           header == array.at # Elsewhere /\ array.at + ArraySize = less
           e == Elements(array.elts, array.nalloc)
           hb == Block(array.at, ArraySize)
           E == IF AtEnd THEN {e} ELSE {}
           H == IF header THEN {hb} ELSE {}
           x == IF header THEN array.at ELSE less
           q == LastSet(pool, less)
           L == live \ E
<1>1. /\ kind = "array" /\ Open /\ HasArray /\ kind' = kind /\ list' = list /\ array' = NoArray
      /\ pool' = LastSet(pool, x) /\ heap' = heap
      /\ live' = live \ (E \cup H) /\ held' = held - Cardinality(E \cup H)
  BY DEF dl_array_destroy, LastSet
<1>2. /\ PoolInv /\ Tallied(live, held) /\ NoRecords /\ KindsOK
      /\ array \in ArrayType /\ e \in live
      /\ HeaderBlock(array.at, ArraySize) \subseteq live \ {e}
      /\ list = NoList
  BY <1>1 DEF ClientInv, ArrayKept, HasArray, KindsOK
<1>3. Kept(pool, heap, live, {})
  BY <1>1, <1>2 DEF PoolInv, PoolOK, Open
<1>4. /\ array.elts \in Nat /\ array.nalloc \in Nat /\ array.at \in Int
      /\ ElemSize \in Nat /\ ArraySize \in Nat /\ last \in Nat
  BY <1>2, <1>3, FirstBlock, ClientsAssumption DEF ArrayType
<1>5. e.at = array.elts /\ e.len = array.nalloc * ElemSize
      /\ hb.at = array.at /\ hb.len = ArraySize
  BY DEF Elements, Block
<1>6. AtEnd => e.at + e.len = last /\ less = e.at
  <2> DEFINE m == array.nalloc
             y == array.elts
  <2>1. AtEnd => y + ElemSize * m = last
    BY DEF AtEnd
  <2>2. m * ElemSize = ElemSize * m /\ ElemSize * m \in Nat
    BY <1>4
  <2> HIDE DEF last, m, y
  <2>3. AtEnd => y + m * ElemSize = last /\ last - ElemSize * m = y
    BY <1>4, <2>1, <2>2 DEF y
  <2> QED
    BY <1>5, <2>3 DEF m, y
<1>7. AtLast(pool, live, E, less)
  <2>1. CASE AtEnd
    <3>1. E = {e} /\ e.at + e.len = pool.chain[1].last /\ less = e.at
      BY <1>6, <2>1
    <3> HIDE DEF e, E, less
    <3> QED
      BY <1>2, <3>1 DEF AtLast
  <2>2. CASE ~AtEnd
    <3>1. E = {} /\ less = pool.chain[1].last
      BY <2>2
    <3> HIDE DEF E, less
    <3> QED
      BY <3>1 DEF AtLast
  <2> QED
    BY <2>1, <2>2
<1>8. /\ Kept(q, heap, L, {}) /\ q.cleanup = pool.cleanup /\ q.chain[1].last = less
      /\ E \subseteq live
  <2> HIDE DEF less, E
  <2> QED
    BY <1>3, <1>7, BackGood
<1>9. AtLast(q, L, H, x)
  <2>1. CASE header
    <3>1. HeaderBlock(array.at, ArraySize) = {hb}
      BY <2>1 DEF HeaderBlock
    <3>2. hb \in L
      BY <1>2, <3>1
    <3>3. H = {hb} /\ x = hb.at /\ hb.at + hb.len = less
      BY <1>5, <2>1
    <3> HIDE DEF q, L, H, x, hb, less
    <3> QED
      BY <1>8, <3>2, <3>3 DEF AtLast
  <2>2. CASE ~header
    <3>1. H = {} /\ x = less
      BY <2>2
    <3> HIDE DEF q, L, H, x, less
    <3> QED
      BY <1>8, <3>1 DEF AtLast
  <2> QED
    BY <2>1, <2>2
<1> DEFINE r == LastSet(q, x)
<1>10. Kept(r, heap, L \ H, {}) /\ r.cleanup = pool.cleanup /\ H \subseteq L
  <2> HIDE DEF q, L, H, x
  <2> QED
    BY <1>8, <1>9, BackGood
<1>11. r = pool'
  <2> HIDE DEF x, less
  <2> QED
    BY <1>1, <1>3, FirstBlock, LastSetTwice
<1> HIDE DEF r, q, x, less, header
<1>12. live' = L \ H /\ E \cup H \subseteq live
  BY <1>1, <1>8, <1>10
<1>13. PoolInv'
  BY <1>1, <1>10, <1>11, <1>12, KeptOpen DEF PoolInv
<1>14. Tallied(live', held') /\ AllocatorStep
  <2> DEFINE B == E \cup H
  <2>1. B \subseteq live /\ live' = live \ B /\ held' = held - Cardinality(B)
    BY <1>1, <1>12
  <2> HIDE DEF B
  <2> QED
    BY <1>2, <2>1, TakeStep
<1>15. NoRecords' /\ KindsOK' /\ ArrayKept(array', live') /\ ListKept(list', live')
  BY <1>1, <1>2, <1>10, <1>11 DEF NoRecords, KindsOK, ArrayKept, ListKept
<1> QED
  BY <1>13, <1>14, <1>15 DEF ClientInv

\* A list that has just been made.
LEMMA NewList ==
    ASSUME NEW at \in Int, NEW elts \in Nat, NEW n \in Nat \ {0}, NEW L,
           HeaderBlock(at, ListSize) \cup {Elements(elts, n)} \subseteq L,
           Elements(elts, n) \notin HeaderBlock(at, ListSize)
    PROVE  ListKept([at |-> at, nalloc |-> n, nelts |-> 0,
                     parts |-> <<Part(Elsewhere, elts, <<>>)>>], L)
<1> DEFINE none == <<>>
           part == [at |-> -1, elts |-> elts, data |-> none]
           parts == <<part>>
           l == [at |-> at, nalloc |-> n, nelts |-> 0, parts |-> parts]
<1>1. none \in Seq(Nat) /\ Len(none) = 0 /\ DOMAIN none = {}
  OBVIOUS
<1>2. part = Part(Elsewhere, elts, <<>>)
  BY DEF Part, Elsewhere, Null
<1> HIDE DEF none
<1>3. part \in PartType /\ part.elts = elts /\ part.data = none
  BY <1>1 DEF PartType
<1> HIDE DEF part
<1>4. parts \in Seq(PartType) /\ Len(parts) = 1 /\ parts[1] = part
  BY <1>3
<1> HIDE DEF parts
<1>5. l \in ListType /\ l.at = at /\ l.nalloc = n /\ l.nelts = 0 /\ l.parts = parts
  BY <1>4 DEF ListType
<1> HIDE DEF l
<1>6. HeaderOf(l, 1) = HeaderBlock(at, ListSize) /\ Run(l, 1) = Elements(elts, n)
  BY <1>3, <1>4, <1>5 DEF HeaderOf, Run
<1>7. PartKept(l, 1)
  <2>1. Run(l, 1) \notin HeaderOf(l, 1)
    BY <1>6
  <2>2. Len(l.parts[1].data) = 0 /\ DOMAIN l.parts[1].data = {}
    BY <1>1, <1>3, <1>4, <1>5
  <2>3. Len(l.parts) = 1 /\ l.nalloc = n
    BY <1>4, <1>5
  <2>4. 0 <= n /\ ~(1 < 1)
    OBVIOUS
  <2>5. Len(l.parts[1].data) <= l.nalloc /\ ~(1 < Len(l.parts))
    BY <2>2, <2>3, <2>4
  <2> QED
    BY <2>1, <2>2, <2>5 DEF PartKept
<1>8. Memory(l, 1) \subseteq L
  BY <1>6 DEF Memory
<1>9. Len(l.parts) = 1 /\ 1 .. Len(l.parts) = {1}
  <2>1. Len(l.parts) = 1
    BY <1>4, <1>5
  <2>2. 1 .. 1 = {1}
    OBVIOUS
  <2> QED
    BY <2>1, <2>2
<1>10. l.nelts = (Len(l.parts) - 1) * l.nalloc + Len(l.parts[Len(l.parts)].data)
  <2>1. l.parts[Len(l.parts)] = part
    BY <1>4, <1>5
  <2>2. Len(l.parts[Len(l.parts)].data) = 0
    BY <1>1, <1>3, <2>1
  <2>3. (1 - 1) * n + 0 = 0
    OBVIOUS
  <2>4. l.nelts = 0 /\ l.nalloc = n
    BY <1>5
  <2> QED
    BY <1>9, <2>2, <2>3, <2>4
<1>11. ListKept(l, L)
  <2>1. Len(l.parts) >= 1
    <3>1. 1 >= 1
      OBVIOUS
    <3> QED
      BY <1>9, <3>1
  <2>2. \A k \in 1 .. Len(l.parts) : k = 1
    BY <1>9
  <2>3. \A k \in 1 .. Len(l.parts) : Memory(l, k) \subseteq L /\ PartKept(l, k)
    BY <1>7, <1>8, <2>2
  <2>4. \A k, m \in 1 .. Len(l.parts) : k # m => Memory(l, k) \cap Memory(l, m) = {}
    BY <2>2
  <2> QED
    BY <1>5, <1>10, <2>1, <2>3, <2>4 DEF ListKept
<1> QED
  BY <1>2, <1>11 DEF l, parts, none

\* dl_list_create and dl_list_init
LEMMA ListInitStep ==
    ASSUME ClientInv, NEW n \in Counts, NEW inPool \in BOOLEAN, NEW fuel \in CleanupFuel,
           ListInit(n, inPool, fuel)
    PROVE  ClientInv' /\ AllocatorStep
<1> DEFINE made == HeaderAndElements(ListSize, inPool, n, fuel)
           s == made.then
           hb == HeaderBlock(made.header, ListSize)
           e == Elements(s.at, n)
           new == [at |-> made.header, nalloc |-> n, nelts |-> 0,
                   parts |-> <<Part(Elsewhere, s.at, <<>>)>>]
<1>1. /\ kind = "list" /\ Open /\ Keep(s) /\ kind' = kind /\ array' = array
      /\ IF s.at = Null THEN Give({}) /\ list' = list
         ELSE Give(hb \cup {e}) /\ list' = new
  BY DEF ListInit
<1>2. n \in Nat \ {0} /\ ListSize \in Nat \ {0} /\ fuel \in Nat
  BY ClientsAssumption DEF CleanupFuel
<1>3. PoolInv /\ Tallied(live, held) /\ NoRecords /\ KindsOK /\ ArrayKept(array, live) /\ ListKept(list, live)
  BY DEF ClientInv
<1>4. /\ Given(Call(fuel), s, live, hb \cup {e})
      /\ s.at # Null => e \notin hb /\ made.header \in Int /\ s.at \in Nat
  BY <1>1, <1>2, <1>3, HeaderAndElementsGives
<1> HIDE DEF made, s, hb, e
<1>5. Give(IF s.at = Null THEN {} ELSE hb \cup {e})
  BY <1>1
<1>6. /\ PoolInv' /\ Tallied(live', held') /\ AllocatorStep
      /\ live \subseteq live' /\ pool'.cleanup = pool.cleanup
      /\ s.at # Null => hb \cup {e} \subseteq live'
  BY <1>1, <1>2, <1>3, <1>4, <1>5, CallStep
<1>7. NoRecords' /\ KindsOK'
  BY <1>1, <1>3, <1>6 DEF NoRecords, KindsOK
<1>8. ArrayKept(array', live')
  BY <1>1, <1>3, <1>6, KeptMore
<1>9. ListKept(list', live')
  <2>1. CASE s.at = Null
    BY <1>1, <1>3, <1>6, <2>1, KeptMore
  <2>2. CASE s.at # Null
    <3>1. list' = new
      BY <1>1, <2>2
    <3>2. /\ made.header \in Int /\ s.at \in Nat
          /\ HeaderBlock(made.header, ListSize) \cup {Elements(s.at, n)} \subseteq live'
          /\ Elements(s.at, n) \notin HeaderBlock(made.header, ListSize)
      BY <1>4, <1>6, <2>2 DEF hb, e
    <3>3. ListKept(new, live')
      BY <1>2, <3>2, NewList
    <3> HIDE DEF new
    <3> QED
      BY <3>1, <3>3
  <2> QED
    BY <2>1, <2>2
<1> QED
  BY <1>6, <1>7, <1>8, <1>9 DEF ClientInv

\* What an element more at the end of a part makes of it.
LEMMA AppendIs ==
    ASSUME NEW d \in Seq(Nat), NEW x \in Nat, NEW base \in Nat,
           \A j \in DOMAIN d : d[j] = base + j, x = base + Len(d) + 1
    PROVE  /\ Append(d, x) \in Seq(Nat) /\ Len(Append(d, x)) = Len(d) + 1
           /\ \A j \in DOMAIN Append(d, x) : Append(d, x)[j] = base + j
<1> DEFINE e == Append(d, x)
<1>1. e \in Seq(Nat) /\ Len(e) = Len(d) + 1 /\ Len(d) \in Nat
  OBVIOUS
<1>2. DOMAIN e = 1 .. Len(d) + 1
  BY <1>1
<1>3. ASSUME NEW j \in 1 .. Len(d) + 1 PROVE e[j] = base + j
  <2>1. CASE j = Len(d) + 1
    <3>1. e[j] = x
      BY <2>1
    <3> QED
      BY <1>1, <2>1, <3>1
  <2>2. CASE j # Len(d) + 1
    <3>1. j \in DOMAIN d /\ e[j] = d[j]
      BY <1>1, <2>2
    <3> QED
      BY <3>1
  <2> QED
    BY <2>1, <2>2
<1> QED
  BY <1>1, <1>2, <1>3

\* What a list with parts holds.
LEMMA ListFacts ==
    ASSUME NEW l, NEW L, ListKept(l, L), l # NoList
    PROVE  LET n == Len(l.parts)
           IN  /\ l \in ListType /\ n \in Nat \ {0} /\ l.parts \in Seq(PartType)
               /\ l.nalloc \in Nat \ {0} /\ l.nelts \in Nat /\ l.at \in Int
               /\ \A k \in 1 .. n : /\ l.parts[k] \in PartType /\ l.parts[k].data \in Seq(Nat)
                                    /\ Memory(l, k) \subseteq L /\ PartKept(l, k)
               /\ l.nelts = (n - 1) * l.nalloc + Len(l.parts[n].data)
               /\ (n - 1) * l.nalloc \in Nat
<1> DEFINE n == Len(l.parts)
<1>1. /\ l \in ListType /\ n >= 1
      /\ \A k \in 1 .. n : Memory(l, k) \subseteq L /\ PartKept(l, k)
      /\ l.nelts = (n - 1) * l.nalloc + Len(l.parts[n].data)
  BY DEF ListKept
<1>2. /\ l.parts \in Seq(PartType) /\ l.nalloc \in Nat \ {0} /\ l.nelts \in Nat /\ l.at \in Int
  BY <1>1 DEF ListType
<1>3. n \in Nat \ {0}
  BY <1>1, <1>2
<1>4. ASSUME NEW k \in 1 .. n PROVE l.parts[k] \in PartType /\ l.parts[k].data \in Seq(Nat)
  <2>1. l.parts[k] \in PartType
    BY <1>2
  <2> QED
    BY <2>1 DEF PartType
<1>5. (n - 1) * l.nalloc \in Nat
  <2> DEFINE m == l.nalloc
  <2>1. n - 1 \in Nat /\ m \in Nat
    BY <1>2, <1>3
  <2> HIDE DEF n, m
  <2>2. (n - 1) * m \in Nat
    BY <2>1
  <2> QED
    BY <2>2 DEF m
<1> QED
  BY <1>1, <1>2, <1>3, <1>4, <1>5

\* A list with one more element in its last part.
LEMMA ListInPart ==
    ASSUME NEW l, NEW L, ListKept(l, L), l # NoList, NEW k, k = Len(l.parts),
           Len(l.parts[k].data) < l.nalloc,
           NEW b, b = [l EXCEPT !.nelts = l.nelts + 1,
                                !.parts[k].data = Append(@, l.nelts + 1)]
    PROVE  ListKept(b, L)
<1> DEFINE p == l.parts[k]
           elt == l.nelts + 1
           base == (k - 1) * l.nalloc
           d == Append(p.data, elt)
           part == [p EXCEPT !.data = d]
           parts == [l.parts EXCEPT ![k] = part]
<1>1. /\ l \in ListType /\ k \in Nat \ {0} /\ l.parts \in Seq(PartType)
      /\ l.nalloc \in Nat \ {0} /\ l.nelts \in Nat /\ k \in 1 .. k
      /\ p \in PartType /\ p.data \in Seq(Nat) /\ PartKept(l, k)
      /\ l.nelts = base + Len(p.data) /\ base \in Nat
  BY ListFacts
<1>2. /\ Len(p.data) \in Nat /\ elt \in Nat /\ elt = base + Len(p.data) + 1
      /\ \A j \in DOMAIN p.data : p.data[j] = base + j
  <2>1. Len(p.data) \in Nat
    BY <1>1
  <2>2. \A j \in DOMAIN p.data : p.data[j] = base + j
    BY <1>1 DEF PartKept
  <2> HIDE DEF base
  <2> QED
    BY <1>1, <2>1, <2>2
<1>3. /\ d \in Seq(Nat) /\ Len(d) = Len(p.data) + 1
      /\ \A j \in DOMAIN d : d[j] = base + j
  <2> DEFINE x == p.data
  <2>1. /\ x \in Seq(Nat) /\ elt \in Nat /\ base \in Nat
        /\ \A j \in DOMAIN x : x[j] = base + j
        /\ elt = base + Len(x) + 1
    BY <1>1, <1>2
  <2> HIDE DEF base, elt, x
  <2>2. /\ Append(x, elt) \in Seq(Nat) /\ Len(Append(x, elt)) = Len(x) + 1
        /\ \A j \in DOMAIN Append(x, elt) : Append(x, elt)[j] = base + j
    BY <2>1, AppendIs
  <2> QED
    BY <2>2 DEF x
<1>4. b = [l EXCEPT !.nelts = elt, !.parts = parts]
  OBVIOUS
<1> HIDE DEF d, elt, base
<1>5. part \in PartType /\ part.at = p.at /\ part.elts = p.elts /\ part.data = d
  BY <1>1, <1>3 DEF PartType
<1> HIDE DEF part
<1>6. parts \in Seq(PartType) /\ Len(parts) = k /\ parts[k] = part
      /\ \A i \in 1 .. k : i # k => parts[i] = l.parts[i]
  BY <1>1, <1>5
<1> HIDE DEF parts
<1>7. b \in ListType /\ b.at = l.at /\ b.nalloc = l.nalloc /\ b.nelts = elt /\ b.parts = parts
  BY <1>1, <1>2, <1>4, <1>6 DEF ListType
<1>8. ASSUME NEW i \in 1 .. k
      PROVE  HeaderOf(b, i) = HeaderOf(l, i) /\ Run(b, i) = Run(l, i) /\ Memory(b, i) = Memory(l, i)
  <2>1. b.parts[i].at = l.parts[i].at /\ b.parts[i].elts = l.parts[i].elts
    BY <1>5, <1>6, <1>7
  <2>2. HeaderOf(b, i) = HeaderOf(l, i) /\ Run(b, i) = Run(l, i)
    BY <1>7, <2>1 DEF HeaderOf, Run
  <2> QED
    BY <2>2 DEF Memory
<1>9. Len(b.parts) = k /\ b.parts[k].data = d
  BY <1>5, <1>6, <1>7
<1>10. ASSUME NEW i \in 1 .. k PROVE PartKept(b, i) /\ Memory(b, i) \subseteq L
  <2>1. Memory(l, i) \subseteq L /\ PartKept(l, i)
    BY ListFacts
  <2>2. CASE i # k
    <3>1. b.parts[i] = l.parts[i] /\ Run(b, i) = Run(l, i) /\ HeaderOf(b, i) = HeaderOf(l, i)
      BY <1>6, <1>7, <1>8, <2>2
    <3> QED
      BY <1>7, <1>8, <1>9, <2>1, <3>1 DEF PartKept
  <2>3. CASE i = k
    <3>1. Run(b, k) \notin HeaderOf(b, k)
      BY <1>1, <1>8 DEF PartKept
    <3>2. Len(d) <= b.nalloc /\ ~(k < k)
      <4> DEFINE x == Len(p.data)
                 m == l.nalloc
      <4>1. x \in Nat /\ m \in Nat /\ x < m /\ Len(d) = x + 1
        BY <1>1, <1>2, <1>3
      <4> HIDE DEF x, m
      <4>2. Len(d) <= m /\ ~(k < k)
        BY <1>1, <4>1
      <4> QED
        BY <1>7, <4>2 DEF m
    <3>3. \A j \in DOMAIN d : d[j] = (k - 1) * b.nalloc + j
      BY <1>3, <1>7 DEF base
    <3> QED
      BY <1>8, <1>9, <2>1, <2>3, <3>1, <3>2, <3>3 DEF PartKept
  <2> QED
    BY <2>2, <2>3
<1>11. \A i, j \in 1 .. k : i # j => Memory(b, i) \cap Memory(b, j) = {}
  <2>1. \A i, j \in 1 .. k : i # j => Memory(l, i) \cap Memory(l, j) = {}
    BY DEF ListKept
  <2> QED
    BY <1>8, <2>1
<1>12. b.nelts = (k - 1) * b.nalloc + Len(b.parts[k].data)
  <2>1. b.nelts = base + Len(p.data) + 1 /\ Len(b.parts[k].data) = Len(p.data) + 1
    BY <1>2, <1>3, <1>7, <1>9
  <2>2. (k - 1) * b.nalloc = base
    BY <1>7 DEF base
  <2> DEFINE x == Len(p.data)
  <2>3. x \in Nat /\ base \in Nat
    BY <1>1, <1>2
  <2>4. b.nelts = base + x + 1 /\ Len(b.parts[k].data) = x + 1
    BY <2>1
  <2> HIDE DEF x
  <2>5. base + x + 1 = base + (x + 1)
    BY <2>3
  <2> QED
    BY <2>2, <2>4, <2>5
<1>13. k >= 1
  BY <1>1
<1> QED
  BY <1>7, <1>9, <1>10, <1>11, <1>12, <1>13 DEF ListKept

\* A list with a part more, whose memory nobody held before.
LEMMA ListNewPart ==
    ASSUME NEW l, NEW L, ListKept(l, L), l # NoList, NEW k, k = Len(l.parts),
           l.nalloc <= Len(l.parts[k].data),
           NEW at \in Int, at # Elsewhere, NEW elts \in Nat,
           NEW B, B = HeaderBlock(at, PartSize) \cup {Elements(elts, l.nalloc)},
           B \cap L = {}, Elements(elts, l.nalloc) \notin HeaderBlock(at, PartSize),
           NEW M, L \cup B \subseteq M,
           NEW b, b = [l EXCEPT !.nelts = l.nelts + 1,
                                !.parts = Append(@, Part(at, elts, <<l.nelts + 1>>))]
    PROVE  ListKept(b, M)
<1> DEFINE elt == l.nelts + 1
           base == k * l.nalloc
           d == <<elt>>
           part == [at |-> at, elts |-> elts, data |-> d]
           parts == Append(l.parts, part)
           n == k + 1
<1>1. /\ l \in ListType /\ k \in Nat \ {0} /\ l.parts \in Seq(PartType)
      /\ l.nalloc \in Nat \ {0} /\ l.nelts \in Nat /\ k \in 1 .. k
      /\ PartKept(l, k) /\ l.parts[k].data \in Seq(Nat)
      /\ l.nelts = (k - 1) * l.nalloc + Len(l.parts[k].data)
  BY ListFacts
<1>2. Len(l.parts[k].data) = l.nalloc
  <2> DEFINE x == Len(l.parts[k].data)
             m == l.nalloc
  <2>1. x <= m
    BY <1>1 DEF PartKept
  <2>2. x \in Nat /\ m \in Nat /\ m <= x
    BY <1>1
  <2> HIDE DEF x, m
  <2>3. x = m
    BY <2>1, <2>2
  <2> QED
    BY <2>3 DEF x, m
<1>3. l.nelts = base /\ elt = base + 1 /\ elt \in Nat
  <2> DEFINE m == l.nalloc
  <2>1. l.nelts = (k - 1) * m + m /\ m \in Nat /\ k \in Nat
    BY <1>1, <1>2
  <2> HIDE DEF m
  <2>2. (k - 1) * m + m = k * m
    BY <2>1
  <2>3. l.nelts = base
    BY <2>1, <2>2 DEF m
  <2> QED
    BY <1>1, <2>3
<1>4. d \in Seq(Nat) /\ Len(d) = 1 /\ d[1] = elt /\ DOMAIN d = {1}
  <2> HIDE DEF elt
  <2> QED
    BY <1>3
<1>5. b = [l EXCEPT !.nelts = elt, !.parts = parts]
  BY DEF Part
<1> HIDE DEF d, elt, base
<1>6. part \in PartType /\ part.at = at /\ part.elts = elts /\ part.data = d
  BY <1>4 DEF PartType
<1> HIDE DEF part
<1>7. parts \in Seq(PartType) /\ Len(parts) = n /\ parts[n] = part
      /\ \A i \in 1 .. k : parts[i] = l.parts[i]
  BY <1>1, <1>6
<1> HIDE DEF parts
<1>8. b \in ListType /\ b.at = l.at /\ b.nalloc = l.nalloc /\ b.nelts = elt /\ b.parts = parts
  BY <1>1, <1>3, <1>5, <1>7 DEF ListType
<1>9. ASSUME NEW i \in 1 .. k
      PROVE  /\ b.parts[i] = l.parts[i]
             /\ HeaderOf(b, i) = HeaderOf(l, i) /\ Run(b, i) = Run(l, i) /\ Memory(b, i) = Memory(l, i)
  <2>1. b.parts[i] = l.parts[i]
    BY <1>7, <1>8
  <2>2. HeaderOf(b, i) = HeaderOf(l, i) /\ Run(b, i) = Run(l, i)
    BY <1>8, <2>1 DEF HeaderOf, Run
  <2> QED
    BY <2>1, <2>2 DEF Memory
<1>10. /\ Len(b.parts) = n /\ b.parts[n].data = d
       /\ n \in Nat /\ n # 1 /\ n >= 1 /\ n - 1 = k
       /\ \A i \in 1 .. n : i = n \/ i \in 1 .. k
       /\ \A i \in 1 .. k : i < n /\ i # n
  <2>1. Len(b.parts) = n /\ b.parts[n].data = d
    BY <1>6, <1>7, <1>8
  <2>2. \A x \in Nat \ {0} :
           /\ x + 1 \in Nat /\ x + 1 # 1 /\ x + 1 >= 1 /\ (x + 1) - 1 = x
           /\ \A i \in 1 .. x + 1 : i = x + 1 \/ i \in 1 .. x
           /\ \A i \in 1 .. x : i < x + 1 /\ i # x + 1
    OBVIOUS
  <2>3. k \in Nat \ {0}
    BY <1>1
  <2> HIDE DEF d, parts
  <2> QED
    BY <2>1, <2>2, <2>3
<1>11. /\ HeaderOf(b, n) = HeaderBlock(at, PartSize) /\ Run(b, n) = Elements(elts, l.nalloc)
       /\ Memory(b, n) = B
  <2>1. b.parts[n].at = at /\ b.parts[n].elts = elts
    BY <1>6, <1>7, <1>8
  <2>2. HeaderOf(b, n) = HeaderBlock(at, PartSize) /\ Run(b, n) = Elements(elts, l.nalloc)
    BY <1>8, <1>10, <2>1 DEF HeaderOf, Run
  <2> QED
    BY <2>2 DEF Memory
<1> HIDE DEF n
<1>12. ASSUME NEW i \in 1 .. k PROVE PartKept(b, i) /\ Memory(b, i) \subseteq M
  <2>1. Memory(l, i) \subseteq L /\ PartKept(l, i)
    BY ListFacts
  <2>2. Len(l.parts[i].data) = l.nalloc
    <3>1. CASE i = k
      BY <1>2, <3>1
    <3>2. CASE i # k
      <4>1. i < k
        BY <1>1, <3>2
      <4> QED
        BY <2>1, <4>1 DEF PartKept
    <3> QED
      BY <3>1, <3>2
  <2>3. PartKept(b, i)
    BY <1>8, <1>9, <2>1, <2>2 DEF PartKept
  <2> QED
    BY <1>9, <2>1, <2>3
<1>13. PartKept(b, n) /\ Memory(b, n) \subseteq M
  <2>1. Run(b, n) \notin HeaderOf(b, n) /\ Memory(b, n) \subseteq M
    BY <1>11
  <2>2. Len(b.parts[n].data) = 1 /\ 1 <= b.nalloc /\ ~(n < n)
    <3>1. 1 <= l.nalloc /\ ~(n < n)
      BY <1>1, <1>10
    <3> QED
      BY <1>4, <1>8, <1>10, <3>1
  <2>3. ASSUME NEW j \in DOMAIN b.parts[n].data
        PROVE  b.parts[n].data[j] = (n - 1) * b.nalloc + j
    <3>1. j = 1 /\ b.parts[n].data[j] = elt
      BY <1>4, <1>10
    <3>2. (n - 1) * b.nalloc = base
      BY <1>8, <1>10 DEF base
    <3> QED
      BY <1>3, <3>1, <3>2
  <2> QED
    BY <1>10, <2>1, <2>2, <2>3 DEF PartKept
<1>14. ASSUME NEW i \in 1 .. n, NEW j \in 1 .. n, i # j
       PROVE  Memory(b, i) \cap Memory(b, j) = {}
  <2>1. \A x \in 1 .. k : Memory(b, x) \subseteq L /\ Memory(b, x) = Memory(l, x)
    BY <1>9, ListFacts
  <2>2. \A x, y \in 1 .. k : x # y => Memory(l, x) \cap Memory(l, y) = {}
    BY DEF ListKept
  <2>3. CASE i \in 1 .. k /\ j \in 1 .. k
    BY <1>14, <2>1, <2>2, <2>3
  <2>4. CASE i = n \/ j = n
    <3>1. (i = n /\ j \in 1 .. k) \/ (j = n /\ i \in 1 .. k)
      BY <1>10, <1>14, <2>4
    <3> QED
      BY <1>11, <2>1, <3>1
  <2> QED
    BY <1>10, <2>3, <2>4
<1>15. b.nelts = (n - 1) * b.nalloc + Len(b.parts[n].data)
  <2>1. (n - 1) * b.nalloc = base /\ Len(b.parts[n].data) = 1
    BY <1>4, <1>8, <1>10 DEF base
  <2> QED
    BY <1>3, <1>8, <2>1
<1>16. \A i \in 1 .. n : Memory(b, i) \subseteq M /\ PartKept(b, i)
  BY <1>10, <1>12, <1>13
<1> QED
  BY <1>8, <1>10, <1>14, <1>15, <1>16 DEF ListKept

LEMMA ListPushStep ==
    ASSUME ClientInv, NEW fuel \in CleanupFuel, dl_list_push(fuel)
    PROVE  ClientInv' /\ AllocatorStep
<1> DEFINE k == Len(list.parts)
           room == Len(list.parts[k].data) < list.nalloc
           m == list.nalloc
           made == HeaderAndElements(PartSize, TRUE, m, fuel)
           s == made.then
           hb == HeaderBlock(made.header, PartSize)
           e == Elements(s.at, m)
           B == hb \cup {e}
           inPart == [list EXCEPT !.nelts = list.nelts + 1,
                                  !.parts[k].data = Append(@, list.nelts + 1)]
           longer == [list EXCEPT !.nelts = list.nelts + 1,
                         !.parts = Append(@, Part(made.header, s.at, <<list.nelts + 1>>))]
<1>1. /\ kind = "list" /\ Open /\ list # NoList /\ kind' = kind /\ array' = array
      /\ IF room THEN list' = inPart /\ UNCHANGED <<pool, heap, live, held>>
         ELSE /\ Keep(s)
              /\ IF s.at = Null THEN Give({}) /\ list' = list
                 ELSE Give({Block(made.header, PartSize), e}) /\ list' = longer
  BY DEF dl_list_push, HasList
<1>2. /\ PoolInv /\ Tallied(live, held) /\ NoRecords /\ KindsOK
      /\ ArrayKept(array, live) /\ ListKept(list, live)
  BY DEF ClientInv
<1>3. k \in Nat \ {0} /\ m \in Nat \ {0} /\ Len(list.parts[k].data) \in Nat
  BY <1>1, <1>2, ListFacts
<1>4. array = NoArray /\ ArrayKept(array', live')
  BY <1>1, <1>2 DEF KindsOK, ArrayKept
<1>5. CASE room
  <2> HIDE DEF inPart, longer, k, made
  <2>1. list' = inPart /\ pool' = pool /\ heap' = heap /\ live' = live /\ held' = held
    BY <1>1, <1>5
  <2>2. ListKept(inPart, live)
    <3>1. Len(list.parts[k].data) < list.nalloc /\ k = Len(list.parts)
      BY <1>5 DEF k
    <3>2. inPart = [list EXCEPT !.nelts = list.nelts + 1,
                                !.parts[k].data = Append(@, list.nelts + 1)]
      BY DEF inPart
    <3> HIDE DEF m
    <3> QED
      BY <1>1, <1>2, <3>1, <3>2, ListInPart
  <2>3. PoolInv' /\ Tallied(live', held') /\ AllocatorStep
    BY <1>2, <2>1 DEF PoolInv, PoolOK, Tallied, AllocatorStep
  <2>4. NoRecords' /\ KindsOK'
    BY <1>1, <1>2, <1>4, <2>1 DEF NoRecords, KindsOK, Open
  <2> QED
    BY <1>4, <2>1, <2>2, <2>3, <2>4 DEF ClientInv
<1>6. CASE ~room
  <2>1. PartSize \in Nat \ {0} /\ fuel \in Nat
    BY ClientsAssumption DEF CleanupFuel
  <2>2. /\ Given(Call(fuel), s, live, B)
        /\ s.at # Null => /\ e \notin hb /\ made.header \in Int /\ s.at \in Nat
                          /\ hb = {Block(made.header, PartSize)}
    <3> HIDE DEF m
    <3> QED
      BY <1>1, <1>2, <1>3, <2>1, HeaderAndElementsGives
  <2>3. s.at # Null => made.header # Elsewhere
    BY <2>2 DEF HeaderBlock
  <2> HIDE DEF made, s, hb, e, m, inPart
  <2>4. s.at # Null => {Block(made.header, PartSize), e} = B
    BY <2>2
  <2>5. /\ Keep(s)
        /\ IF s.at = Null THEN Give({}) /\ list' = list
           ELSE Give({Block(made.header, PartSize), e}) /\ list' = longer
    BY <1>1, <1>6
  <2> HIDE DEF B, longer
  <2>6. Give(IF s.at = Null THEN {} ELSE B)
    BY <2>4, <2>5
  <2>7. /\ PoolInv' /\ Tallied(live', held') /\ AllocatorStep
        /\ live \subseteq live' /\ pool'.cleanup = pool.cleanup
        /\ s.at # Null => B \subseteq live'
    BY <1>1, <1>2, <2>1, <2>2, <2>5, <2>6, CallStep
  <2>8. NoRecords' /\ KindsOK'
    BY <1>1, <1>2, <1>4, <2>7 DEF NoRecords, KindsOK
  <2>9. ListKept(list', live')
    <3>1. CASE s.at = Null
      BY <1>2, <2>5, <2>7, <3>1, KeptMore
    <3>2. CASE s.at # Null
      <4>1. list' = longer
        BY <2>5, <3>2
      <4> DEFINE at == made.header
                 elts == s.at
      <4>2. longer = [list EXCEPT !.nelts = list.nelts + 1,
                         !.parts = Append(@, Part(at, elts, <<list.nelts + 1>>))]
        BY DEF longer
      <4>3. /\ at \in Int /\ elts \in Nat /\ at # Elsewhere
            /\ B = HeaderBlock(at, PartSize) \cup {Elements(elts, list.nalloc)}
            /\ Elements(elts, list.nalloc) \notin HeaderBlock(at, PartSize)
        BY <2>2, <2>3, <3>2 DEF B, hb, e, m
      <4>4. B \cap live = {} /\ live \cup B \subseteq live'
        BY <2>2, <2>7, <3>2 DEF Given, NewOnes
      <4>5. k = Len(list.parts) /\ list.nalloc <= Len(list.parts[k].data)
        <5> DEFINE x == Len(list.parts[k].data)
        <5>1. ~(x < m) /\ x \in Nat /\ m \in Nat
          BY <1>3, <1>6 DEF m
        <5> HIDE DEF x
        <5>2. m <= x
          BY <5>1
        <5> QED
          BY <5>2 DEF x, m
      <4> HIDE DEF at, elts, k
      <4>6. ListKept(longer, live')
        BY <1>1, <1>2, <4>2, <4>3, <4>4, <4>5, ListNewPart
      <4> QED
        BY <4>1, <4>6
    <3> QED
      BY <3>1, <3>2
  <2> QED
    BY <1>4, <2>7, <2>8, <2>9 DEF ClientInv
<1> QED
  BY <1>5, <1>6

LEMMA ClientsNextStep ==
    ASSUME ClientInv, [ClientsNext]_allVars
    PROVE  ClientInv' /\ AllocatorStep
<1>1. CASE Plain
  BY <1>1, PlainStep
<1>2. CASE Other
  BY <1>2, OtherStep
<1>3. CASE EndsAll
  BY <1>3, EndsAllStep
<1>4. ASSUME NEW n \in Counts, NEW inPool \in BOOLEAN, NEW fuel \in CleanupFuel,
             ArrayInit(n, inPool, fuel) \/ ListInit(n, inPool, fuel)
      PROVE  ClientInv' /\ AllocatorStep
  <2>1. CASE ArrayInit(n, inPool, fuel)
    BY <2>1, ArrayInitStep
  <2>2. CASE ListInit(n, inPool, fuel)
    BY <2>2, ListInitStep
  <2> QED
    BY <1>4, <2>1, <2>2
<1>5. ASSUME NEW fuel \in Fuel, dl_array_push(fuel)
      PROVE  ClientInv' /\ AllocatorStep
  BY <1>5, ArrayPushStep
<1>6. ASSUME NEW fuel \in Fuel, NEW n \in Batches, dl_array_push_n(n, fuel)
      PROVE  ClientInv' /\ AllocatorStep
  BY <1>6, ArrayPushNStep
<1>7. CASE dl_array_destroy
  BY <1>7, ArrayDestroyStep
<1>8. ASSUME NEW fuel \in CleanupFuel, dl_list_push(fuel)
      PROVE  ClientInv' /\ AllocatorStep
  BY <1>8, ListPushStep
<1>9. CASE UNCHANGED allVars
  <2>1. /\ pool' = pool /\ heap' = heap /\ live' = live /\ held' = held
        /\ kind' = kind /\ array' = array /\ list' = list
    BY <1>9 DEF allVars, vars, clients
  <2>2. PoolInv' /\ Tallied(live', held') /\ NoRecords' /\ KindsOK'
    BY <2>1 DEF ClientInv, PoolInv, PoolOK, Tallied, NoRecords, KindsOK, Open
  <2>3. ArrayKept(array', live') /\ ListKept(list', live')
    BY <2>1 DEF ClientInv
  <2>4. AllocatorStep
    BY <2>1 DEF AllocatorStep
  <2> QED
    BY <2>2, <2>3, <2>4 DEF ClientInv
<1> QED
  BY <1>1, <1>2, <1>3, <1>4, <1>5, <1>6, <1>7, <1>8, <1>9 DEF ClientsNext

LEMMA ClientsStart ==
    ASSUME ClientsInit
    PROVE  ClientInv
<1>1. Init /\ array = NoArray /\ list = NoList
  BY DEF ClientsInit
<1>2. PoolInv /\ ~Open
  BY <1>1 DEF Init, PoolInv, PoolOK, Open
<1>3. live = {} /\ held = 0
  BY <1>1 DEF Init
<1>4. Tallied(live, held)
  BY <1>3, FS_EmptySet DEF Tallied
<1> QED
  BY <1>1, <1>2, <1>4 DEF ClientInv, NoRecords, KindsOK, ArrayKept, ListKept

-------------------------------------------------------------------------------
(* What follows for the clients and for the pool under them.                 *)

\* Every block in use is apart from the others.
LEMMA LiveApart ==
    ASSUME ClientInv
    PROVE  \A b \in live : Mine(b)
<1>1. CASE Open
  <2>1. PoolOK(pool, heap, live)
    BY DEF ClientInv, PoolInv
  <2>2. AllApart(live)
    BY <2>1, OKApart
  <2> QED
    BY <2>2 DEF AllApart, Mine
<1>2. CASE ~Open
  <2>1. live = {}
    BY <1>2 DEF ClientInv, PoolInv, PoolOK, Open
  <2> QED
    BY <2>1
<1> QED
  BY <1>1, <1>2

LEMMA InvElementsKept ==
    ASSUME ClientInv
    PROVE  ElementsKept
<1>1. ArrayKept(array, live) /\ ListKept(list, live)
  BY DEF ClientInv
<1>2. HasArray =>
          /\ Mine(Elements(array.elts, array.nalloc))
          /\ \A b \in HeaderBlock(array.at, ArraySize) :
                Mine(b) /\ b # Elements(array.elts, array.nalloc)
          /\ Len(array.data) <= array.nalloc
          /\ \A i \in DOMAIN array.data : array.data[i] = i
  BY <1>1, LiveApart DEF HasArray, ArrayKept
<1> DEFINE n == Len(list.parts)
           mine(k) == PartHeader(k) \cup {PartElements(k)}
<1>3. \A k : PartHeader(k) = HeaderOf(list, k) /\ PartElements(k) = Run(list, k)
             /\ mine(k) = Memory(list, k)
  BY DEF PartHeader, PartElements, HeaderOf, Run, Memory
<1>4. ASSUME HasList
      PROVE  /\ \A k \in 1 .. n : Memory(list, k) \subseteq live /\ PartKept(list, k)
             /\ \A k, l \in 1 .. n : k # l => Memory(list, k) \cap Memory(list, l) = {}
             /\ list.nelts = (n - 1) * list.nalloc + Len(list.parts[n].data)
  BY <1>1, <1>4 DEF HasList, ListKept
<1>5. ASSUME HasList, NEW k \in 1 .. n
      PROVE  /\ \A b \in mine(k) : Mine(b)
             /\ PartElements(k) \notin PartHeader(k)
             /\ \A l \in 1 .. n : k # l => mine(k) \cap mine(l) = {}
             /\ k < n => Len(list.parts[k].data) = list.nalloc
             /\ \A j \in DOMAIN list.parts[k].data :
                   list.parts[k].data[j] = (k - 1) * list.nalloc + j
  <2>1. PartKept(list, k) /\ Memory(list, k) \subseteq live
    BY <1>4, <1>5
  <2>2. \A b \in mine(k) : Mine(b)
    BY <1>3, <2>1, LiveApart
  <2>3. \A l \in 1 .. n : k # l => mine(k) \cap mine(l) = {}
    BY <1>3, <1>4, <1>5
  <2>4. /\ PartElements(k) \notin PartHeader(k)
        /\ k < n => Len(list.parts[k].data) = list.nalloc
        /\ \A j \in DOMAIN list.parts[k].data :
              list.parts[k].data[j] = (k - 1) * list.nalloc + j
    BY <1>3, <2>1 DEF PartKept
  <2> QED
    BY <2>2, <2>3, <2>4
<1> QED
  BY <1>2, <1>4, <1>5 DEF ElementsKept

\* ClientInv is an invariant: what the theorems below follow from.
THEOREM PoolClientsInvariance == ClientsSpec => []ClientInv
<1>1. ClientsInit => ClientInv
  BY ClientsStart
<1>2. ClientInv /\ [ClientsNext]_allVars => ClientInv'
  BY ClientsNextStep
<1> QED
  BY <1>1, <1>2, PTL DEF ClientsSpec

\* Whatever was pushed to a dl_array or a dl_list is there, in order, in memory
\* that nobody else holds, through dl_array_push's and dl_array_push_n's growth
\* in place and by copying, new parts of dl_list_push, and failed allocations.
THEOREM ElementsKeptAlways == ClientsSpec => []ElementsKept
BY PoolClientsInvariance, InvElementsKept, PTL

\* dl_palloc, dl_pool_cleanup_add, dl_array and dl_list, which move d.last of a
\* block themselves, together implement an allocator: each step of theirs grants
\* blocks apart from all others, lengthens one into room that is nobody's, takes
\* blocks back, or leaves the callers' blocks alone.
THEOREM AllocatorImplemented == ClientsSpec => ImplementsAllocator
<1>1. ClientsInit => A!NothingLive
  BY DEF ClientsInit, Init, A!NothingLive
<1>2. ClientInv /\ [ClientsNext]_allVars
         => [A!Grant \/ A!Extend \/ A!ReleaseSome]_<<live, held>>
  BY ClientsNextStep DEF AllocatorStep
<1> QED
  BY <1>1, <1>2, PoolClientsInvariance, PTL DEF ClientsSpec, ImplementsAllocator, A!ExtensibleSpec

\* What a pool promises holds as well when arrays move d.last under it: last
\* stays in its block (TypeOK), no record of the pool's own is handed out, no
\* region leaks, no block is skipped without having failed (dl_palloc_block).
THEOREM PoolKeptByClients ==
    ClientsSpec => [](TypeOK /\ RecordsSafe /\ RegionsExact /\ SkippedBlocksFailed)
<1>1. ClientInv => TypeOK /\ RecordsSafe /\ RegionsExact /\ SkippedBlocksFailed
  BY InvTypeOK, InvRecordsSafe, InvRegionsExact, InvSkipped DEF ClientInv
<1> QED
  BY <1>1, PoolClientsInvariance, PTL

\* Only calls of all kinds set handlers.
HandlersKept ==
    /\ kind # "plain" => armed = {}
    /\ kind = "plain" => CleanupRecordsIntact /\ HandlersInv

LEMMA HandlersStep ==
    ASSUME MaxAtReset <= 0, ClientInv, HandlersKept, [ClientsNext]_allVars
    PROVE  HandlersKept'
<1>1. CASE Plain
  <2>1. kind = "plain" /\ kind' = kind /\ [Next]_vars
    BY <1>1 DEF Plain, clients
  <2>2. PoolInv
    BY DEF ClientInv
  <2>3. CleanupRecordsIntact' /\ HandlersInv'
    BY <2>1, <2>2, CleanupNext, HandlersNext DEF HandlersKept
  <2> QED
    BY <2>1, <2>3 DEF HandlersKept
<1>2. CASE UNCHANGED allVars
  <2>1. pool' = pool /\ live' = live /\ armed' = armed /\ ran' = ran /\ kind' = kind
    BY <1>2 DEF allVars, vars, clients
  <2> QED
    BY <2>1 DEF HandlersKept, CleanupRecordsIntact, HandlersInv, HandlersRunOnce, Open
<1>3. ASSUME kind # "plain", kind' = kind, armed' \in {armed, {}} PROVE HandlersKept'
  BY <1>3 DEF HandlersKept
<1>4. CASE Other
  <2>1. kind # "plain" /\ kind' = kind /\ armed' \in {armed, {}}
    BY <1>4 DEF Other, Create, Alloc, clients
  <2> QED
    BY <1>3, <2>1
<1>5. CASE EndsAll
  <2>1. kind # "plain" /\ kind' = kind /\ armed' = armed
    BY <1>5 DEF EndsAll, Reset, Destroy
  <2> QED
    BY <1>3, <2>1
<1>6. ASSUME NEW n \in Counts, NEW inPool \in BOOLEAN, NEW fuel \in CleanupFuel,
             ArrayInit(n, inPool, fuel) \/ ListInit(n, inPool, fuel)
      PROVE  HandlersKept'
  <2>1. kind # "plain" /\ kind' = kind /\ armed' = armed
    BY <1>6 DEF ArrayInit, ListInit
  <2> QED
    BY <1>3, <2>1
<1>7. ASSUME NEW n, NEW full, NEW nalloc, NEW copied, NEW fuel, Push(n, full, nalloc, copied, fuel)
      PROVE  HandlersKept'
  <2>1. kind # "plain" /\ kind' = kind /\ armed' = armed
    BY <1>7 DEF Push
  <2> QED
    BY <1>3, <2>1
<1>8. ASSUME NEW fuel \in Fuel,
             dl_array_push(fuel) \/ \E n \in Batches : dl_array_push_n(n, fuel)
      PROVE  HandlersKept'
  BY <1>7, <1>8 DEF dl_array_push, dl_array_push_n
<1>9. CASE dl_array_destroy
  <2>1. kind # "plain" /\ kind' = kind /\ armed' = armed
    BY <1>9 DEF dl_array_destroy
  <2> QED
    BY <1>3, <2>1
<1>10. ASSUME NEW fuel \in CleanupFuel, dl_list_push(fuel) PROVE HandlersKept'
  <2>1. kind # "plain" /\ kind' = kind /\ armed' = armed
    BY <1>10 DEF dl_list_push
  <2> QED
    BY <1>3, <2>1
<1> QED
  BY <1>1, <1>2, <1>4, <1>5, <1>6, <1>8, <1>9, <1>10 DEF ClientsNext

\* With callers of every kind, too, the records on pool->cleanup stay memory of
\* their own and dl_destroy_pool runs each handler that was set once, newest
\* first, as long as no pool with cleanup records is reset.
THEOREM HandlersKeptByClients ==
    ASSUME MaxAtReset <= 0
    PROVE  ClientsSpec => [](CleanupRecordsIntact /\ HandlersRunOnce)
<1>1. ClientsInit => HandlersKept
  BY DEF ClientsInit, Init, HandlersKept, CleanupRecordsIntact, HandlersInv, HandlersRunOnce, Open
<1>2. ClientInv /\ HandlersKept /\ [ClientsNext]_allVars => HandlersKept'
  BY HandlersStep
<1>3. ClientInv /\ HandlersKept => CleanupRecordsIntact /\ HandlersRunOnce
  <2> SUFFICES ASSUME ClientInv, HandlersKept, kind # "plain"
               PROVE  CleanupRecordsIntact /\ HandlersRunOnce
    BY DEF HandlersKept, HandlersInv
  <2>1. Open => pool.cleanup = <<>>
    BY DEF ClientInv, NoRecords
  <2> QED
    BY <2>1 DEF HandlersKept, CleanupRecordsIntact, HandlersRunOnce
<1> QED
  BY <1>1, <1>2, <1>3, PoolClientsInvariance, PTL DEF ClientsSpec
================================================================================
