------------------------------ MODULE PoolProofs ------------------------------
(***************************************************************************)
(* Proofs about dl_pool.c for every alignment, every pool and header size, *)
(* every number of requests and mallocs that fail anywhere.  A call of the *)
(* library is a function on a record of the pool, the heap and the mallocs *)
(* left; the lemmas say of each such function that it keeps the invariant  *)
(* "Good" of such records, and what it adds to the blocks handed out.      *)
(***************************************************************************)
EXTENDS Pool, Induction, FiniteSetTheorems, TLAPS

-------------------------------------------------------------------------------
(* Arithmetic of addresses.                                                  *)

\* What PoolAssumption says of the sizes.
LEMMA Sizings ==
    /\ {Align, HeaderSize, LargeSize, CleanupSize, PoolSize, RegionSize} \subseteq Nat \ {0}
    /\ HeaderSize + LargeSize <= PoolSize /\ MaxSmall \in Nat /\ LargeSize <= MaxSmall
    /\ PoolSize <= RegionSize
    /\ FailLimit \in Nat /\ NRegions \in Nat /\ WordMod \in Nat
    /\ HeaderSize % Align = 0 /\ PoolSize % Align = 0 /\ RegionSize % Align = 0
BY PoolAssumption

\* Division with remainder.
LEMMA DivMod ==
    ASSUME NEW a \in Int, NEW m \in Nat \ {0}
    PROVE  /\ a % m \in 0 .. m - 1
           /\ a \div m \in Int
           /\ a = m * (a \div m) + (a % m)
OBVIOUS

\* A multiple of m less than m is no more than 0.
LEMMA MultipleBelow ==
    ASSUME NEW q \in Int, NEW m \in Nat \ {0}, m * q < m
    PROVE  m * q <= 0 /\ q <= 0
<1>1. CASE q >= 1
  <2>1. m * q >= m
    BY <1>1
  <2> QED
    BY <2>1
<1>2. CASE q <= 0
  BY <1>2
<1> QED
  BY <1>1, <1>2

\* Number r starts at r * RegionSize.
LEMMA RegionStart ==
    ASSUME NEW r \in Nat
    PROVE  r * RegionSize \in Nat /\ RegionOf(r * RegionSize) = r
<1> DEFINE a == r * RegionSize
           q == a \div RegionSize
           d == r - q
<1>0. RegionSize \in Nat \ {0}
  BY Sizings
<1>1. a \in Nat /\ a = RegionSize * r
  <2>1. RegionSize * r \in Nat
    BY <1>0
  <2>2. r * RegionSize = RegionSize * r
    BY <1>0
  <2> QED
    BY <2>1, <2>2
<1>2. a % RegionSize \in 0 .. RegionSize - 1 /\ q \in Int /\ a = RegionSize * q + (a % RegionSize)
  <2>1. a \in Int
    BY <1>1
  <2> HIDE DEF a
  <2> QED
    BY <1>0, <2>1, DivMod
<1>3. RegionSize * d = a - RegionSize * q
  <2> HIDE DEF q, a
  <2> QED
    BY <1>0, <1>1, <1>2
<1> HIDE DEF d, q
<1>4. d \in Int
  BY <1>2 DEF d
<1>5. RegionSize * d \in 0 .. RegionSize - 1
  <2> HIDE DEF a
  <2> QED
    BY <1>0, <1>1, <1>2, <1>3, <1>4
<1>6. d <= 0
  BY <1>0, <1>4, <1>5, MultipleBelow
<1>7. d >= 0
  <2>1. CASE d <= -1
    <3>1. RegionSize * d <= -RegionSize
      BY <1>0, <1>4, <2>1
    <3> QED
      BY <1>0, <1>4, <1>5, <3>1
  <2> QED
    BY <1>4, <2>1
<1> QED
  BY <1>1, <1>2, <1>6, <1>7, <1>4 DEF d, q, RegionOf

\* Starts of different regions lie a region apart.
LEMMA StartsApart ==
    ASSUME NEW r \in Nat, NEW q \in Nat, r < q
    PROVE  r * RegionSize + RegionSize <= q * RegionSize
<1>0. RegionSize \in Nat \ {0}
  BY Sizings
<1>1. PICK d \in Nat : q = r + 1 + d
  <2>1. q - r - 1 \in Nat /\ q = r + 1 + (q - r - 1)
    OBVIOUS
  <2> QED
    BY <2>1
<1>2. q * RegionSize = r * RegionSize + RegionSize + d * RegionSize
  BY <1>0, <1>1
<1>3. d * RegionSize >= 0 /\ d * RegionSize \in Int /\ r * RegionSize \in Int
  BY <1>0
<1> QED
  BY <1>0, <1>2, <1>3

\* dl_align_ptr goes up, and not past an aligned address.
LEMMA AlignUpBounds ==
    ASSUME NEW a \in Nat
    PROVE  /\ AlignUp(a) \in Nat /\ a <= AlignUp(a)
           /\ \A k \in Int : a <= Align * k => AlignUp(a) <= Align * k
<1> DEFINE b == a + Align - 1
           q == b \div Align
<1>0. Align \in Nat \ {0}
  BY Sizings
<1>1. b \in Int
  BY <1>0
<1>2. b % Align \in 0 .. Align - 1 /\ q \in Int /\ b = Align * q + (b % Align)
  <2> HIDE DEF b
  <2> QED
    BY <1>0, <1>1, DivMod
<1>3. AlignUp(a) = Align * q
  <2>1. AlignUp(a) = q * Align
    BY DEF AlignUp
  <2> HIDE DEF q
  <2> QED
    BY <1>0, <1>2, <2>1
<1> HIDE DEF q
<1>4. Align * q \in Int
  BY <1>0, <1>2
<1>5. a <= Align * q /\ Align * q <= a + Align - 1
  BY <1>0, <1>2, <1>4
<1>6. ASSUME NEW k \in Int, a <= Align * k PROVE Align * q <= Align * k
  <2> DEFINE d == q - k
  <2>1. d \in Int /\ Align * d = Align * q - Align * k /\ Align * k \in Int
    BY <1>0, <1>2
  <2> HIDE DEF d
  <2>2. Align * d < Align
    BY <1>0, <1>4, <1>5, <1>6, <2>1
  <2>3. Align * d <= 0
    BY <1>0, <2>1, <2>2, MultipleBelow
  <2> QED
    BY <1>4, <2>1, <2>3
<1> QED
  BY <1>3, <1>4, <1>5, <1>6

\* What lies a multiple of the alignment behind the start of a region is aligned.
LEMMA AlignedOffset ==
    ASSUME NEW r \in Nat, NEW size \in Nat, size % Align = 0
    PROVE  \E k \in Int : r * RegionSize + size = Align * k
<1>0. Align \in Nat \ {0} /\ RegionSize \in Nat \ {0} /\ RegionSize % Align = 0
  BY Sizings
<1>1. PICK c \in Int : RegionSize = Align * c
  <2>1. RegionSize \div Align \in Int /\ RegionSize = Align * (RegionSize \div Align)
    BY <1>0, DivMod
  <2> QED
    BY <2>1
<1>2. PICK h \in Int : size = Align * h
  <2>1. size \div Align \in Int /\ size = Align * (size \div Align)
    BY <1>0, DivMod
  <2> QED
    BY <2>1
<1>3. r * RegionSize = Align * (r * c)
  BY <1>0, <1>1
<1>4. r * c \in Int /\ Align * (r * c) + Align * h = Align * (r * c + h)
  BY <1>0
<1>5. r * c + h \in Int
  BY <1>4
<1> QED
  BY <1>2, <1>3, <1>4, <1>5

-------------------------------------------------------------------------------
(* The inductive invariant, of a pool p, a heap h, the blocks L that callers *)
(* hold or a call is about to give them, and the addresses T of regions that *)
(* a call has from malloc and not yet chained to the pool.                   *)

Starts == {r * RegionSize : r \in Regions}

ChainBlock == [base : Nat, last : Nat, end : Nat, failed : Nat]
LargeRecord == [rec : Nat, alloc : Nat]
CleanupRecord == [at : Int, id : Nat, handler : BOOLEAN]
PoolType == [chain : Seq(ChainBlock), max : Nat, current : Nat,
             large : Seq(LargeRecord), cleanup : Seq(CleanupRecord)]
Extent == [at : Nat, len : Nat \ {0}, want : Nat]

ChainIdx(p) == 1 .. Len(p.chain)
LargeIdx(p) == 1 .. Len(p.large)

\* What is cut out of a block lies between its header and its last.  A block has
\* failed at most once for each block that came after it.
BlocksOK(p) ==
    /\ p.max = MaxFor(PoolSize)
    /\ p.current \in ChainIdx(p)
    /\ \A i \in ChainIdx(p) :
          /\ p.chain[i].base \in Starts
          /\ p.chain[i].end = p.chain[i].base + PoolSize
          /\ p.chain[i].base + HeaderSize <= p.chain[i].last
          /\ p.chain[i].last <= p.chain[i].end
          /\ p.chain[i].failed <= Len(p.chain) - i
    /\ \A k \in LargeIdx(p) : p.large[k].alloc \in Starts

\* Blocks before current have failed too often, and from there on no block has
\* failed more often than the ones before it.
FailuresOK(p) ==
    /\ \A i \in ChainIdx(p) : i < p.current => p.chain[i].failed > FailLimit
    /\ \A i, j \in ChainIdx(p) :
          p.current <= i /\ i < j => p.chain[j].failed <= p.chain[i].failed

\* Addresses of the regions that are chained to the pool.
Owned(p) == {p.chain[i].base : i \in ChainIdx(p)}
            \cup {p.large[k].alloc : k \in LargeIdx(p)}

\* The regions of the heap are those of the chain, of the large records and of T,
\* each once.
RegionsOK(p, h, T) ==
    /\ h = {RegionOf(a) : a \in Owned(p) \cup T}
    /\ Owned(p) \cap T = {}
    /\ \A i, j \in ChainIdx(p) : i # j => p.chain[i].base # p.chain[j].base
    /\ \A k, l \in LargeIdx(p) : k # l => p.large[k].alloc # p.large[l].alloc
    /\ \A i \in ChainIdx(p), k \in LargeIdx(p) : p.chain[i].base # p.large[k].alloc

InBlock(p, b) ==
    \E i \in ChainIdx(p) :
        p.chain[i].base + HeaderSize <= b.at /\ b.at + b.len <= p.chain[i].last

Alone(p, b) == \E k \in LargeIdx(p) : p.large[k].alloc = b.at /\ b.len <= RegionSize

Record(p, k) == Block(p.large[k].rec, LargeSize)

\* Blocks and records lie in what is used of the pool and share no byte.
ExtentsOK(p, L) ==
    /\ \A b \in L : InBlock(p, b) \/ Alone(p, b)
    /\ \A k \in LargeIdx(p) : InBlock(p, Record(p, k))
    /\ \A b, c \in L : b # c => Apart(b, c)
    /\ \A b \in L, k \in LargeIdx(p) : Apart(b, Record(p, k))
    /\ \A k, l \in LargeIdx(p) : k # l => Apart(Record(p, k), Record(p, l))

Kept(p, h, L, T) ==
    /\ p \in PoolType /\ h \subseteq Regions /\ L \subseteq Extent /\ T \subseteq Starts
    /\ BlocksOK(p) /\ FailuresOK(p) /\ RegionsOK(p, h, T) /\ ExtentsOK(p, L)

CallType == [pool : PoolType, heap : SUBSET Regions, fuel : Nat, at : Int]

Good(s, L, T) == s \in CallType /\ Kept(s.pool, s.heap, L, T)

PoolOK(p, h, L) == IF p # NoPool THEN Kept(p, h, L, {}) ELSE h = {} /\ L = {}

PoolInv == PoolOK(pool, heap, live)

-------------------------------------------------------------------------------
(* Regions.                                                                  *)

\* MinOf is the least element of a set of natural numbers.
LEMMA MinOfIs ==
    ASSUME NEW S, S \subseteq Nat, S # {}
    PROVE  MinOf(S) \in S /\ \A y \in S : MinOf(S) <= y
BY LeastOf DEF MinOf

\* MaxOf is the greatest element of a bounded set.
LEMMA MaxOfIs ==
    ASSUME NEW n \in Nat, NEW S, S \subseteq 0 .. n, S # {}
    PROVE  MaxOf(S) \in S /\ \A y \in S : y <= MaxOf(S)
<1> DEFINE D == {n - y : y \in S}
<1>1. D \subseteq Nat /\ D # {}
  <2>1. ASSUME NEW y \in S PROVE n - y \in Nat
    <3>1. y \in 0 .. n
      OBVIOUS
    <3> QED
      BY <3>1
  <2>2. PICK y \in S : TRUE
    OBVIOUS
  <2>3. n - y \in D
    BY <2>2
  <2>4. \A d \in D : \E x \in S : d = n - x
    OBVIOUS
  <2> QED
    BY <2>1, <2>3, <2>4
<1> HIDE DEF D
<1>2. PICK d \in D : \A e \in D : d <= e
  BY <1>1, LeastOf
<1>3. PICK x \in S : d = n - x
  BY DEF D
<1>4. ASSUME NEW y \in S PROVE y <= x
  <2>1. n - y \in D
    BY DEF D
  <2>2. n - x <= n - y
    BY <1>2, <1>3, <2>1
  <2>3. x \in 0 .. n /\ y \in 0 .. n
    OBVIOUS
  <2> QED
    BY <2>2, <2>3
<1> QED
  BY <1>4 DEF MaxOf

\* The start of a region, its number, and where the region ends.
LEMMA StartFacts ==
    ASSUME NEW a \in Starts
    PROVE  /\ a \in Nat /\ RegionOf(a) \in Regions
           /\ a = RegionOf(a) * RegionSize
           /\ a + RegionSize < WordMod
<1>1. PICK r \in Regions : a = r * RegionSize
  BY DEF Starts
<1>2. r \in Nat /\ r < NRegions /\ NRegions \in Nat
  BY <1>1, Sizings DEF Regions
<1>3. a \in Nat /\ RegionOf(a) = r
  BY <1>1, <1>2, RegionStart
<1>4. a + RegionSize <= NRegions * RegionSize
  BY <1>1, <1>2, StartsApart
<1>5. NRegions * RegionSize \in Nat /\ NRegions * RegionSize < WordMod
  BY <1>2, Sizings, PoolAssumption
<1> QED
  BY <1>1, <1>3, <1>4, <1>5, Sizings

\* Different regions share no address.
LEMMA StartsDiffer ==
    ASSUME NEW a \in Starts, NEW b \in Starts, a # b
    PROVE  RegionOf(a) # RegionOf(b) /\ (a + RegionSize <= b \/ b + RegionSize <= a)
<1>1. /\ RegionOf(a) \in Nat /\ a = RegionOf(a) * RegionSize
      /\ RegionOf(b) \in Nat /\ b = RegionOf(b) * RegionSize
  BY StartFacts DEF Regions
<1>2. RegionOf(a) # RegionOf(b)
  BY <1>1
<1>3. RegionOf(a) < RegionOf(b) \/ RegionOf(b) < RegionOf(a)
  BY <1>1, <1>2
<1> QED
  BY <1>1, <1>2, <1>3, StartsApart

\* A large record fits into a new pool block, and so does what is small.
LEMMA MaxForFacts ==
    /\ MaxFor(PoolSize) \in Nat
    /\ LargeSize <= MaxFor(PoolSize)
    /\ HeaderSize + MaxFor(PoolSize) <= PoolSize
BY Sizings DEF MaxFor

-------------------------------------------------------------------------------
(* Blocks that share no byte with those there are.                           *)

\* A block of the chain starts and ends at aligned addresses within its region.
LEMMA BlockFacts ==
    ASSUME NEW p \in PoolType, BlocksOK(p), NEW i \in ChainIdx(p)
    PROVE  LET b == p.chain[i]
           IN  /\ b \in ChainBlock /\ b.base \in Starts
               /\ b.end = b.base + PoolSize /\ b.end <= b.base + RegionSize
               /\ b.base + HeaderSize <= b.last /\ b.last <= b.end
               /\ b.end < WordMod
<1> DEFINE b == p.chain[i]
<1>1. b \in ChainBlock
  BY DEF PoolType, ChainIdx
<1>2. /\ b.base \in Starts /\ b.end = b.base + PoolSize
      /\ b.base + HeaderSize <= b.last /\ b.last <= b.end
  BY DEF BlocksOK
<1>3. b.base \in Nat /\ b.base + RegionSize < WordMod
  BY <1>2, StartFacts
<1> HIDE DEF b
<1>4. b.end <= b.base + RegionSize /\ b.end < WordMod
  BY <1>2, <1>3, Sizings
<1> QED
  BY <1>1, <1>2, <1>4 DEF b

\* The regions of a pool are regions of malloc.
LEMMA OwnedStarts ==
    ASSUME NEW p \in PoolType, BlocksOK(p)
    PROVE  Owned(p) \subseteq Starts
BY DEF Owned, BlocksOK

\* What is handed out or is a record lies in a region of the pool.
LEMMA Located ==
    ASSUME NEW p \in PoolType, BlocksOK(p), NEW b, b.at \in Nat, b.len \in Nat,
           InBlock(p, b) \/ Alone(p, b)
    PROVE  \E a \in Owned(p) : a <= b.at /\ b.at + b.len <= a + RegionSize
<1>1. CASE InBlock(p, b)
  <2>1. PICK i \in ChainIdx(p) : /\ p.chain[i].base + HeaderSize <= b.at
                                 /\ b.at + b.len <= p.chain[i].last
    BY <1>1 DEF InBlock
  <2> DEFINE c == p.chain[i]
  <2>2. /\ c \in ChainBlock
        /\ c.end <= c.base + RegionSize /\ c.last <= c.end
    BY BlockFacts
  <2>3. c.base \in Owned(p)
    BY DEF Owned
  <2>4. c.base + HeaderSize <= b.at /\ b.at + b.len <= c.last
    BY <2>1
  <2> HIDE DEF c
  <2>5. c.base <= b.at /\ b.at + b.len <= c.base + RegionSize
    BY <2>2, <2>4, Sizings DEF ChainBlock
  <2> QED
    BY <2>3, <2>5
<1>2. CASE Alone(p, b)
  <2>1. PICK k \in LargeIdx(p) : p.large[k].alloc = b.at /\ b.len <= RegionSize
    BY <1>2 DEF Alone
  <2>2. b.at \in Owned(p)
    BY <2>1 DEF Owned
  <2>3. b.at <= b.at /\ b.at + b.len <= b.at + RegionSize
    BY <2>1, Sizings
  <2> QED
    BY <2>2, <2>3
<1> QED
  BY <1>1, <1>2

\* A block in a region that is not the pool's.
LEMMA FreshRegion ==
    ASSUME NEW p \in PoolType, BlocksOK(p), NEW a \in Starts \ Owned(p),
           NEW b, b.at \in Nat, b.len \in Nat, InBlock(p, b) \/ Alone(p, b),
           NEW n, n.at \in Nat, n.len \in Nat, a <= n.at, n.at + n.len <= a + RegionSize
    PROVE  Apart(n, b)
<1>1. PICK o \in Owned(p) : o <= b.at /\ b.at + b.len <= o + RegionSize
  BY Located
<1>2. o \in Starts /\ o # a
  BY OwnedStarts
<1>3. a + RegionSize <= o \/ o + RegionSize <= a
  BY <1>2, StartsDiffer
<1>4. a \in Nat /\ o \in Nat /\ RegionSize \in Nat
  BY <1>2, StartFacts, Sizings
<1> QED
  BY <1>1, <1>3, <1>4 DEF Apart

\* A block behind what is used of a block of the chain.
LEMMA FreshRoom ==
    ASSUME NEW p \in PoolType, BlocksOK(p), NEW i \in ChainIdx(p),
           NEW h, NEW T, RegionsOK(p, h, T),
           NEW b, b.at \in Nat, b.len \in Nat, InBlock(p, b) \/ Alone(p, b),
           NEW n, n.at \in Nat, n.len \in Nat,
           p.chain[i].last <= n.at, n.at + n.len <= p.chain[i].end
    PROVE  Apart(n, b)
<1> DEFINE c == p.chain[i]
<1>1. /\ c \in ChainBlock /\ c.base \in Starts
      /\ c.end <= c.base + RegionSize
      /\ c.base + HeaderSize <= c.last
  BY BlockFacts
<1>2. ASSUME NEW a \in Starts, a # c.base, a <= b.at, b.at + b.len <= a + RegionSize
      PROVE  Apart(n, b)
  <2>1. a + RegionSize <= c.base \/ c.base + RegionSize <= a
    BY <1>1, <1>2, StartsDiffer
  <2>2. a \in Nat /\ RegionSize \in Nat /\ HeaderSize \in Nat
    BY StartFacts, Sizings
  <2>3. c.last <= n.at /\ n.at + n.len <= c.end
    OBVIOUS
  <2> HIDE DEF c
  <2>4. c.base <= n.at /\ n.at + n.len <= c.base + RegionSize
    BY <1>1, <2>2, <2>3 DEF ChainBlock
  <2> QED
    BY <1>1, <1>2, <2>1, <2>2, <2>4 DEF Apart, ChainBlock
<1>3. CASE InBlock(p, b)
  <2>1. PICK j \in ChainIdx(p) : /\ p.chain[j].base + HeaderSize <= b.at
                                 /\ b.at + b.len <= p.chain[j].last
    BY <1>3 DEF InBlock
  <2>2. CASE j = i
    <3>1. b.at + b.len <= c.last /\ c.last <= n.at
      BY <2>1, <2>2
    <3> HIDE DEF c
    <3> QED
      BY <3>1, <1>1 DEF Apart, ChainBlock
  <2>3. CASE j # i
    <3> DEFINE d == p.chain[j]
    <3>1. d.base # c.base
      BY <2>3 DEF RegionsOK
    <3>2. /\ d \in ChainBlock /\ d.base \in Starts
          /\ d.end <= d.base + RegionSize /\ d.last <= d.end
      BY BlockFacts
    <3>3. d.base + HeaderSize <= b.at /\ b.at + b.len <= d.last
      BY <2>1
    <3> HIDE DEF d
    <3>4. d.base <= b.at /\ b.at + b.len <= d.base + RegionSize
      BY <3>2, <3>3, Sizings DEF ChainBlock
    <3> QED
      BY <1>2, <3>1, <3>2, <3>4
  <2> QED
    BY <2>2, <2>3
<1>4. CASE Alone(p, b)
  <2>1. PICK k \in LargeIdx(p) : p.large[k].alloc = b.at /\ b.len <= RegionSize
    BY <1>4 DEF Alone
  <2>2. b.at \in Starts /\ b.at # c.base
    BY <2>1 DEF BlocksOK, RegionsOK
  <2>3. b.at <= b.at /\ b.at + b.len <= b.at + RegionSize
    BY <2>1, Sizings
  <2> QED
    BY <1>2, <2>2, <2>3
<1> QED
  BY <1>3, <1>4

\* One more block, in a chain that has grown.
LEMMA ExtentsGrow ==
    ASSUME NEW p, NEW q, NEW L, NEW b,
           q.large = p.large, p \in PoolType, q \in PoolType, L \subseteq Extent, b \in Extent,
           \A i \in ChainIdx(p) : /\ i \in ChainIdx(q) /\ q.chain[i].base = p.chain[i].base
                                  /\ p.chain[i].last <= q.chain[i].last,
           ExtentsOK(p, L), InBlock(q, b),
           \A c \in L : Apart(b, c), \A k \in LargeIdx(p) : Apart(b, Record(p, k))
    PROVE  ExtentsOK(q, L \cup {b})
<1>1. LargeIdx(q) = LargeIdx(p) /\ \A k \in LargeIdx(p) : Record(q, k) = Record(p, k)
  BY DEF LargeIdx, Record
<1>2. ASSUME NEW c, c.at \in Nat, c.len \in Nat, InBlock(p, c) PROVE InBlock(q, c)
  <2>1. PICK i \in ChainIdx(p) : /\ p.chain[i].base + HeaderSize <= c.at
                                 /\ c.at + c.len <= p.chain[i].last
    BY <1>2 DEF InBlock
  <2>2. /\ i \in ChainIdx(q) /\ q.chain[i].base = p.chain[i].base
        /\ p.chain[i].last <= q.chain[i].last
    OBVIOUS
  <2>3. p.chain[i].last \in Nat /\ q.chain[i].last \in Nat
    <3>1. p.chain[i] \in ChainBlock /\ q.chain[i] \in ChainBlock
      BY <2>2 DEF PoolType, ChainIdx
    <3> QED
      BY <3>1 DEF ChainBlock
  <2>4. c.at + c.len <= q.chain[i].last
    BY <1>2, <2>1, <2>2, <2>3
  <2> QED
    BY <2>1, <2>2, <2>4 DEF InBlock
<1>3. \A c \in L : Alone(p, c) => Alone(q, c)
  BY DEF Alone, LargeIdx
<1>4. \A c \in L : c.at \in Nat /\ c.len \in Nat
  BY DEF Extent
<1>5. \A k \in LargeIdx(p) : Record(p, k).at \in Nat /\ Record(p, k).len \in Nat
  <2>1. ASSUME NEW k \in LargeIdx(p) PROVE p.large[k] \in LargeRecord
    BY DEF PoolType, LargeIdx
  <2> QED
    BY <2>1, Sizings DEF Record, Block, LargeRecord
<1>6. \A c \in L \cup {b} : InBlock(q, c) \/ Alone(q, c)
  BY <1>2, <1>3, <1>4 DEF ExtentsOK
<1>7. \A k \in LargeIdx(q) : InBlock(q, Record(q, k))
  BY <1>1, <1>2, <1>5 DEF ExtentsOK
<1>8. \A c, d \in L \cup {b} : c # d => Apart(c, d)
  <2>1. \A c \in L : Apart(c, b)
    BY DEF Apart
  <2>2. \A c, d \in L : c # d => Apart(c, d)
    BY DEF ExtentsOK
  <2> QED
    BY <2>1, <2>2
<1>9. \A c \in L \cup {b}, k \in LargeIdx(q) : Apart(c, Record(q, k))
  BY <1>1 DEF ExtentsOK
<1>10. \A k, l \in LargeIdx(q) : k # l => Apart(Record(q, k), Record(q, l))
  BY <1>1 DEF ExtentsOK
<1> QED
  BY <1>6, <1>7, <1>8, <1>9, <1>10 DEF ExtentsOK

-------------------------------------------------------------------------------
(* malloc and free.                                                          *)

\* Fewer blocks are handed out.
LEMMA KeptFewer ==
    ASSUME NEW p, NEW h, NEW L, NEW M, NEW T, Kept(p, h, L, T), M \subseteq L
    PROVE  Kept(p, h, M, T)
<1>1. ExtentsOK(p, M)
  BY DEF Kept, ExtentsOK
<1> QED
  BY <1>1 DEF Kept

\* malloc fails, or returns a region that the pool does not have.
LEMMA MallocGood ==
    ASSUME NEW s, NEW L, NEW T, Good(s, L, T), NEW size
    PROVE  LET g == Malloc(s, size)
           IN  /\ g.pool = s.pool
               /\ g.at = Null => Good(g, L, T) /\ g.heap = s.heap
               /\ g.at # Null => /\ g.at \in Starts /\ g.at \notin T /\ g.at \notin Owned(s.pool)
                                 /\ Good(g, L, T \cup {g.at}) /\ ~(size > RegionSize)
<1> DEFINE g == Malloc(s, size)
<1>1. CASE s.fuel = 0 \/ s.heap = Regions \/ size > RegionSize
  <2>1. g = [s EXCEPT !.at = Null]
    BY <1>1 DEF Malloc
  <2>2. g \in CallType /\ g.pool = s.pool /\ g.heap = s.heap /\ g.at = Null
    BY <2>1 DEF Good, CallType, Null
  <2> QED
    BY <2>2 DEF Good
<1>2. CASE ~(s.fuel = 0 \/ s.heap = Regions \/ size > RegionSize)
  <2> DEFINE r == MinOf(Regions \ s.heap)
             a == r * RegionSize
  <2>1. r \in Regions \ s.heap
    <3>1. Regions \ s.heap # {} /\ Regions \ s.heap \subseteq Nat
      <4>1. s.heap \subseteq Regions /\ s.heap # Regions
        BY <1>2 DEF Good, CallType
      <4>2. Regions \subseteq Nat
        BY DEF Regions
      <4> QED
        BY <4>1, <4>2
    <3> QED
      BY <3>1, MinOfIs
  <2>2. g = [s EXCEPT !.heap = @ \cup {r}, !.fuel = @ - 1, !.at = a]
    BY <1>2 DEF Malloc
  <2>3. a \in Starts /\ RegionOf(a) = r /\ a \in Nat
    <3>1. r \in Nat
      BY <2>1 DEF Regions
    <3> QED
      BY <2>1, <3>1, RegionStart DEF Starts
  <2> HIDE DEF r, a
  <2>4. s.pool \in PoolType /\ s.heap \subseteq Regions /\ s.fuel \in Nat \ {0} /\ s \in CallType
    BY <1>2 DEF Good, CallType
  <2>5. g \in CallType /\ g.pool = s.pool /\ g.heap = s.heap \cup {r} /\ g.at = a
    <3> DEFINE h == s.heap \cup {r}
               f == s.fuel - 1
    <3>1. h \subseteq Regions /\ f \in Nat
      BY <2>1, <2>4
    <3>2. g = [s EXCEPT !.heap = h, !.fuel = f, !.at = a]
      BY <2>2
    <3>4. a \in Int
      BY <2>3
    <3> HIDE DEF h, f, g
    <3>3. g \in CallType /\ g.pool = s.pool /\ g.heap = h /\ g.at = a
      BY <2>4, <3>1, <3>2, <3>4 DEF CallType
    <3> QED
      BY <3>3 DEF h
  <2>6. a # Null
    BY <2>3 DEF Null
  <2>7. a \notin Owned(s.pool) /\ a \notin T
    BY <2>1, <2>3 DEF Good, Kept, RegionsOK
  <2>8. RegionsOK(s.pool, g.heap, T \cup {a})
    <3>1. g.heap = {RegionOf(x) : x \in Owned(s.pool) \cup (T \cup {a})}
      BY <2>3, <2>5 DEF Good, Kept, RegionsOK
    <3>2. Owned(s.pool) \cap (T \cup {a}) = {}
      BY <2>7 DEF Good, Kept, RegionsOK
    <3> QED
      BY <3>1, <3>2 DEF Good, Kept, RegionsOK
  <2>9. Good(g, L, T \cup {a})
    BY <2>1, <2>3, <2>5, <2>8 DEF Good, Kept
  <2> QED
    BY <1>2, <2>3, <2>5, <2>6, <2>7, <2>9
<1> QED
  BY <1>1, <1>2

\* free gives back a region that is not chained.
LEMMA GiveUpGood ==
    ASSUME NEW s, NEW L, NEW T, NEW a \in Starts, a \notin T, Good(s, L, T \cup {a})
    PROVE  Good(GiveUp(s, a), L, T) /\ GiveUp(s, a).pool = s.pool /\ GiveUp(s, a).at = s.at
<1> DEFINE g == GiveUp(s, a)
           h == s.heap \ {RegionOf(a)}
<1>1. g = [s EXCEPT !.heap = h] /\ s \in CallType
  BY DEF GiveUp, Good
<1>2. h \subseteq Regions
  BY <1>1 DEF CallType
<1>3. g \in CallType /\ g.pool = s.pool /\ g.heap = h /\ g.at = s.at
  <2> HIDE DEF h
  <2> QED
    BY <1>1, <1>2 DEF CallType
<1>4. RegionsOK(s.pool, h, T)
  <2>1. /\ s.heap = {RegionOf(x) : x \in Owned(s.pool) \cup (T \cup {a})}
        /\ Owned(s.pool) \cap (T \cup {a}) = {}
    BY DEF Good, Kept, RegionsOK
  <2>2. Owned(s.pool) \cup T \subseteq Starts
    <3>1. s.pool \in PoolType /\ BlocksOK(s.pool) /\ T \subseteq Starts
      BY DEF Good, Kept
    <3> QED
      BY <3>1, OwnedStarts
  <2>3. \A x \in Owned(s.pool) \cup T : RegionOf(x) # RegionOf(a)
    BY <2>1, <2>2, StartsDiffer
  <2>4. h = {RegionOf(x) : x \in Owned(s.pool) \cup T}
    BY <2>1, <2>3
  <2> QED
    BY <2>1, <2>4 DEF Good, Kept, RegionsOK
<1> HIDE DEF g, h
<1>5. Good(g, L, T)
  BY <1>2, <1>3, <1>4 DEF Good, Kept
<1> QED
  BY <1>3, <1>5 DEF g

-------------------------------------------------------------------------------
(* dl_palloc_small and dl_palloc_block.                                      *)

\* A number less than m is its own remainder.
LEMMA ModSmall ==
    ASSUME NEW m \in Nat \ {0}, NEW x \in 0 .. m - 1
    PROVE  x % m = x
OBVIOUS

\* Aligning stays within the block, whose end is aligned, so the difference that
\* dl_palloc_small takes for the room left does not wrap around.
LEMMA RoomFacts ==
    ASSUME NEW p \in PoolType, BlocksOK(p), NEW i \in ChainIdx(p), NEW align \in BOOLEAN
    PROVE  LET b == p.chain[i]
               m == Where(b, align)
           IN  /\ m \in Nat /\ b.last <= m /\ m <= b.end
               /\ \A size \in Nat : Room(b, m, size) <=> m + size <= b.end
<1> DEFINE b == p.chain[i]
           m == Where(b, align)
<1>1. /\ b \in ChainBlock /\ b.base \in Starts
      /\ b.end = b.base + PoolSize
      /\ b.last <= b.end /\ b.end < WordMod
  BY BlockFacts
<1> HIDE DEF b
<1>2. b.last \in Nat /\ b.end \in Nat
  BY <1>1 DEF ChainBlock
<1>3. PICK r \in Regions : b.base = r * RegionSize
  BY <1>1 DEF Starts
<1>4. \E k \in Int : b.end = Align * k
  <2>1. r \in Nat /\ PoolSize \in Nat /\ PoolSize % Align = 0
    BY Sizings DEF Regions
  <2> QED
    BY <1>1, <1>3, <2>1, AlignedOffset
<1>5. AlignUp(b.last) \in Nat /\ b.last <= AlignUp(b.last) /\ AlignUp(b.last) <= b.end
  BY <1>1, <1>2, <1>4, AlignUpBounds
<1>6. m \in Nat /\ b.last <= m /\ m <= b.end
  BY <1>1, <1>2, <1>5 DEF Where
<1> HIDE DEF m
<1>7. b.end - m \in 0 .. WordMod - 1 /\ WordMod \in Nat \ {0}
  BY <1>1, <1>2, <1>6, Sizings
<1>8. (b.end - m) % WordMod = b.end - m
  BY <1>7, ModSmall
<1>9. \A size \in Nat : Room(b, m, size) <=> m + size <= b.end
  BY <1>2, <1>6, <1>8 DEF Room
<1> QED
  BY <1>6, <1>9 DEF b, m

\* The first address of a block is just behind the header.
LEMMA FirstAddressIs ==
    ASSUME NEW a \in Starts
    PROVE  FirstAddress(a) = a + HeaderSize
<1>1. a \in Nat /\ HeaderSize \in Nat /\ HeaderSize % Align = 0
  BY StartFacts, Sizings
<1>2. PICK r \in Regions : a = r * RegionSize
  BY DEF Starts
<1>3. PICK k \in Int : a + HeaderSize = Align * k
  BY <1>1, <1>2, AlignedOffset DEF Regions
<1> DEFINE b == a + HeaderSize
<1>4. b \in Nat /\ b <= Align * k
  BY <1>1, <1>3
<1> HIDE DEF b
<1>5. AlignUp(b) \in Nat /\ b <= AlignUp(b) /\ AlignUp(b) <= Align * k
  BY <1>4, AlignUpBounds
<1>6. AlignUp(b) = b
  BY <1>3, <1>4, <1>5 DEF b
<1> QED
  BY <1>6 DEF b, FirstAddress

\* A block of size bytes cut out of block i of the chain.
LEMMA RoomGood ==
    ASSUME NEW p, NEW h, NEW L, NEW T, Kept(p, h, L, T),
           NEW i \in ChainIdx(p), NEW m \in Nat, NEW size \in Nat \ {0},
           p.chain[i].last <= m, m + size <= p.chain[i].end,
           NEW q, q = [p EXCEPT !.chain[i].last = m + size]
    PROVE  /\ Block(m, size) \notin L /\ InBlock(q, Block(m, size))
           /\ Kept(q, h, L \cup {Block(m, size)}, T)
           /\ q.large = p.large /\ q.cleanup = p.cleanup
<1> DEFINE b == Block(m, size)
           c == [p.chain[i] EXCEPT !.last = m + size]
<1>1. /\ p \in PoolType /\ BlocksOK(p) /\ FailuresOK(p) /\ RegionsOK(p, h, T)
      /\ ExtentsOK(p, L) /\ L \subseteq Extent
  BY DEF Kept
<1>2. b \in Extent /\ b.at = m /\ b.len = size /\ b.at \in Nat /\ b.len \in Nat
  BY DEF Block, Extent
<1>3. /\ p.chain[i] \in ChainBlock
      /\ p.chain[i].base + HeaderSize <= p.chain[i].last
      /\ p.chain[i].base \in Nat
  BY <1>1, BlockFacts, StartFacts
<1>4. c \in ChainBlock /\ c.base = p.chain[i].base /\ c.end = p.chain[i].end
      /\ c.last = m + size /\ c.failed = p.chain[i].failed
  BY <1>3 DEF ChainBlock
<1>5. q = [p EXCEPT !.chain = [p.chain EXCEPT ![i] = c]]
  OBVIOUS
<1> HIDE DEF c
<1>6. p.chain \in Seq(ChainBlock) /\ i \in DOMAIN p.chain
  BY <1>1 DEF PoolType, ChainIdx
<1>7. [p.chain EXCEPT ![i] = c] \in Seq(ChainBlock) /\ Len([p.chain EXCEPT ![i] = c]) = Len(p.chain)
  BY <1>4, <1>6
<1>8. /\ q \in PoolType /\ q.chain = [p.chain EXCEPT ![i] = c]
      /\ q.max = p.max /\ q.current = p.current /\ q.large = p.large /\ q.cleanup = p.cleanup
  <2> DEFINE d == [p.chain EXCEPT ![i] = c]
  <2>1. d \in Seq(ChainBlock) /\ q = [p EXCEPT !.chain = d]
    BY <1>5, <1>7
  <2> HIDE DEF d
  <2>2. q \in PoolType /\ q.chain = d
        /\ q.max = p.max /\ q.current = p.current /\ q.large = p.large /\ q.cleanup = p.cleanup
    BY <1>1, <2>1 DEF PoolType
  <2> QED
    BY <2>2 DEF d
<1>9. ChainIdx(q) = ChainIdx(p) /\ LargeIdx(q) = LargeIdx(p)
  BY <1>7, <1>8 DEF ChainIdx, LargeIdx
<1>10. q.chain[i] = c /\ \A j \in ChainIdx(p) : j # i => q.chain[j] = p.chain[j]
  BY <1>6, <1>8 DEF ChainIdx
<1>11. \A j \in ChainIdx(p) : /\ q.chain[j].base = p.chain[j].base /\ q.chain[j].end = p.chain[j].end
                              /\ q.chain[j].failed = p.chain[j].failed
  BY <1>4, <1>10
<1>12. m + size \in Nat /\ p.chain[i].last <= m + size
  BY <1>3 DEF ChainBlock
<1>13. BlocksOK(q)
  <2>1. \A j \in ChainIdx(q) : /\ q.chain[j].base + HeaderSize <= q.chain[j].last
                                /\ q.chain[j].last <= q.chain[j].end
    <3>1. q.chain[i].base + HeaderSize <= q.chain[i].last
      BY <1>3, <1>4, <1>10, <1>12, Sizings DEF ChainBlock
    <3>2. q.chain[i].last <= q.chain[i].end
      BY <1>4, <1>10
    <3> QED
      BY <1>1, <1>9, <1>10, <3>1, <3>2 DEF BlocksOK
  <2>2. Len(q.chain) = Len(p.chain)
    BY <1>7, <1>8
  <2> QED
    BY <1>1, <1>8, <1>9, <1>11, <2>1, <2>2 DEF BlocksOK
<1>14. FailuresOK(q)
  BY <1>1, <1>8, <1>9, <1>11 DEF FailuresOK
<1>15. Owned(q) = Owned(p)
  BY <1>8, <1>9, <1>11 DEF Owned
<1>16. RegionsOK(q, h, T)
  <2>1. h = {RegionOf(a) : a \in Owned(q) \cup T} /\ Owned(q) \cap T = {}
    BY <1>1, <1>15 DEF RegionsOK
  <2>2. \A j, k \in ChainIdx(q) : j # k => q.chain[j].base # q.chain[k].base
    BY <1>1, <1>9, <1>11 DEF RegionsOK
  <2>3. /\ \A k, l \in LargeIdx(q) : k # l => q.large[k].alloc # q.large[l].alloc
        /\ \A j \in ChainIdx(q), k \in LargeIdx(q) : q.chain[j].base # q.large[k].alloc
    BY <1>1, <1>8, <1>9, <1>11 DEF RegionsOK
  <2> QED
    BY <2>1, <2>2, <2>3 DEF RegionsOK
<1>17. InBlock(q, b)
  <2>1. c.base + HeaderSize <= b.at /\ b.at + b.len <= c.last
    BY <1>2, <1>3, <1>4, <1>12, Sizings DEF ChainBlock
  <2> QED
    BY <1>9, <1>10, <2>1 DEF InBlock
<1>18. \A d \in L : Apart(b, d)
  <2>1. ASSUME NEW d \in L PROVE Apart(b, d)
    <3>1. d.at \in Nat /\ d.len \in Nat /\ (InBlock(p, d) \/ Alone(p, d))
      BY <1>1 DEF Extent, ExtentsOK
    <3> QED
      BY <1>1, <1>2, <3>1, FreshRoom
  <2> QED
    BY <2>1
<1>19. \A k \in LargeIdx(p) : Apart(b, Record(p, k))
  <2>1. ASSUME NEW k \in LargeIdx(p) PROVE Apart(b, Record(p, k))
    <3>1. p.large[k] \in LargeRecord
      BY <1>1 DEF PoolType, LargeIdx
    <3>2. Record(p, k).at \in Nat /\ Record(p, k).len \in Nat /\ InBlock(p, Record(p, k))
      BY <1>1, <3>1, Sizings DEF ExtentsOK, Record, Block, LargeRecord
    <3> QED
      BY <1>1, <1>2, <3>2, FreshRoom
  <2> QED
    BY <2>1
<1>20. ExtentsOK(q, L \cup {b})
  <2>1. \A j \in ChainIdx(p) : /\ j \in ChainIdx(q) /\ q.chain[j].base = p.chain[j].base
                                /\ p.chain[j].last <= q.chain[j].last
    <3>1. ASSUME NEW j \in ChainIdx(p) PROVE p.chain[j].last \in Nat
      <4>1. p.chain[j] \in ChainBlock
        BY <1>1 DEF PoolType, ChainIdx
      <4> QED
        BY <4>1 DEF ChainBlock
    <3> QED
      BY <1>4, <1>9, <1>10, <1>11, <1>12, <3>1
  <2> HIDE DEF b
  <2> QED
    BY <1>1, <1>2, <1>8, <1>17, <1>18, <1>19, <2>1, ExtentsGrow
<1>21. b \notin L
  <2>1. ~Apart(b, b)
    BY <1>2 DEF Apart
  <2> QED
    BY <1>18, <2>1
<1> HIDE DEF b
<1>22. Kept(q, h, L \cup {b}, T)
  BY <1>2, <1>8, <1>13, <1>14, <1>16, <1>20 DEF Kept
<1> QED
  BY <1>8, <1>17, <1>21, <1>22 DEF b

\* A function on 1 .. n is a sequence.
LEMMA FunctionIsSeq ==
    ASSUME NEW n \in Nat, NEW S, NEW f \in [1 .. n -> S]
    PROVE  f \in Seq(S) /\ Len(f) = n /\ DOMAIN f = 1 .. n
OBVIOUS

\* dl_palloc_block: the blocks that count a failure, those of them that are left
\* out from now on, and the pool with the new block in region a.
Searched(p) == p.current .. Len(p.chain) - 1
Worn(p) == {i \in Searched(p) : p.chain[i].failed > FailLimit}
Counted(p) ==
    [i \in 1 .. Len(p.chain) |->
        IF i \in Searched(p) THEN [p.chain[i] EXCEPT !.failed = @ + 1] ELSE p.chain[i]]
LastBlock(a, size) ==
    [base |-> a, last |-> a + HeaderSize + size, end |-> a + PoolSize, failed |-> 0]
NextCurrent(p) == IF Worn(p) = {} THEN p.current ELSE MaxOf(Worn(p)) + 1
Grown(p, a, size) ==
    [p EXCEPT !.chain = Append(Counted(p), LastBlock(a, size)), !.current = NextCurrent(p)]

\* A block of size bytes cut out of a region that is chained to the pool.
LEMMA ChainGood ==
    ASSUME NEW p, NEW h, NEW L, NEW T, NEW a \in Starts, a \notin T,
           Kept(p, h, L, T \cup {a}), NEW size \in Nat \ {0}, size <= p.max
    PROVE  LET q == Grown(p, a, size)
               b == Block(a + HeaderSize, size)
           IN  /\ b \notin L /\ InBlock(q, b)
               /\ Kept(q, h, L \cup {b}, T)
               /\ q.large = p.large /\ q.cleanup = p.cleanup
<1> DEFINE n == Len(p.chain)
           m == a + HeaderSize
           q == Grown(p, a, size)
           b == Block(m, size)
           new == LastBlock(a, size)
           counted == Counted(p)
           worn == Worn(p)
           searched == Searched(p)
           cur == NextCurrent(p)
           chained == Append(counted, new)
<1>d. /\ searched = p.current .. n - 1
      /\ worn = {i \in searched : p.chain[i].failed > FailLimit}
      /\ q = [p EXCEPT !.chain = chained, !.current = cur]
  BY DEF Searched, Worn, Grown
<1>e. cur = IF worn = {} THEN p.current ELSE MaxOf(worn) + 1
  BY DEF NextCurrent
<1>f. counted = [i \in 1 .. n |->
               IF i \in searched THEN [p.chain[i] EXCEPT !.failed = @ + 1] ELSE p.chain[i]]
  BY DEF Counted
<1>g. new = [base |-> a, last |-> m + size, end |-> a + PoolSize, failed |-> 0]
  BY DEF LastBlock
<1> HIDE DEF q, new, counted, worn, searched, cur
<1>1. /\ p \in PoolType /\ BlocksOK(p) /\ FailuresOK(p) /\ RegionsOK(p, h, T \cup {a})
      /\ ExtentsOK(p, L) /\ L \subseteq Extent
  BY DEF Kept
<1>2. p.chain \in Seq(ChainBlock) /\ n \in Nat \ {0} /\ ChainIdx(p) = 1 .. n /\ p.current \in 1 .. n
  <2>1. p.chain \in Seq(ChainBlock) /\ p.current \in 1 .. n /\ ChainIdx(p) = 1 .. n
    BY <1>1 DEF PoolType, ChainIdx, BlocksOK
  <2> QED
    BY <2>1
<1>3. a \in Nat /\ m \in Nat /\ size <= PoolSize - HeaderSize
  BY <1>1, StartFacts, Sizings, MaxForFacts DEF BlocksOK
<1>4. new \in ChainBlock /\ m + size <= a + PoolSize /\ m + size \in Nat
  BY <1>3, <1>g, Sizings DEF ChainBlock
<1>5. b \in Extent /\ b.at = m /\ b.len = size /\ b.at \in Nat /\ b.len \in Nat
  BY <1>3 DEF Block, Extent
<1> HIDE DEF n, m, b
<1>6. ASSUME NEW i \in 1 .. n
      PROVE  /\ p.chain[i] \in ChainBlock /\ counted[i] \in ChainBlock
             /\ counted[i].base = p.chain[i].base /\ counted[i].end = p.chain[i].end
             /\ counted[i].last = p.chain[i].last
             /\ p.chain[i].failed \in Nat
             /\ counted[i].failed = IF i \in searched THEN p.chain[i].failed + 1 ELSE p.chain[i].failed
  <2>1. p.chain[i] \in ChainBlock
    BY <1>2 DEF n
  <2>2. counted[i] = IF i \in searched THEN [p.chain[i] EXCEPT !.failed = @ + 1] ELSE p.chain[i]
    BY <1>f
  <2> QED
    BY <2>1, <2>2 DEF ChainBlock
<1>7. counted \in Seq(ChainBlock) /\ Len(counted) = n
  <2>1. counted \in [1 .. n -> ChainBlock]
    <3> DEFINE e(i) == IF i \in searched THEN [p.chain[i] EXCEPT !.failed = @ + 1] ELSE p.chain[i]
    <3>1. counted = [i \in 1 .. n |-> e(i)]
      BY <1>f
    <3>2. \A i \in 1 .. n : e(i) \in ChainBlock
      <4>1. \A i \in 1 .. n : counted[i] = e(i)
        BY <3>1
      <4> HIDE DEF e
      <4> QED
        BY <1>6, <4>1
    <3> HIDE DEF e
    <3> QED
      BY <3>1, <3>2
  <2> QED
    BY <1>2, <2>1, FunctionIsSeq
<1>8. /\ chained \in Seq(ChainBlock) /\ Len(chained) = n + 1
      /\ chained[n + 1] = new
      /\ \A i \in 1 .. n : chained[i] = counted[i]
  BY <1>2, <1>4, <1>7
<1> HIDE DEF chained
<1>9. cur \in 1 .. n /\ p.current <= cur
      /\ (cur # p.current => cur - 1 \in searched /\ p.chain[cur - 1].failed > FailLimit)
  <2>1. CASE worn = {}
    BY <1>2, <1>e, <2>1
  <2>2. CASE worn # {}
    <3> DEFINE x == MaxOf(worn)
    <3>1. worn \subseteq 0 .. n
      BY <1>2, <1>d
    <3>2. x \in worn
      BY <1>2, <2>2, <3>1, MaxOfIs
    <3>3. cur = x + 1
      BY <1>e, <2>2
    <3> HIDE DEF x
    <3>5. x \in searched /\ p.chain[x].failed > FailLimit
      BY <1>d, <3>2
    <3>6. x \in p.current .. n - 1
      BY <1>d, <3>5
    <3>7. cur - 1 = x /\ cur \in 1 .. n /\ p.current <= cur
      BY <1>2, <3>3, <3>6
    <3> QED
      BY <3>5, <3>7
  <2> QED
    BY <2>1, <2>2
<1>10. /\ q \in PoolType /\ q.chain = chained
       /\ q.max = p.max /\ q.current = cur /\ q.large = p.large /\ q.cleanup = p.cleanup
  <2>1. chained \in Seq(ChainBlock) /\ cur \in Nat
    BY <1>2, <1>8, <1>9
  <2> QED
    BY <1>1, <1>d, <2>1 DEF PoolType
<1>11. ChainIdx(q) = 1 .. n + 1 /\ LargeIdx(q) = LargeIdx(p) /\ Len(q.chain) = n + 1
  BY <1>8, <1>10 DEF ChainIdx, LargeIdx
<1>12. q.chain[n + 1] = new /\ \A i \in 1 .. n : q.chain[i] = counted[i]
  BY <1>8, <1>10
<1>13. \A i \in 1 .. n + 1 : i = n + 1 \/ i \in 1 .. n
  BY <1>2
<1>14. BlocksOK(q)
  <2>1. ASSUME NEW i \in 1 .. n + 1
        PROVE  /\ q.chain[i].base \in Starts
               /\ q.chain[i].end = q.chain[i].base + PoolSize
               /\ q.chain[i].base + HeaderSize <= q.chain[i].last
               /\ q.chain[i].last <= q.chain[i].end
               /\ q.chain[i].failed <= Len(q.chain) - i
    <3>1. CASE i = n + 1
      <4>1. q.chain[i] = new /\ Len(q.chain) - i = 0
        BY <1>2, <1>11, <1>12, <3>1
      <4>2. a + HeaderSize <= a + HeaderSize + size
        BY <1>3, Sizings
      <4> QED
        BY <1>3, <1>4, <1>g, <4>1, <4>2 DEF m
    <3>2. CASE i \in 1 .. n
      <4>1. q.chain[i] = counted[i] /\ Len(q.chain) - i = n - i + 1
        BY <1>2, <1>11, <1>12, <3>2
      <4>2. /\ p.chain[i].base \in Starts /\ p.chain[i].end = p.chain[i].base + PoolSize
            /\ p.chain[i].base + HeaderSize <= p.chain[i].last
            /\ p.chain[i].last <= p.chain[i].end /\ p.chain[i].failed <= n - i
        <5>1. i \in ChainIdx(p)
          BY <1>2, <3>2
        <5>2. p.chain[i].failed <= n - i
          BY <1>1, <5>1 DEF BlocksOK, n
        <5> QED
          BY <1>1, <5>1, <5>2, BlockFacts
      <4>3. counted[i].failed <= n - i + 1
        <5>1. p.chain[i].failed \in Nat /\ counted[i].failed <= p.chain[i].failed + 1
          BY <1>6, <3>2
        <5>2. counted[i].failed \in Nat
          BY <1>6, <3>2, <5>1
        <5> DEFINE x == p.chain[i].failed
                   y == counted[i].failed
        <5>3. x \in Nat /\ y \in Nat /\ y <= x + 1 /\ x <= n - i
          BY <4>2, <5>1, <5>2
        <5>4. n \in Nat /\ i \in Nat
          BY <1>2, <3>2
        <5> HIDE DEF x, y, n
        <5>5. y <= n - i + 1
          BY <5>3, <5>4
        <5> QED
          BY <5>5 DEF y
      <4> QED
        BY <1>6, <3>2, <4>1, <4>2, <4>3
    <3> QED
      BY <1>13, <3>1, <3>2
  <2>2. cur \in 1 .. n + 1
    BY <1>2, <1>9
  <2> QED
    BY <1>1, <1>10, <1>11, <2>1, <2>2 DEF BlocksOK
<1>15. FailuresOK(q)
  <2>1. ASSUME NEW i \in 1 .. n + 1, i < cur PROVE q.chain[i].failed > FailLimit
    <3>1. i \in 1 .. n /\ q.chain[i] = counted[i]
      BY <1>2, <1>9, <1>12, <2>1
    <3>2. p.chain[i].failed > FailLimit
      <4>1. CASE i < p.current
        BY <1>1, <1>2, <3>1, <4>1 DEF FailuresOK
      <4>2. CASE p.current <= i /\ i = cur - 1
        BY <1>2, <1>9, <2>1, <4>2
      <4>3. CASE p.current <= i /\ i < cur - 1
        <5>1. cur - 1 \in 1 .. n /\ cur # p.current
          BY <1>2, <1>9, <4>3
        <5>2. p.chain[cur - 1].failed <= p.chain[i].failed /\ p.chain[cur - 1].failed > FailLimit
          BY <1>1, <1>2, <1>9, <3>1, <4>3, <5>1 DEF FailuresOK
        <5> QED
          BY <1>6, <3>1, <5>1, <5>2, Sizings
      <4>4. i < p.current \/ (p.current <= i /\ i = cur - 1) \/ (p.current <= i /\ i < cur - 1)
        BY <1>2, <1>9, <2>1, <3>1
      <4> QED
        BY <4>1, <4>2, <4>3, <4>4
    <3> QED
      BY <1>6, <3>1, <3>2, Sizings
  <2>2. ASSUME NEW i \in 1 .. n + 1, NEW j \in 1 .. n + 1, cur <= i, i < j
        PROVE  q.chain[j].failed <= q.chain[i].failed
    <3>1. i \in 1 .. n /\ q.chain[i] = counted[i] /\ p.current <= i
      BY <1>2, <1>9, <1>12, <2>2
    <3>2. CASE j = n + 1
      <4>1. q.chain[j].failed = 0
        BY <1>12, <1>g, <3>2
      <4>2. counted[i].failed \in Nat
        BY <1>6, <3>1 DEF ChainBlock
      <4> QED
        BY <3>1, <4>1, <4>2
    <3>3. CASE j \in 1 .. n
      <4>1. q.chain[j] = counted[j] /\ p.chain[j].failed <= p.chain[i].failed
        BY <1>1, <1>2, <1>12, <2>2, <3>1, <3>3 DEF FailuresOK
      <4>2. i \in searched
        BY <1>2, <1>d, <2>2, <3>1, <3>3
      <4> QED
        BY <1>6, <3>1, <3>3, <4>1, <4>2
    <3> QED
      BY <1>13, <3>2, <3>3
  <2> QED
    BY <1>10, <1>11, <2>1, <2>2 DEF FailuresOK
<1>16. RegionsOK(q, h, T)
  <2>1. Owned(q) = Owned(p) \cup {a}
    <3>1. \A i \in 1 .. n : q.chain[i].base = p.chain[i].base
      BY <1>6, <1>12
    <3>2. q.chain[n + 1].base = a
      BY <1>12, <1>g
    <3>3. {q.chain[i].base : i \in 1 .. n + 1} = {p.chain[i].base : i \in 1 .. n} \cup {a}
      <4>1. 1 .. n + 1 = (1 .. n) \cup {n + 1}
        BY <1>2
      <4> QED
        BY <3>1, <3>2, <4>1
    <3> QED
      BY <1>2, <1>10, <1>11, <3>3 DEF Owned
  <2>2. a \notin Owned(p) /\ Owned(p) \cap T = {}
    BY <1>1 DEF RegionsOK
  <2>3. h = {RegionOf(x) : x \in Owned(q) \cup T} /\ Owned(q) \cap T = {}
    <3>1. Owned(q) \cup T = Owned(p) \cup (T \cup {a})
      BY <2>1
    <3> QED
      BY <1>1, <2>1, <2>2, <3>1 DEF RegionsOK
  <2>4. \A i \in 1 .. n : q.chain[i].base = p.chain[i].base /\ p.chain[i].base # a
    BY <1>2, <1>6, <1>12, <2>2 DEF Owned
  <2>5. \A i, j \in 1 .. n + 1 : i # j => q.chain[i].base # q.chain[j].base
    <3>1. \A i, j \in 1 .. n : i # j => q.chain[i].base # q.chain[j].base
      BY <1>1, <1>2, <2>4 DEF RegionsOK
    <3>2. q.chain[n + 1].base = a
      BY <1>12, <1>g
    <3> QED
      BY <1>13, <2>4, <3>1, <3>2
  <2>6. \A k \in LargeIdx(p) : p.large[k].alloc # a
    BY <2>2 DEF Owned
  <2>7. \A i \in 1 .. n + 1, k \in LargeIdx(p) : q.chain[i].base # p.large[k].alloc
    <3>1. \A i \in 1 .. n, k \in LargeIdx(p) : q.chain[i].base # p.large[k].alloc
      BY <1>1, <1>2, <2>4 DEF RegionsOK
    <3>2. q.chain[n + 1].base = a
      BY <1>12, <1>g
    <3> QED
      BY <1>13, <2>6, <3>1, <3>2
  <2>8. \A k, l \in LargeIdx(p) : k # l => p.large[k].alloc # p.large[l].alloc
    BY <1>1 DEF RegionsOK
  <2> QED
    BY <1>10, <1>11, <2>3, <2>5, <2>7, <2>8 DEF RegionsOK
<1>17. InBlock(q, b)
  <2>1. q.chain[n + 1].base + HeaderSize <= b.at /\ b.at + b.len <= q.chain[n + 1].last
    BY <1>3, <1>4, <1>5, <1>12, <1>g, Sizings DEF m
  <2>2. n + 1 \in ChainIdx(q)
    BY <1>2, <1>11
  <2> QED
    BY <2>1, <2>2 DEF InBlock
<1>18. /\ a \in Starts \ Owned(p) /\ a <= b.at /\ b.at + b.len <= a + RegionSize
  <2>1. a \notin Owned(p)
    BY <1>1 DEF RegionsOK
  <2> QED
    BY <1>3, <1>4, <1>5, <2>1, Sizings DEF m
<1>19. \A d \in L : Apart(b, d)
  <2>1. ASSUME NEW d \in L PROVE Apart(b, d)
    <3>1. d.at \in Nat /\ d.len \in Nat /\ (InBlock(p, d) \/ Alone(p, d))
      BY <1>1 DEF Extent, ExtentsOK
    <3> QED
      BY <1>1, <1>5, <1>18, <3>1, FreshRegion
  <2> QED
    BY <2>1
<1>20. \A k \in LargeIdx(p) : Apart(b, Record(p, k))
  <2>1. ASSUME NEW k \in LargeIdx(p) PROVE Apart(b, Record(p, k))
    <3>1. p.large[k] \in LargeRecord
      BY <1>1 DEF PoolType, LargeIdx
    <3>2. Record(p, k).at \in Nat /\ Record(p, k).len \in Nat /\ InBlock(p, Record(p, k))
      BY <1>1, <3>1, Sizings DEF ExtentsOK, Record, Block, LargeRecord
    <3> QED
      BY <1>1, <1>5, <1>18, <3>2, FreshRegion
  <2> QED
    BY <2>1
<1>21. ExtentsOK(q, L \cup {b})
  <2>1. ASSUME NEW j \in ChainIdx(p)
        PROVE  /\ j \in ChainIdx(q) /\ q.chain[j].base = p.chain[j].base
               /\ p.chain[j].last <= q.chain[j].last
    <3>1. j \in 1 .. n /\ j \in ChainIdx(q) /\ q.chain[j] = counted[j]
      BY <1>2, <1>11, <1>12
    <3>2. q.chain[j].base = p.chain[j].base /\ q.chain[j].last = p.chain[j].last /\ p.chain[j] \in ChainBlock
      BY <1>6, <3>1
    <3> QED
      BY <3>1, <3>2 DEF ChainBlock
  <2> QED
    BY <1>1, <1>5, <1>10, <1>17, <1>19, <1>20, <2>1, ExtentsGrow
<1>22. b \notin L
  <2>1. ~Apart(b, b)
    BY <1>3, <1>5 DEF Apart
  <2> QED
    BY <1>19, <2>1
<1>23. T \subseteq Starts /\ h \subseteq Regions
  BY DEF Kept
<1>24. Kept(q, h, L \cup {b}, T)
  BY <1>1, <1>5, <1>10, <1>14, <1>15, <1>16, <1>21, <1>23 DEF Kept
<1> QED
  BY <1>10, <1>17, <1>22, <1>24 DEF q, b, m

\* A call with another pool and another result.
Update(c, q, m) == [c EXCEPT !.at = m, !.pool = q]

LEMMA CallUpdate ==
    ASSUME NEW c \in CallType, NEW q \in PoolType, NEW m \in Int
    PROVE  LET n == Update(c, q, m)
           IN  n \in CallType /\ n.pool = q /\ n.heap = c.heap /\ n.fuel = c.fuel /\ n.at = m
BY DEF CallType, Update

\* What a call that was asked for size bytes leaves behind.
Gave(s, n, L, T, size) ==
    /\ n.pool.cleanup = s.pool.cleanup
    /\ n.at = Null => Good(n, L, T)
    /\ n.at # Null => /\ Block(n.at, size) \notin L
                     /\ Good(n, L \cup {Block(n.at, size)}, T)

\* What it leaves behind when the size is small.
GaveSmall(s, n, L, T, size) ==
    /\ Gave(s, n, L, T, size)
    /\ n.pool.large = s.pool.large
    /\ n.at = Null => n.pool = s.pool
    /\ n.at # Null => InBlock(n.pool, Block(n.at, size))

\* dl_palloc_block makes the pool that Grown describes.
LEMMA NewBlockIs ==
    ASSUME NEW s, NEW L, NEW T, Good(s, L, T), NEW size \in Nat
    PROVE  LET g == Malloc(s, PoolSize)
           IN  NewBlock(s, size) =
                   IF g.at = Null THEN g
                   ELSE [g EXCEPT !.at = g.at + HeaderSize, !.pool = Grown(s.pool, g.at, size)]
<1> DEFINE p == s.pool
           c == p.chain
           psize == c[1].end - c[1].base
           g == Malloc(s, psize)
           m == FirstAddress(g.at)
           new == [base |-> g.at, last |-> m + size,
                   end |-> g.at + psize, failed |-> 0]
           chain == Append(Counted(p), new)
           cur == NextCurrent(p)
<1>1. p \in PoolType /\ BlocksOK(p) /\ 1 \in ChainIdx(p)
  <2>1. p \in PoolType /\ BlocksOK(p)
    BY DEF Good, Kept
  <2> QED
    BY <2>1 DEF BlocksOK, ChainIdx, PoolType
<1>2. psize = PoolSize
  <2> DEFINE b == c[1]
  <2>1. b.base \in Nat /\ b.end = b.base + PoolSize
    BY <1>1, BlockFacts, StartFacts
  <2> HIDE DEF b
  <2>2. b.end - b.base = PoolSize
    BY <2>1, Sizings
  <2> QED
    BY <2>2 DEF b
<1>3. CASE g.at = Null
  BY <1>2, <1>3 DEF NewBlock
<1>4. CASE g.at # Null
  <2>3. g.at \in Starts /\ g.pool = p
    BY <1>4, MallocGood
  <2>4. m = g.at + HeaderSize
    BY <2>3, FirstAddressIs
  <2>5. NewBlock(s, size) = [g EXCEPT !.at = m, !.pool.chain = chain,
                                      !.pool.current = IF Worn(p) = {} THEN @ ELSE MaxOf(Worn(p)) + 1]
    BY <1>4 DEF NewBlock, Counted, Worn, Searched
  <2>6. [g EXCEPT !.at = m, !.pool.chain = chain,
                  !.pool.current = IF Worn(p) = {} THEN @ ELSE MaxOf(Worn(p)) + 1]
        = [g EXCEPT !.at = m, !.pool = [p EXCEPT !.chain = chain, !.current = cur]]
    <3> HIDE DEF g, c, m, chain
    <3> QED
      BY <2>3 DEF NextCurrent
  <2>7. new = LastBlock(g.at, size)
    BY <1>2, <2>4 DEF LastBlock
  <2>8. g = Malloc(s, PoolSize)
    BY <1>2
  <2> HIDE DEF g, m, c, new, p, cur, psize
  <2> QED
    BY <1>4, <2>4, <2>5, <2>6, <2>7, <2>8 DEF Grown, p, cur
<1> QED
  BY <1>3, <1>4

\* A new block of the chain, with size bytes of it handed out.
LEMMA NewBlockGood ==
    ASSUME NEW s, NEW L, NEW T, Good(s, L, T),
           NEW size \in Nat \ {0}, size <= s.pool.max
    PROVE  GaveSmall(s, NewBlock(s, size), L, T, size)
<1> DEFINE g == Malloc(s, PoolSize)
           n == NewBlock(s, size)
           q == Grown(s.pool, g.at, size)
           m == g.at + HeaderSize
<1>1. /\ g.pool = s.pool
      /\ g.at = Null => Good(g, L, T) /\ g.heap = s.heap
      /\ g.at # Null => /\ g.at \in Starts /\ g.at \notin T
                        /\ Good(g, L, T \cup {g.at})
  BY MallocGood
<1>2. n = IF g.at = Null THEN g ELSE [g EXCEPT !.at = m, !.pool = q]
  BY NewBlockIs
<1>3. CASE g.at = Null
  BY <1>1, <1>2, <1>3 DEF GaveSmall, Gave
<1>4. CASE g.at # Null
  <2> DEFINE a == g.at
             b == Block(m, size)
  <2>1. a \in Starts /\ a \notin T /\ Kept(s.pool, g.heap, L, T \cup {a}) /\ g \in CallType
    BY <1>1, <1>4 DEF Good
  <2>2. /\ b \notin L /\ InBlock(q, b)
        /\ Kept(q, g.heap, L \cup {b}, T)
        /\ q.large = s.pool.large /\ q.cleanup = s.pool.cleanup
    <3> DEFINE p == s.pool
               h == g.heap
    <3>1. a \in Starts /\ a \notin T /\ Kept(p, h, L, T \cup {a}) /\ size <= p.max
      BY <2>1
    <3>2. q = Grown(p, a, size) /\ b = Block(a + HeaderSize, size)
      OBVIOUS
    <3> HIDE DEF a, p, h, q, b, m
    <3>3. /\ b \notin L /\ InBlock(q, b)
          /\ Kept(q, h, L \cup {b}, T)
          /\ q.large = p.large /\ q.cleanup = p.cleanup
      BY <3>1, <3>2, ChainGood
    <3> QED
      BY <3>3 DEF h, p
  <2>3. m \in Nat /\ m \in Int /\ m # Null
    BY <2>1, StartFacts, Sizings DEF Null
  <2>4. n = Update(g, q, m)
    BY <1>2, <1>4 DEF Update
  <2>5. q \in PoolType
    BY <2>2 DEF Kept
  <2> HIDE DEF g, n, q, m
  <2>6. n \in CallType /\ n.pool = q /\ n.heap = g.heap /\ n.at = m
    BY <2>1, <2>3, <2>4, <2>5, CallUpdate
  <2>7. Good(n, L \cup {b}, T)
    BY <2>2, <2>6 DEF Good
  <2> QED
    BY <2>2, <2>3, <2>6, <2>7 DEF GaveSmall, Gave, n
<1> QED
  BY <1>3, <1>4

\* dl_palloc_small
LEMMA SmallGood ==
    ASSUME NEW s, NEW L, NEW T, Good(s, L, T),
           NEW size \in Nat \ {0}, size <= s.pool.max, NEW align \in BOOLEAN
    PROVE  GaveSmall(s, Small(s, size, align), L, T, size)
<1> DEFINE p == s.pool
           n == Small(s, size, align)
           fits == {i \in p.current .. Len(p.chain) :
                       Room(p.chain[i], Where(p.chain[i], align), size)}
           i == MinOf(fits)
           m == Where(p.chain[i], align)
           q == [p EXCEPT !.chain[i].last = m + size]
<1>1. n = IF fits = {} THEN NewBlock(s, size) ELSE [s EXCEPT !.at = m, !.pool.chain[i].last = m + size]
  BY DEF Small
<1>2. CASE fits = {}
  BY <1>1, <1>2, NewBlockGood
<1>3. CASE fits # {}
  <2>1. s \in CallType /\ Kept(p, s.heap, L, T) /\ p \in PoolType /\ BlocksOK(p)
    BY DEF Good, Kept
  <2>2. i \in ChainIdx(p) /\ Room(p.chain[i], m, size)
    <3>1. fits \subseteq Nat /\ fits \subseteq ChainIdx(p)
      BY <2>1 DEF BlocksOK, ChainIdx, PoolType
    <3>2. i \in fits
      <4> HIDE DEF fits
      <4> QED
        BY <1>3, <3>1, MinOfIs
    <3> QED
      BY <3>1, <3>2
  <2>3. m \in Nat /\ p.chain[i].last <= m /\ m + size <= p.chain[i].end
    <3> HIDE DEF i
    <3> QED
      BY <2>1, <2>2, RoomFacts
  <2>4. n = Update(s, q, m)
    <3>1. n = [s EXCEPT !.at = m, !.pool.chain[i].last = m + size]
      BY <1>1, <1>3
    <3> HIDE DEF i, m, n
    <3> QED
      BY <3>1 DEF Update
  <2> DEFINE b == Block(m, size)
  <2>5. /\ b \notin L /\ InBlock(q, b)
        /\ Kept(q, s.heap, L \cup {b}, T)
        /\ q.large = p.large /\ q.cleanup = p.cleanup
    <3> HIDE DEF i, m, p
    <3> QED
      BY <2>1, <2>2, <2>3, RoomGood
  <2>6. q \in PoolType
    BY <2>5 DEF Kept
  <2>7. m # Null /\ m \in Int
    BY <2>3 DEF Null
  <2> HIDE DEF n, q, m
  <2>8. n \in CallType /\ n.pool = q /\ n.heap = s.heap /\ n.at = m
    BY <2>1, <2>4, <2>6, <2>7, CallUpdate
  <2>9. Good(n, L \cup {b}, T)
    BY <2>5, <2>8 DEF Good
  <2> QED
    BY <2>5, <2>7, <2>8, <2>9 DEF GaveSmall, Gave, n
<1> QED
  BY <1>2, <1>3

-------------------------------------------------------------------------------
(* dl_palloc_large and dl_palloc.                                            *)

\* The pool with a large record at x for the region a.
WithLarge(p, x, a) == [p EXCEPT !.large = <<[rec |-> x, alloc |-> a]>> \o @]

\* Region a is there, and x is memory for its record.
RecordMade(p, h, L, T, a, x) ==
    /\ a \in Starts /\ a \notin T /\ x \in Nat
    /\ Block(x, LargeSize) \notin L /\ InBlock(p, Block(x, LargeSize))
    /\ Kept(p, h, L \cup {Block(x, LargeSize)}, T \cup {a})

\* The record becomes the pool's and its region a block of the caller's.
LEMMA WithLargeGood ==
    ASSUME NEW p, NEW h, NEW L, NEW T, NEW a, NEW x, RecordMade(p, h, L, T, a, x),
           NEW size \in Nat \ {0}, size <= RegionSize
    PROVE  LET q == WithLarge(p, x, a)
           IN  Block(a, size) \notin L /\ Kept(q, h, L \cup {Block(a, size)}, T)
               /\ q.cleanup = p.cleanup
<1> DEFINE q == WithLarge(p, x, a)
           b == Block(a, size)
           r == Block(x, LargeSize)
           n == Len(p.large)
           entry == [rec |-> x, alloc |-> a]
           large == <<entry>> \o p.large
<1>1. /\ p \in PoolType /\ BlocksOK(p) /\ FailuresOK(p) /\ RegionsOK(p, h, T \cup {a})
      /\ ExtentsOK(p, L \cup {r}) /\ L \subseteq Extent /\ r \in Extent
      /\ h \subseteq Regions /\ T \subseteq Starts
      /\ a \in Starts /\ a \notin T /\ x \in Nat
  BY DEF RecordMade, Kept
<1>2. /\ r \notin L /\ InBlock(p, r) /\ r.at = x /\ r.len = LargeSize
      /\ r.at \in Nat /\ r.len \in Nat
  BY <1>1, Sizings DEF RecordMade, Block
<1>3. a \in Nat /\ b \in Extent /\ b.at = a /\ b.len = size /\ b.at \in Nat /\ b.len \in Nat
  BY <1>1, StartFacts DEF Block, Extent
<1>4. entry \in LargeRecord /\ entry.rec = x /\ entry.alloc = a
  BY <1>1, <1>3 DEF LargeRecord
<1>5. p.large \in Seq(LargeRecord) /\ n \in Nat /\ LargeIdx(p) = 1 .. n
  BY <1>1 DEF PoolType, LargeIdx
<1> HIDE DEF entry, n
<1>6. /\ large \in Seq(LargeRecord) /\ Len(large) = n + 1
      /\ large[1] = entry /\ \A k \in 1 .. n : large[k + 1] = p.large[k]
  BY <1>4, <1>5 DEF n
<1>7. q = [p EXCEPT !.large = large]
  BY DEF WithLarge, entry
<1> HIDE DEF q, b, r, large
<1>8. /\ q \in PoolType /\ q.large = large /\ q.chain = p.chain
      /\ q.max = p.max /\ q.current = p.current /\ q.cleanup = p.cleanup
  BY <1>1, <1>6, <1>7 DEF PoolType
<1>9. /\ LargeIdx(q) = 1 .. n + 1 /\ ChainIdx(q) = ChainIdx(p)
      /\ q.large[1] = entry /\ \A k \in 1 .. n : q.large[k + 1] = p.large[k]
  BY <1>6, <1>8 DEF LargeIdx, ChainIdx
<1>10. ASSUME NEW k \in LargeIdx(q)
       PROVE  k = 1 \/ (k - 1 \in 1 .. n /\ q.large[k] = p.large[k - 1])
  <2>1. k = 1 \/ (k - 1 \in 1 .. n /\ (k - 1) + 1 = k)
    BY <1>5, <1>9
  <2> QED
    BY <1>9, <2>1
<1>11. BlocksOK(q)
  <2>1. \A k \in LargeIdx(q) : q.large[k].alloc \in Starts
    BY <1>1, <1>4, <1>5, <1>9, <1>10 DEF BlocksOK
  <2> QED
    BY <1>1, <1>8, <1>9, <2>1 DEF BlocksOK
<1>12. FailuresOK(q)
  BY <1>1, <1>8, <1>9 DEF FailuresOK
<1>13. a \notin Owned(p) /\ Owned(p) \cap T = {}
  BY <1>1 DEF RegionsOK
<1>14. RegionsOK(q, h, T)
  <2>1. {q.large[k].alloc : k \in LargeIdx(q)} = {p.large[k].alloc : k \in 1 .. n} \cup {a}
    <3>1. \A k \in 1 .. n : k + 1 \in LargeIdx(q) /\ q.large[k + 1].alloc = p.large[k].alloc
      BY <1>5, <1>9
    <3>2. 1 \in LargeIdx(q) /\ q.large[1].alloc = a
      BY <1>4, <1>5, <1>9
    <3>3. \A k \in LargeIdx(q) : q.large[k].alloc = a
              \/ (k - 1 \in 1 .. n /\ q.large[k].alloc = p.large[k - 1].alloc)
      BY <1>10, <3>2
    <3> QED
      BY <3>1, <3>2, <3>3
  <2>2. Owned(q) = Owned(p) \cup {a}
    BY <1>5, <1>8, <1>9, <2>1 DEF Owned
  <2>3. h = {RegionOf(y) : y \in Owned(q) \cup T} /\ Owned(q) \cap T = {}
    <3>1. Owned(q) \cup T = Owned(p) \cup (T \cup {a})
      BY <2>2
    <3> QED
      BY <1>1, <1>13, <2>2, <3>1 DEF RegionsOK
  <2>4. \A k \in 1 .. n : p.large[k].alloc # a
    BY <1>5, <1>13 DEF Owned
  <2>5. \A i \in ChainIdx(p) : p.chain[i].base # a
    BY <1>13 DEF Owned
  <2>6. \A k, l \in LargeIdx(q) : k # l => q.large[k].alloc # q.large[l].alloc
    <3>1. SUFFICES ASSUME NEW k \in LargeIdx(q), NEW l \in LargeIdx(q), k # l
                   PROVE  q.large[k].alloc # q.large[l].alloc
      OBVIOUS
    <3>2. CASE k = 1
      <4>1. l - 1 \in 1 .. n /\ q.large[l] = p.large[l - 1]
        BY <1>10, <3>1, <3>2
      <4> QED
        BY <1>4, <1>9, <2>4, <3>2, <4>1
    <3>3. CASE l = 1
      <4>1. k - 1 \in 1 .. n /\ q.large[k] = p.large[k - 1]
        BY <1>10, <3>1, <3>3
      <4> QED
        BY <1>4, <1>9, <2>4, <3>3, <4>1
    <3>4. CASE k # 1 /\ l # 1
      <4>1. /\ k - 1 \in 1 .. n /\ q.large[k] = p.large[k - 1]
            /\ l - 1 \in 1 .. n /\ q.large[l] = p.large[l - 1]
        BY <1>10, <3>4
      <4>2. k - 1 # l - 1
        BY <1>9, <3>1
      <4>3. p.large[k - 1].alloc # p.large[l - 1].alloc
        BY <1>1, <1>5, <4>1, <4>2 DEF RegionsOK
      <4> QED
        BY <4>1, <4>3
    <3> QED
      BY <3>2, <3>3, <3>4
  <2>7. \A i \in ChainIdx(p), k \in LargeIdx(q) : p.chain[i].base # q.large[k].alloc
    <3>1. SUFFICES ASSUME NEW i \in ChainIdx(p), NEW k \in LargeIdx(q)
                   PROVE  p.chain[i].base # q.large[k].alloc
      OBVIOUS
    <3>2. CASE k = 1
      BY <1>4, <1>9, <2>5, <3>2
    <3>3. CASE k # 1
      <4>1. k - 1 \in LargeIdx(p) /\ q.large[k] = p.large[k - 1]
        BY <1>5, <1>10, <3>3
      <4> QED
        BY <1>1, <4>1 DEF RegionsOK
    <3> QED
      BY <3>2, <3>3
  <2>8. \A i, j \in ChainIdx(p) : i # j => p.chain[i].base # p.chain[j].base
    BY <1>1 DEF RegionsOK
  <2> QED
    BY <1>8, <1>9, <2>3, <2>6, <2>7, <2>8 DEF RegionsOK
<1>15. ASSUME NEW k \in LargeIdx(q)
       PROVE  \/ k = 1 /\ Record(q, k) = r
              \/ k # 1 /\ k - 1 \in LargeIdx(p) /\ Record(q, k) = Record(p, k - 1)
  <2>1. CASE k = 1
    BY <1>4, <1>9, <2>1 DEF Record, r
  <2>2. CASE k # 1
    BY <1>5, <1>10, <2>2 DEF Record
  <2> QED
    BY <2>1, <2>2
<1>16. \A c : (InBlock(p, c) => InBlock(q, c)) /\ (Alone(p, c) => Alone(q, c))
  <2>1. \A c : InBlock(p, c) => InBlock(q, c)
    BY <1>8, <1>9 DEF InBlock
  <2>2. ASSUME NEW c, Alone(p, c) PROVE Alone(q, c)
    <3>1. PICK k \in LargeIdx(p) : p.large[k].alloc = c.at /\ c.len <= RegionSize
      BY <2>2 DEF Alone
    <3>2. k + 1 \in LargeIdx(q) /\ q.large[k + 1].alloc = c.at
      BY <1>5, <1>9, <3>1
    <3> QED
      BY <3>1, <3>2 DEF Alone
  <2> QED
    BY <2>1, <2>2
<1>17. ExtentsOK(q, L \cup {b})
  <2>1. \A c \in L \cup {b} : InBlock(q, c) \/ Alone(q, c)
    <3>1. Alone(q, b)
      <4>1. 1 \in LargeIdx(q) /\ q.large[1].alloc = b.at /\ b.len <= RegionSize
        BY <1>3, <1>4, <1>5, <1>9
      <4> QED
        BY <4>1 DEF Alone
    <3>2. \A c \in L : InBlock(p, c) \/ Alone(p, c)
      BY <1>1 DEF ExtentsOK
    <3> QED
      BY <1>16, <3>1, <3>2
  <2>2. \A k \in LargeIdx(q) : InBlock(q, Record(q, k))
    <3>1. \A k \in LargeIdx(p) : InBlock(p, Record(p, k))
      BY <1>1 DEF ExtentsOK
    <3> QED
      BY <1>2, <1>15, <1>16, <3>1
  <2>3. ASSUME NEW c, c.at \in Nat, c.len \in Nat, InBlock(p, c) \/ Alone(p, c)
        PROVE  Apart(b, c)
    <3>1. a \in Starts \ Owned(p) /\ a <= b.at /\ b.at + b.len <= a + RegionSize
      BY <1>1, <1>3, <1>13, Sizings
    <3> QED
      BY <1>1, <1>3, <2>3, <3>1, FreshRegion
  <2>4. \A c \in L : Apart(b, c)
    <3>1. ASSUME NEW c \in L PROVE c.at \in Nat /\ c.len \in Nat /\ (InBlock(p, c) \/ Alone(p, c))
      BY <1>1 DEF Extent, ExtentsOK
    <3> QED
      BY <2>3, <3>1
  <2>5. \A k \in LargeIdx(p) : Apart(b, Record(p, k))
    <3>1. ASSUME NEW k \in LargeIdx(p) PROVE Apart(b, Record(p, k))
      <4>1. p.large[k] \in LargeRecord
        BY <1>1 DEF PoolType, LargeIdx
      <4>2. Record(p, k).at \in Nat /\ Record(p, k).len \in Nat /\ InBlock(p, Record(p, k))
        BY <1>1, <4>1, Sizings DEF ExtentsOK, Record, Block, LargeRecord
      <4> QED
        BY <2>3, <4>2
    <3> QED
      BY <3>1
  <2>6. Apart(b, r)
    BY <1>2, <2>3
  <2>7. \A c, d \in L \cup {b} : c # d => Apart(c, d)
    <3>1. \A c, d \in L : c # d => Apart(c, d)
      BY <1>1 DEF ExtentsOK
    <3>2. \A c \in L : Apart(c, b)
      BY <2>4 DEF Apart
    <3> QED
      BY <2>4, <3>1, <3>2
  <2>8. \A c \in L : Apart(c, r) /\ \A k \in LargeIdx(p) : Apart(c, Record(p, k))
    BY <1>1, <1>2 DEF ExtentsOK
  <2>9. \A c \in L \cup {b}, k \in LargeIdx(q) : Apart(c, Record(q, k))
    BY <1>15, <2>5, <2>6, <2>8
  <2>10. \A k \in LargeIdx(p) : Apart(r, Record(p, k)) /\ Apart(Record(p, k), r)
    BY <1>1 DEF ExtentsOK, Apart
  <2>11. \A k, l \in LargeIdx(q) : k # l => Apart(Record(q, k), Record(q, l))
    <3>1. SUFFICES ASSUME NEW k \in LargeIdx(q), NEW l \in LargeIdx(q), k # l
                   PROVE  Apart(Record(q, k), Record(q, l))
      OBVIOUS
    <3>2. CASE k = 1 \/ l = 1
      BY <1>15, <2>10, <3>1, <3>2
    <3>3. CASE k # 1 /\ l # 1
      <4>1. /\ k - 1 \in LargeIdx(p) /\ Record(q, k) = Record(p, k - 1)
            /\ l - 1 \in LargeIdx(p) /\ Record(q, l) = Record(p, l - 1)
        BY <1>15, <3>3
      <4>2. k - 1 # l - 1
        BY <1>9, <3>1
      <4> QED
        BY <1>1, <4>1, <4>2 DEF ExtentsOK
    <3> QED
      BY <3>2, <3>3
  <2> QED
    BY <2>1, <2>2, <2>7, <2>9, <2>11 DEF ExtentsOK
<1>18. b \notin L
  <2>1. ~(InBlock(p, b) \/ Alone(p, b))
    <3>1. SUFFICES ASSUME InBlock(p, b) \/ Alone(p, b) PROVE FALSE
      OBVIOUS
    <3>2. a \in Starts \ Owned(p) /\ a <= b.at /\ b.at + b.len <= a + RegionSize
      BY <1>1, <1>3, <1>13, Sizings
    <3>3. Apart(b, b)
      BY <1>1, <1>3, <3>1, <3>2, FreshRegion
    <3> QED
      BY <1>3, <3>3 DEF Apart
  <2> QED
    BY <1>1, <2>1 DEF ExtentsOK
<1>19. Kept(q, h, L \cup {b}, T)
  BY <1>1, <1>3, <1>8, <1>11, <1>12, <1>14, <1>17 DEF Kept
<1> QED
  BY <1>8, <1>18, <1>19 DEF q, b

\* dl_palloc_large
LEMMA LargeGood ==
    ASSUME NEW s, NEW L, NEW T, Good(s, L, T),
           NEW size \in Nat \ {0}
    PROVE  Gave(s, Large(s, size), L, T, size)
<1> DEFINE g == Malloc(s, size)
           r == Small(g, LargeSize, TRUE)
           n == Large(s, size)
           a == g.at
           q == WithLarge(r.pool, r.at, a)
<1>1. /\ g.pool = s.pool
      /\ a = Null => Good(g, L, T)
      /\ a # Null => /\ a \in Starts /\ a \notin T /\ Good(g, L, T \cup {a})
                    /\ ~(size > RegionSize)
  BY MallocGood
<1>2. CASE a = Null
  <2>1. n = g
    BY <1>2 DEF Large
  <2> QED
    BY <1>1, <1>2, <2>1 DEF Gave
<1>3. CASE a # Null
  <2>1. a \in Starts /\ a \notin T /\ Good(g, L, T \cup {a}) /\ size <= RegionSize
    <3>1. ~(size > RegionSize)
      BY <1>1, <1>3
    <3>2. size <= RegionSize
      BY <3>1, Sizings
    <3> QED
      BY <1>1, <1>3, <3>2
  <2>2. LargeSize <= g.pool.max /\ LargeSize \in Nat \ {0}
    <3>1. g.pool.max = MaxFor(PoolSize)
      BY <2>1 DEF Good, Kept, BlocksOK
    <3> QED
      BY <3>1, MaxForFacts, Sizings
  <2>3. GaveSmall(g, r, L, T \cup {a}, LargeSize)
    <3> HIDE DEF g, a
    <3> QED
      BY <2>1, <2>2, SmallGood
  <2>4. CASE r.at = Null
    <3>1. n = GiveUp(r, a)
      BY <1>3, <2>4 DEF Large
    <3> HIDE DEF n, r, g, a
    <3>2. Good(r, L, T \cup {a}) /\ r.pool.cleanup = g.pool.cleanup
      BY <2>3, <2>4 DEF GaveSmall, Gave
    <3>3. Good(n, L, T) /\ n.pool = r.pool /\ n.at = Null
      BY <2>1, <2>4, <3>1, <3>2, GiveUpGood
    <3>4. n.pool.cleanup = s.pool.cleanup
      BY <1>1, <3>2, <3>3
    <3> QED
      BY <3>3, <3>4 DEF Gave, n
  <2>5. CASE r.at # Null
    <3> DEFINE x == r.at
               b == Block(a, size)
               c == Block(x, LargeSize)
    <3>1. n = Update(r, q, a)
      <4>1. n = [r EXCEPT !.at = a, !.pool.large = <<[rec |-> r.at, alloc |-> a]>> \o @]
        BY <1>3, <2>5 DEF Large
      <4> HIDE DEF n, r, g, a
      <4> QED
        BY <4>1 DEF Update, WithLarge
    <3> HIDE DEF n, r, g
    <3>2. /\ c \notin L /\ InBlock(r.pool, c)
          /\ Good(r, L \cup {c}, T \cup {a}) /\ r.pool.cleanup = g.pool.cleanup
      BY <2>3, <2>5 DEF GaveSmall, Gave
    <3>3. r \in CallType /\ Kept(r.pool, r.heap, L \cup {c}, T \cup {a})
      BY <3>2 DEF Good
    <3>4. x \in Nat
      <4>1. c \in Extent
        BY <3>3 DEF Kept
      <4> QED
        BY <4>1 DEF Extent, Block
    <3>5. b \notin L /\ Kept(q, r.heap, L \cup {b}, T) /\ q.cleanup = r.pool.cleanup
      <4> DEFINE p == r.pool
                 h == r.heap
      <4>1. RecordMade(p, h, L, T, a, x)
        BY <2>1, <3>2, <3>3, <3>4 DEF RecordMade
      <4> HIDE DEF p, h, x, a
      <4>2. LET w == WithLarge(p, x, a)
            IN  b \notin L /\ Kept(w, h, L \cup {b}, T) /\ w.cleanup = p.cleanup
        BY <2>1, <4>1, WithLargeGood
      <4> QED
        BY <4>2 DEF p, h, x
    <3>6. q \in PoolType /\ a \in Int /\ a # Null
      <4>1. q \in PoolType
        BY <3>5 DEF Kept
      <4>2. a \in Int
        BY <2>1, StartFacts
      <4> QED
        BY <1>3, <4>1, <4>2
    <3> HIDE DEF q, a
    <3>7. n \in CallType /\ n.pool = q /\ n.heap = r.heap /\ n.at = a
      BY <3>1, <3>3, <3>6, CallUpdate
    <3>8. Good(n, L \cup {b}, T)
      BY <3>5, <3>7 DEF Good
    <3>9. n.pool.cleanup = s.pool.cleanup
      BY <1>1, <3>2, <3>5, <3>7
    <3> QED
      BY <3>5, <3>6, <3>7, <3>8, <3>9 DEF Gave, n
  <2> QED
    BY <2>4, <2>5
<1> QED
  BY <1>2, <1>3

\* dl_palloc and dl_pnalloc
LEMMA PallocGood ==
    ASSUME NEW s, NEW L, NEW T, Good(s, L, T),
           NEW size \in Nat \ {0}, NEW align \in BOOLEAN
    PROVE  Gave(s, Palloc(s, size, align), L, T, size)
<1>1. CASE size <= s.pool.max
  BY <1>1, SmallGood DEF Palloc, GaveSmall
<1>2. CASE ~(size <= s.pool.max)
  BY <1>2, LargeGood DEF Palloc
<1> QED
  BY <1>1, <1>2

-------------------------------------------------------------------------------
(* The calls of the library.                                                 *)

\* A pool that is kept is not NoPool.
LEMMA KeptOpen ==
    ASSUME NEW p, NEW h, NEW L, NEW T, Kept(p, h, L, T)
    PROVE  p # NoPool /\ (T = {} => PoolOK(p, h, L))
<1>1. p \in PoolType /\ p.current \in 1 .. Len(p.chain)
  BY DEF Kept, BlocksOK, ChainIdx
<1>2. p.chain # <<>>
  BY <1>1 DEF PoolType
<1>3. NoPool.chain = <<>>
  BY DEF NoPool
<1>4. p # NoPool
  BY <1>2, <1>3
<1> QED
  BY <1>4 DEF PoolOK

\* The cleanup records are nothing to the rest.
LEMMA KeptCleanup ==
    ASSUME NEW p, NEW h, NEW L, NEW T, Kept(p, h, L, T), NEW list \in Seq(CleanupRecord)
    PROVE  LET q == [p EXCEPT !.cleanup = list]
           IN  Kept(q, h, L, T) /\ q.cleanup = list
<1> DEFINE q == [p EXCEPT !.cleanup = list]
<1>1. /\ p \in PoolType /\ BlocksOK(p) /\ FailuresOK(p) /\ RegionsOK(p, h, T) /\ ExtentsOK(p, L)
      /\ h \subseteq Regions /\ L \subseteq Extent /\ T \subseteq Starts
  BY DEF Kept
<1>2. /\ q \in PoolType /\ q.chain = p.chain /\ q.large = p.large
      /\ q.max = p.max /\ q.current = p.current /\ q.cleanup = list
  BY <1>1 DEF PoolType
<1> HIDE DEF q
<1>3. ChainIdx(q) = ChainIdx(p) /\ LargeIdx(q) = LargeIdx(p)
  BY <1>2 DEF ChainIdx, LargeIdx
<1>4. BlocksOK(q)
  BY <1>1, <1>2, <1>3 DEF BlocksOK
<1>5. FailuresOK(q)
  BY <1>1, <1>2, <1>3 DEF FailuresOK
<1>6. RegionsOK(q, h, T)
  <2>1. Owned(q) = Owned(p)
    BY <1>2, <1>3 DEF Owned
  <2> QED
    BY <1>1, <1>2, <1>3, <2>1 DEF RegionsOK
<1>7. ExtentsOK(q, L)
  <2>1. \A b : InBlock(q, b) <=> InBlock(p, b)
    BY <1>2, <1>3 DEF InBlock
  <2>2. \A b : Alone(q, b) <=> Alone(p, b)
    BY <1>2, <1>3 DEF Alone
  <2>3. \A k : Record(q, k) = Record(p, k)
    BY <1>2 DEF Record
  <2> QED
    BY <1>1, <1>3, <2>1, <2>2, <2>3 DEF ExtentsOK
<1>8. Kept(q, h, L, T)
  BY <1>1, <1>2, <1>4, <1>5, <1>6, <1>7 DEF Kept
<1> QED
  BY <1>2, <1>8 DEF q

\* A call starts from the state.
LEMMA CallGood ==
    ASSUME PoolInv, Open, NEW fuel \in Nat
    PROVE  Good(Call(fuel), live, {}) /\ Call(fuel).pool = pool /\ Call(fuel).heap = heap
<1>1. Kept(pool, heap, live, {})
  BY DEF PoolInv, PoolOK, Open
<1>2. pool \in PoolType /\ heap \subseteq Regions
  BY <1>1 DEF Kept
<1>3. Call(fuel) = [pool |-> pool, heap |-> heap, fuel |-> fuel, at |-> -1]
  BY DEF Call, Null
<1>4. Call(fuel) \in CallType
  BY <1>2, <1>3 DEF CallType
<1>5. Call(fuel).pool = pool /\ Call(fuel).heap = heap
  BY <1>3
<1> QED
  BY <1>1, <1>4, <1>5 DEF Good

\* dl_palloc and dl_pnalloc as a step.
LEMMA AllocInv ==
    ASSUME PoolInv, NEW size \in Nat \ {0}, NEW align \in BOOLEAN, NEW fuel \in Nat,
           Alloc(size, align, fuel)
    PROVE  PoolInv' /\ Open' /\ pool'.cleanup = pool.cleanup
<1> DEFINE s == Palloc(Call(fuel), size, align)
<1>1. Open /\ pool' = s.pool /\ heap' = s.heap
      /\ live' = live \cup (IF s.at = Null THEN {} ELSE {Block(s.at, size)})
  BY DEF Alloc, Keep, Give
<1>2. Gave(Call(fuel), s, live, {}, size)
  BY <1>1, CallGood, PallocGood
<1>3. Good(s, live', {})
  <2>1. CASE s.at = Null
    <3>1. live' = live
      BY <1>1, <2>1
    <3> QED
      BY <1>2, <2>1, <3>1 DEF Gave
  <2>2. CASE s.at # Null
    <3>1. live' = live \cup {Block(s.at, size)}
      BY <1>1, <2>2
    <3> QED
      BY <1>2, <2>2, <3>1 DEF Gave
  <2> QED
    BY <2>1, <2>2
<1>4. Kept(pool', heap', live', {})
  BY <1>1, <1>3 DEF Good
<1>5. pool' # NoPool /\ PoolOK(pool', heap', live')
  BY <1>4, KeptOpen
<1>6. pool'.cleanup = pool.cleanup
  BY <1>1, <1>2, CallGood DEF Gave
<1> QED
  BY <1>5, <1>6 DEF PoolInv, Open

\* dl_pool_cleanup_add: what becomes of the pool and the blocks, whatever fails.
LEMMA CleanupAddInv ==
    ASSUME PoolInv, NEW size \in Nat, NEW fuel \in Nat, CleanupAdd(size, fuel)
    PROVE  /\ PoolInv' /\ Open' /\ live \subseteq live'
           /\ \/ pool'.cleanup = pool.cleanup
              \/ \E rec \in CleanupRecord :
                    /\ pool'.cleanup = <<rec>> \o pool.cleanup
                    /\ rec.id = Len(pool.cleanup) + 1 /\ ~rec.handler
                    /\ Block(rec.at, CleanupSize) \in live'
<1> DEFINE c == Palloc(Call(fuel), CleanupSize, TRUE)
           d == IF size = 0 THEN c ELSE Palloc(c, size, TRUE)
           rec == [at |-> c.at, id |-> Len(pool.cleanup) + 1, handler |-> FALSE]
           cb == Block(c.at, CleanupSize)
           db == Block(d.at, size)
           list == <<rec>> \o d.pool.cleanup
           chained == [d.pool EXCEPT !.cleanup = list]
<1>1. /\ Open /\ c.at # Null /\ heap' = d.heap
      /\ pool' = IF d.at = Null THEN d.pool ELSE chained
      /\ live' = live \cup (IF d.at = Null THEN {} ELSE {cb} \cup (IF size = 0 THEN {} ELSE {db}))
  BY DEF CleanupAdd, Chained, Give
<1>2. Gave(Call(fuel), c, live, {}, CleanupSize)
  <2>1. CleanupSize \in Nat \ {0}
    BY Sizings
  <2> QED
    BY <1>1, <2>1, CallGood, PallocGood
<1>3. Good(c, live \cup {cb}, {}) /\ c.pool.cleanup = pool.cleanup
  <2>1. Call(fuel).pool = pool
    BY <1>1, CallGood
  <2> QED
    BY <1>1, <1>2, <2>1 DEF Gave
<1>4. /\ d.pool.cleanup = pool.cleanup
      /\ d.at = Null => Good(d, live, {})
      /\ d.at # Null => Good(d, live', {}) /\ cb \in live'
  <2>1. CASE size = 0
    <3>1. d = c /\ live' = live \cup {cb}
      BY <1>1, <2>1
    <3> QED
      BY <1>1, <1>3, <3>1
  <2>2. CASE size # 0
    <3>1. d = Palloc(c, size, TRUE) /\ size \in Nat \ {0}
      BY <2>2
    <3> HIDE DEF c, d, cb, db
    <3>2. Gave(c, d, live \cup {cb}, {}, size)
      BY <1>3, <3>1, PallocGood
    <3>3. d.pool.cleanup = pool.cleanup
      BY <1>3, <3>2 DEF Gave
    <3>4. CASE d.at = Null
      <4>1. Good(d, live \cup {cb}, {})
        BY <3>2, <3>4 DEF Gave
      <4>2. Good(d, live, {})
        <5>1. live \subseteq live \cup {cb}
          OBVIOUS
        <5> QED
          BY <4>1, <5>1, KeptFewer DEF Good
      <4> QED
        BY <3>3, <3>4, <4>2
    <3>5. CASE d.at # Null
      <4>1. Good(d, (live \cup {cb}) \cup {db}, {})
        BY <3>2, <3>5 DEF Gave, db
      <4>2. live' = (live \cup {cb}) \cup {db}
        BY <1>1, <2>2, <3>5
      <4>3. cb \in live'
        BY <4>2
      <4> QED
        BY <3>3, <3>5, <4>1, <4>2, <4>3
    <3> QED
      BY <3>4, <3>5
  <2> QED
    BY <2>1, <2>2
<1>5. CASE d.at = Null
  <2>1. live' = live /\ pool' = d.pool
    BY <1>1, <1>5
  <2> HIDE DEF d
  <2>2. Kept(pool', heap', live', {})
    BY <1>1, <1>4, <1>5, <2>1 DEF Good
  <2>3. pool' # NoPool /\ PoolOK(pool', heap', live')
    BY <2>2, KeptOpen
  <2> QED
    BY <1>4, <2>1, <2>3 DEF PoolInv, Open
<1>6. CASE d.at # Null
  <2>1. live \subseteq live' /\ pool' = chained
    BY <1>1, <1>6
  <2>2. c.at \in Int
    BY <1>3 DEF Good, CallType
  <2>3. Kept(d.pool, heap', live', {})
    <3> HIDE DEF d
    <3> QED
      BY <1>1, <1>4, <1>6 DEF Good
  <2>4. pool.cleanup \in Seq(CleanupRecord)
    BY <1>1 DEF PoolInv, PoolOK, Open, Kept, PoolType
  <2>5. rec \in CleanupRecord /\ rec.at = c.at /\ rec.id = Len(pool.cleanup) + 1 /\ ~rec.handler
    <3> DEFINE x == c.at
               id == Len(pool.cleanup) + 1
    <3>1. x \in Int
      BY <2>2
    <3>2. Len(pool.cleanup) \in Nat
      BY <2>4
    <3>3. id \in Nat
      BY <3>2
    <3> HIDE DEF x, id
    <3>4. [at |-> x, id |-> id, handler |-> FALSE] \in CleanupRecord
      BY <3>1, <3>3 DEF CleanupRecord
    <3> QED
      BY <3>4 DEF x, id
  <2>6. list \in Seq(CleanupRecord) /\ list = <<rec>> \o pool.cleanup
    <3>1. list = <<rec>> \o pool.cleanup
      BY <1>4
    <3> HIDE DEF list, rec
    <3>2. <<rec>> \o pool.cleanup \in Seq(CleanupRecord)
      BY <2>4, <2>5
    <3> QED
      BY <3>1, <3>2
  <2>7. Kept(chained, heap', live', {}) /\ chained.cleanup = list
    <3> HIDE DEF d, list
    <3> QED
      BY <2>3, <2>6, KeptCleanup
  <2>8. pool' # NoPool /\ PoolOK(pool', heap', live')
    <3> HIDE DEF chained
    <3> QED
      BY <2>1, <2>7, KeptOpen
  <2>9. Block(rec.at, CleanupSize) \in live'
    BY <1>4, <1>6, <2>5
  <2> HIDE DEF chained, list, rec
  <2> QED
    BY <2>1, <2>5, <2>6, <2>7, <2>8, <2>9 DEF PoolInv, Open
<1> QED
  BY <1>5, <1>6

\* The caller sets a handler.
LEMMA SetHandlerInv ==
    ASSUME PoolInv, NEW k, k \in DOMAIN pool.cleanup, SetHandler(k)
    PROVE  /\ PoolInv' /\ Open' /\ live' = live
           /\ pool'.cleanup = [pool.cleanup EXCEPT ![k].handler = TRUE]
<1> DEFINE list == [pool.cleanup EXCEPT ![k].handler = TRUE]
<1>1. Kept(pool, heap, live, {})
  BY DEF PoolInv, PoolOK, SetHandler, Open
<1>2. list \in Seq(CleanupRecord)
  <2>1. pool.cleanup \in Seq(CleanupRecord)
    BY <1>1 DEF Kept, PoolType
  <2>2. [pool.cleanup[k] EXCEPT !.handler = TRUE] \in CleanupRecord
    <3> DEFINE c == pool.cleanup[k]
    <3>1. c \in CleanupRecord
      BY <2>1
    <3> HIDE DEF c
    <3>2. [c EXCEPT !.handler = TRUE] \in CleanupRecord
      BY <3>1 DEF CleanupRecord
    <3> QED
      BY <3>2 DEF c
  <2> QED
    BY <2>1, <2>2
<1>3. /\ pool' = [pool EXCEPT !.cleanup = list] /\ heap' = heap /\ live' = live
  BY DEF SetHandler
<1> HIDE DEF list
<1>4. Kept([pool EXCEPT !.cleanup = list], heap, live, {}) /\ [pool EXCEPT !.cleanup = list].cleanup = list
  BY <1>1, <1>2, KeptCleanup
<1>5. pool' # NoPool /\ PoolOK(pool', heap', live')
  BY <1>3, <1>4, KeptOpen
<1> QED
  BY <1>3, <1>4, <1>5 DEF PoolInv, Open, list

\* dl_create_pool
LEMMA CreateInv ==
    ASSUME PoolInv, Create
    PROVE  PoolInv' /\ Open' /\ pool'.cleanup = <<>> /\ live' = live /\ live = {}
<1> DEFINE g == Malloc(Call(1), PoolSize)
           r == MinOf(Regions \ heap)
           a == r * RegionSize
           first == [base |-> a, last |-> a + HeaderSize, end |-> a + PoolSize, failed |-> 0]
           q == [chain |-> <<first>>, max |-> MaxFor(PoolSize), current |-> 1,
                 large |-> <<>>, cleanup |-> <<>>]
<1>1. heap = {} /\ live = {} /\ live' = live
  BY DEF Create, PoolInv, PoolOK, Open
<1>2. g.at # Null /\ Call(1).heap = heap /\ Call(1).fuel = 1
  BY DEF Create, Call
<1>3. ~(Call(1).fuel = 0 \/ Call(1).heap = Regions \/ PoolSize > RegionSize)
  <2>1. CASE Call(1).fuel = 0 \/ Call(1).heap = Regions \/ PoolSize > RegionSize
    <3>1. g = [Call(1) EXCEPT !.at = Null]
      BY <2>1 DEF Malloc
    <3>2. g.at = Null
      BY <3>1 DEF Call
    <3> QED
      BY <1>2, <3>2
  <2> QED
    BY <2>1
<1>4. g = [Call(1) EXCEPT !.heap = @ \cup {r}, !.fuel = @ - 1, !.at = a]
  BY <1>2, <1>3 DEF Malloc
<1>5. g.heap = {r} /\ g.at = a
  BY <1>1, <1>4 DEF Call
<1>6. r \in Regions
  <2>1. Regions # {} /\ Regions \subseteq Nat /\ Regions \ heap = Regions
    <3>1. Regions # {} /\ Regions \ heap = Regions
      BY <1>1, <1>2, <1>3
    <3>2. Regions \subseteq Nat
      BY DEF Regions
    <3> QED
      BY <3>1, <3>2
  <2> QED
    BY <2>1, MinOfIs
<1> HIDE DEF r
<1>7. a \in Starts /\ a \in Nat /\ RegionOf(a) = r
  <2>1. r \in Nat
    BY <1>6 DEF Regions
  <2> QED
    BY <1>6, <2>1, RegionStart DEF Starts
<1>8. pool' = q /\ heap' = {r}
  <2> HIDE DEF g
  <2> QED
    BY <1>5 DEF Create, g
<1> HIDE DEF a
<1>9. first \in ChainBlock
  BY <1>7, Sizings DEF ChainBlock
<1>10. /\ first.base = a /\ first.last = a + HeaderSize /\ first.end = a + PoolSize /\ first.failed = 0
  OBVIOUS
<1> HIDE DEF first
<1>11. /\ <<first>> \in Seq(ChainBlock) /\ <<>> \in Seq(LargeRecord) /\ <<>> \in Seq(CleanupRecord)
       /\ MaxFor(PoolSize) \in Nat
  BY <1>9, MaxForFacts
<1>12. /\ q \in PoolType /\ q.chain = <<first>> /\ q.large = <<>> /\ q.cleanup = <<>>
       /\ q.max = MaxFor(PoolSize) /\ q.current = 1
  BY <1>11 DEF PoolType
<1> HIDE DEF q
<1>13. ChainIdx(q) = {1} /\ Len(q.chain) = 1 /\ q.chain[1] = first /\ LargeIdx(q) = {}
  BY <1>12 DEF ChainIdx, LargeIdx
<1>14. BlocksOK(q)
  <2>1. a + HeaderSize <= a + HeaderSize /\ a + HeaderSize <= a + PoolSize /\ 0 <= 1 - 1
    BY <1>7, Sizings
  <2> QED
    BY <1>7, <1>10, <1>12, <1>13, <2>1 DEF BlocksOK
<1>15. FailuresOK(q)
  <2>1. ~(1 < 1)
    OBVIOUS
  <2> QED
    BY <1>12, <1>13, <2>1 DEF FailuresOK
<1>16. RegionsOK(q, {r}, {})
  <2>1. Owned(q) = {a}
    BY <1>10, <1>13 DEF Owned
  <2> QED
    BY <1>7, <1>13, <2>1 DEF RegionsOK
<1>17. ExtentsOK(q, {})
  BY <1>13 DEF ExtentsOK
<1>18. Kept(q, {r}, {}, {})
  BY <1>6, <1>12, <1>14, <1>15, <1>16, <1>17 DEF Kept
<1>19. pool' # NoPool /\ PoolOK(pool', heap', live')
  BY <1>1, <1>8, <1>18, KeptOpen
<1> QED
  BY <1>1, <1>8, <1>12, <1>19 DEF PoolInv, Open

\* The regions of what is taken away are those of the addresses taken away.
LEMMA RegionsWithout ==
    ASSUME NEW S, NEW R, S \subseteq Starts, R \subseteq Starts, S \cap R = {}
    PROVE  {RegionOf(a) : a \in S \cup R} \ {RegionOf(a) : a \in R} = {RegionOf(a) : a \in S}
<1>1. \A a \in S, b \in R : RegionOf(a) # RegionOf(b)
  BY StartsDiffer
<1> QED
  BY <1>1

\* dl_reset_pool
LEMMA ResetInv ==
    ASSUME PoolInv, Reset
    PROVE  /\ PoolInv' /\ Open' /\ live' = {} /\ pool'.cleanup = pool.cleanup
           /\ Len(pool.cleanup) <= MaxAtReset
<1> DEFINE n == Len(pool.chain)
           wiped(i) == [pool.chain[i] EXCEPT !.last = pool.chain[i].base + HeaderSize, !.failed = 0]
           chain == [i \in DOMAIN pool.chain |-> wiped(i)]
           q == [pool EXCEPT !.chain = chain, !.current = 1, !.large = <<>>]
           h == heap \ {RegionOf(pool.large[k].alloc) : k \in DOMAIN pool.large}
<1>1. Kept(pool, heap, live, {})
  BY DEF Reset, PoolInv, PoolOK, Open
<1>2. /\ pool \in PoolType /\ BlocksOK(pool) /\ RegionsOK(pool, heap, {}) /\ heap \subseteq Regions
      /\ pool.chain \in Seq(ChainBlock) /\ n \in Nat /\ n >= 1 /\ DOMAIN pool.chain = 1 .. n
      /\ ChainIdx(pool) = 1 .. n
  <2>1. /\ pool \in PoolType /\ BlocksOK(pool) /\ RegionsOK(pool, heap, {}) /\ heap \subseteq Regions
    BY <1>1 DEF Kept
  <2>2. pool.chain \in Seq(ChainBlock) /\ pool.current \in 1 .. n
    BY <2>1 DEF PoolType, BlocksOK, ChainIdx
  <2> QED
    BY <2>1, <2>2 DEF ChainIdx
<1>3. /\ pool' = q /\ heap' = h /\ live' = {} /\ Len(pool.cleanup) <= MaxAtReset
  BY DEF Reset, Restart
<1> HIDE DEF n, h
<1>4. ASSUME NEW i \in 1 .. n
      PROVE  /\ wiped(i) \in ChainBlock /\ wiped(i).base = pool.chain[i].base
             /\ wiped(i).end = wiped(i).base + PoolSize /\ wiped(i).last = wiped(i).base + HeaderSize
             /\ wiped(i).failed = 0 /\ wiped(i).base \in Starts /\ wiped(i).base \in Nat
  <2> DEFINE b == pool.chain[i]
  <2>1. b \in ChainBlock /\ b.base \in Starts /\ b.end = b.base + PoolSize
    BY <1>2, BlockFacts
  <2>2. b.base \in Nat /\ HeaderSize \in Nat
    BY <2>1, StartFacts, Sizings
  <2> HIDE DEF b
  <2>3. b.base + HeaderSize \in Nat
    BY <2>2
  <2>4. [b EXCEPT !.last = b.base + HeaderSize, !.failed = 0] \in ChainBlock
    BY <2>1, <2>3 DEF ChainBlock
  <2> QED
    BY <2>1, <2>2, <2>4 DEF b, ChainBlock
<1> HIDE DEF wiped
<1>5. chain \in Seq(ChainBlock) /\ Len(chain) = n /\ \A i \in 1 .. n : chain[i] = wiped(i)
  <2>1. chain \in [1 .. n -> ChainBlock]
    BY <1>2, <1>4
  <2>2. chain \in Seq(ChainBlock) /\ Len(chain) = n
    <3> HIDE DEF chain
    <3> QED
      BY <1>2, <2>1, FunctionIsSeq
  <2> QED
    BY <1>2, <2>2
<1> HIDE DEF chain
<1>6. /\ q \in PoolType /\ q.chain = chain /\ q.large = <<>> /\ q.cleanup = pool.cleanup
      /\ q.max = pool.max /\ q.current = 1
  <2> DEFINE none == <<>>
  <2>1. none \in Seq(LargeRecord) /\ 1 \in Nat
    OBVIOUS
  <2> HIDE DEF none
  <2>2. q = [pool EXCEPT !.chain = chain, !.current = 1, !.large = none]
    BY DEF none
  <2> HIDE DEF q
  <2>3. /\ q \in PoolType /\ q.chain = chain /\ q.large = none /\ q.cleanup = pool.cleanup
        /\ q.max = pool.max /\ q.current = 1
    BY <1>2, <1>5, <2>1, <2>2 DEF PoolType
  <2> QED
    BY <2>3 DEF none
<1> HIDE DEF q
<1>7. ChainIdx(q) = 1 .. n /\ Len(q.chain) = n /\ LargeIdx(q) = {}
      /\ \A i \in 1 .. n : q.chain[i] = wiped(i)
  BY <1>2, <1>5, <1>6 DEF ChainIdx, LargeIdx
<1>8. BlocksOK(q)
  <2>1. ASSUME NEW i \in 1 .. n
        PROVE  /\ q.chain[i].base \in Starts
               /\ q.chain[i].end = q.chain[i].base + PoolSize
               /\ q.chain[i].base + HeaderSize <= q.chain[i].last
               /\ q.chain[i].last <= q.chain[i].end
               /\ q.chain[i].failed <= n - i
    <3> DEFINE b == wiped(i)
    <3>1. /\ b.base \in Starts /\ b.base \in Nat /\ b.end = b.base + PoolSize
          /\ b.last = b.base + HeaderSize /\ b.failed = 0
      BY <1>4
    <3> HIDE DEF b
    <3>2. b.base + HeaderSize <= b.last /\ b.last <= b.end /\ b.failed <= n - i
      BY <1>2, <3>1, Sizings
    <3> QED
      BY <1>7, <3>1, <3>2 DEF b
  <2>2. 1 \in 1 .. n /\ q.max = MaxFor(PoolSize)
    BY <1>2, <1>6 DEF BlocksOK
  <2> QED
    BY <1>6, <1>7, <2>1, <2>2 DEF BlocksOK
<1>9. FailuresOK(q)
  <2>1. \A i \in 1 .. n : ~(i < 1) /\ q.chain[i].failed = 0
    BY <1>2, <1>4, <1>7
  <2>2. 0 <= 0
    OBVIOUS
  <2> QED
    BY <1>6, <1>7, <2>1, <2>2 DEF FailuresOK
<1>10. RegionsOK(q, h, {})
  <2> DEFINE S == {pool.chain[i].base : i \in ChainIdx(pool)}
             R == {pool.large[k].alloc : k \in LargeIdx(pool)}
  <2>1. DOMAIN pool.large = LargeIdx(pool)
    BY <1>2 DEF PoolType, LargeIdx
  <2>2. S \subseteq Starts /\ R \subseteq Starts
    BY <1>2 DEF BlocksOK
  <2>3. S \cap R = {}
    BY <1>2 DEF RegionsOK
  <2>4. heap = {RegionOf(a) : a \in S \cup R}
    BY <1>2 DEF RegionsOK, Owned
  <2>5. {RegionOf(pool.large[k].alloc) : k \in DOMAIN pool.large} = {RegionOf(a) : a \in R}
    BY <2>1
  <2>6. h = {RegionOf(a) : a \in S}
    <3>1. h = {RegionOf(a) : a \in S \cup R} \ {RegionOf(a) : a \in R}
      BY <2>4, <2>5 DEF h
    <3> HIDE DEF S, R
    <3> QED
      BY <2>2, <2>3, <3>1, RegionsWithout
  <2>7. Owned(q) = S
    BY <1>2, <1>4, <1>7 DEF Owned
  <2>8. \A i, j \in 1 .. n : i # j => q.chain[i].base # q.chain[j].base
    BY <1>2, <1>4, <1>7 DEF RegionsOK
  <2> HIDE DEF S
  <2> QED
    BY <1>7, <2>6, <2>7, <2>8 DEF RegionsOK
<1>11. ExtentsOK(q, {})
  BY <1>7 DEF ExtentsOK
<1>12. h \subseteq Regions
  BY <1>2 DEF h
<1>13. Kept(q, h, {}, {})
  BY <1>6, <1>8, <1>9, <1>10, <1>11, <1>12 DEF Kept
<1>14. pool' # NoPool /\ PoolOK(pool', heap', live')
  BY <1>3, <1>13, KeptOpen
<1> QED
  BY <1>3, <1>6, <1>14 DEF PoolInv, Open

\* dl_destroy_pool gives every region back.
LEMMA DestroyInv ==
    ASSUME PoolInv, Destroy
    PROVE  PoolInv' /\ ~Open' /\ live' = {}
<1>1. Kept(pool, heap, live, {})
  BY DEF Destroy, PoolInv, PoolOK, Open
<1>2. /\ pool' = NoPool /\ live' = {}
      /\ heap' = heap \ ({RegionOf(pool.large[k].alloc) : k \in DOMAIN pool.large}
                         \cup {RegionOf(pool.chain[i].base) : i \in DOMAIN pool.chain})
  BY DEF Destroy
<1>3. DOMAIN pool.large = LargeIdx(pool) /\ DOMAIN pool.chain = ChainIdx(pool)
  BY <1>1 DEF Kept, PoolType, LargeIdx, ChainIdx
<1>4. heap' = {}
  BY <1>1, <1>2, <1>3 DEF Kept, RegionsOK, Owned
<1> QED
  BY <1>2, <1>4 DEF PoolInv, PoolOK, Open

-------------------------------------------------------------------------------
(* The invariant and what it says.                                           *)

\* Every call keeps the invariant.
LEMMA NextInv ==
    ASSUME PoolInv, [Next]_vars
    PROVE  PoolInv'
<1>1. CASE Create
  BY <1>1, CreateInv
<1>2. ASSUME NEW size \in Sizes, NEW align \in BOOLEAN, NEW fuel \in Fuel, Alloc(size, align, fuel)
      PROVE  PoolInv'
  <2>1. size \in Nat \ {0} /\ fuel \in Nat
    BY PoolAssumption DEF Fuel
  <2> QED
    BY <1>2, <2>1, AllocInv
<1>3. ASSUME NEW size \in DataSizes, NEW fuel \in CleanupFuel, CleanupAdd(size, fuel)
      PROVE  PoolInv'
  <2>1. size \in Nat /\ fuel \in Nat
    BY PoolAssumption DEF CleanupFuel
  <2> QED
    BY <1>3, <2>1, CleanupAddInv
<1>4. ASSUME NEW k \in DOMAIN pool.cleanup, SetHandler(k)
      PROVE  PoolInv'
  BY <1>4, SetHandlerInv
<1>5. CASE Reset
  BY <1>5, ResetInv
<1>6. CASE Destroy
  BY <1>6, DestroyInv
<1>7. CASE UNCHANGED vars
  BY <1>7 DEF vars, PoolInv, PoolOK
<1> QED
  BY <1>1, <1>2, <1>3, <1>4, <1>5, <1>6, <1>7 DEF Next

\* PoolInv is an invariant: what the properties below follow from.
THEOREM PoolInvariance == Spec => []PoolInv
<1>1. Init => PoolInv
  BY DEF Init, PoolInv, PoolOK
<1>2. PoolInv /\ [Next]_vars => PoolInv'
  BY NextInv
<1> QED
  BY <1>1, <1>2, PTL DEF Spec

\* As many elements as the indices that count them.
LEMMA Counting ==
    ASSUME NEW n \in Nat, NEW f, NEW S, f \in [1 .. n -> S],
           \A x \in S : \E i \in 1 .. n : f[i] = x,
           \A i, j \in 1 .. n : i # j => f[i] # f[j]
    PROVE  IsFiniteSet(S) /\ Cardinality(S) = n
<1>1. f \in Bijection(1 .. n, S)
  BY DEF Bijection, Injection, Surjection, IsInjective
<1>2. ExistsBijection(1 .. n, S)
  BY <1>1 DEF ExistsBijection
<1> QED
  BY <1>2, FS_CountingElements, FS_NatBijection

\* The regions of the heap, counted.
LEMMA HeapCount ==
    ASSUME NEW p, NEW h, NEW L, Kept(p, h, L, {})
    PROVE  /\ Cardinality(h) = Len(p.chain) + Len(p.large)
           /\ Len(p.chain) <= NRegions
<1> DEFINE n == Len(p.chain)
           m == Len(p.large)
           addr(i) == IF i <= n THEN p.chain[i].base ELSE p.large[i - n].alloc
           f == [i \in 1 .. n + m |-> RegionOf(addr(i))]
<1>1. /\ p \in PoolType /\ BlocksOK(p) /\ RegionsOK(p, h, {}) /\ h \subseteq Regions
  BY DEF Kept
<1>2. n \in Nat /\ m \in Nat /\ ChainIdx(p) = 1 .. n /\ LargeIdx(p) = 1 .. m
  BY <1>1 DEF PoolType, ChainIdx, LargeIdx
<1> HIDE DEF n, m
<1>3. ASSUME NEW i \in 1 .. n + m
      PROVE  \/ i \in 1 .. n /\ addr(i) = p.chain[i].base
             \/ i - n \in 1 .. m /\ i > n /\ addr(i) = p.large[i - n].alloc
  BY <1>2
<1>4. \A i \in 1 .. n : i \in 1 .. n + m /\ addr(i) = p.chain[i].base
  BY <1>2
<1>5. \A k \in 1 .. m : k + n \in 1 .. n + m /\ addr(k + n) = p.large[k].alloc
  <2>1. ASSUME NEW k \in 1 .. m PROVE k + n \in 1 .. n + m /\ ~(k + n <= n) /\ (k + n) - n = k
    BY <1>2
  <2> QED
    BY <2>1
<1> HIDE DEF addr
<1>6. ASSUME NEW i \in 1 .. n + m PROVE addr(i) \in Owned(p) /\ addr(i) \in Starts
  <2>1. addr(i) \in Owned(p)
    BY <1>2, <1>3 DEF Owned
  <2> QED
    BY <1>1, <2>1, OwnedStarts
<1>7. f \in [1 .. n + m -> h]
  BY <1>1, <1>6 DEF RegionsOK
<1>8. ASSUME NEW r \in h PROVE \E i \in 1 .. n + m : f[i] = r
  <2>1. PICK a \in Owned(p) : r = RegionOf(a)
    BY <1>1 DEF RegionsOK
  <2>2. \E i \in 1 .. n + m : addr(i) = a
    BY <1>2, <1>4, <1>5 DEF Owned
  <2> QED
    BY <2>1, <2>2
<1>9. ASSUME NEW i \in 1 .. n + m, NEW j \in 1 .. n + m, i # j PROVE f[i] # f[j]
  <2>1. addr(i) # addr(j)
    <3>1. CASE i \in 1 .. n /\ j \in 1 .. n
      BY <1>1, <1>2, <1>4, <1>9, <3>1 DEF RegionsOK
    <3>2. CASE i \in 1 .. n /\ j - n \in 1 .. m /\ addr(j) = p.large[j - n].alloc
      BY <1>1, <1>2, <1>4, <3>2 DEF RegionsOK
    <3>3. CASE j \in 1 .. n /\ i - n \in 1 .. m /\ addr(i) = p.large[i - n].alloc
      BY <1>1, <1>2, <1>4, <3>3 DEF RegionsOK
    <3>4. CASE /\ i - n \in 1 .. m /\ addr(i) = p.large[i - n].alloc
               /\ j - n \in 1 .. m /\ addr(j) = p.large[j - n].alloc
      <4>1. i - n # j - n
        BY <1>2, <1>9
      <4> QED
        BY <1>1, <1>2, <3>4, <4>1 DEF RegionsOK
    <3> QED
      BY <1>3, <3>1, <3>2, <3>3, <3>4
  <2>2. RegionOf(addr(i)) # RegionOf(addr(j))
    BY <1>6, <2>1, StartsDiffer
  <2> QED
    BY <2>2
<1>10. Cardinality(h) = n + m
  <2>1. n + m \in Nat
    BY <1>2
  <2> HIDE DEF f
  <2> QED
    BY <1>7, <1>8, <1>9, <2>1, Counting
<1>11. n <= NRegions
  <2>1. IsFiniteSet(Regions) /\ Cardinality(Regions) = NRegions
    <3>1. NRegions \in Nat /\ 0 \in Int /\ NRegions - 1 \in Int
      BY Sizings
    <3>2. IsFiniteSet(0 .. NRegions - 1)
          /\ Cardinality(0 .. NRegions - 1) = IF 0 > NRegions - 1 THEN 0 ELSE (NRegions - 1) - 0 + 1
      BY <3>1, FS_Interval
    <3> QED
      BY <3>1, <3>2 DEF Regions
  <2>2. Cardinality(h) <= Cardinality(Regions)
    BY <1>1, <2>1, FS_Subset
  <2> QED
    BY <1>2, <1>10, <2>1, <2>2, Sizings
<1> QED
  BY <1>10, <1>11 DEF n, m

\* The pool's records, as the properties name them.
LEMMA RecordsAre ==
    ASSUME PoolInv, Open
    PROVE  /\ Records = {Record(pool, k) : k \in LargeIdx(pool)}
           /\ Cardinality(Records) = Len(pool.large)
<1>1. Kept(pool, heap, live, {})
  BY DEF PoolInv, PoolOK, Open
<1>2. pool \in PoolType /\ ExtentsOK(pool, live)
  BY <1>1 DEF Kept
<1>3. DOMAIN pool.large = LargeIdx(pool) /\ LargeIdx(pool) = 1 .. Len(pool.large) /\ Len(pool.large) \in Nat
  BY <1>2 DEF PoolType, LargeIdx
<1>4. Records = {Record(pool, k) : k \in LargeIdx(pool)}
  BY <1>3 DEF Records, Record
<1> DEFINE f == [k \in 1 .. Len(pool.large) |-> Record(pool, k)]
<1>5. ASSUME NEW k \in LargeIdx(pool), NEW l \in LargeIdx(pool), k # l
      PROVE  Record(pool, k) # Record(pool, l)
  <2>1. Apart(Record(pool, k), Record(pool, l))
    BY <1>2, <1>5 DEF ExtentsOK
  <2>2. pool.large[k] \in LargeRecord
    BY <1>2 DEF PoolType, LargeIdx
  <2>3. Record(pool, k).at \in Nat /\ Record(pool, k).len \in Nat \ {0}
    BY <2>2, Sizings DEF Record, Block, LargeRecord
  <2>4. ~Apart(Record(pool, k), Record(pool, k))
    BY <2>3 DEF Apart
  <2> QED
    BY <2>1, <2>4
<1>6. Cardinality(Records) = Len(pool.large)
  <2>1. /\ f \in [1 .. Len(pool.large) -> Records]
        /\ \A x \in Records : \E i \in 1 .. Len(pool.large) : f[i] = x
        /\ \A i, j \in 1 .. Len(pool.large) : i # j => f[i] # f[j]
    <3>1. f \in [1 .. Len(pool.large) -> Records]
      BY <1>3, <1>4
    <3>2. \A x \in Records : \E i \in 1 .. Len(pool.large) : f[i] = x
      BY <1>3, <1>4
    <3>3. \A i, j \in 1 .. Len(pool.large) : i # j => f[i] # f[j]
      BY <1>3, <1>5
    <3> QED
      BY <3>1, <3>2, <3>3
  <2> HIDE DEF f
  <2> QED
    BY <1>3, <2>1, Counting
<1> QED
  BY <1>4, <1>6

\* Every field has a value of its type, and no block fails more often than there
\* are regions: dl_palloc_block.
LEMMA InvTypeOK ==
    ASSUME PoolInv
    PROVE  TypeOK
<1>1. CASE ~Open
  BY <1>1 DEF PoolInv, PoolOK, Open, TypeOK
<1>2. CASE Open
  <2>1. Kept(pool, heap, live, {})
    BY <1>2 DEF PoolInv, PoolOK, Open
  <2>2. /\ pool \in PoolType /\ BlocksOK(pool) /\ heap \subseteq Regions
        /\ DOMAIN pool.chain = ChainIdx(pool) /\ DOMAIN pool.large = LargeIdx(pool)
    BY <2>1 DEF Kept, PoolType, ChainIdx, LargeIdx
  <2>3. ASSUME NEW i \in ChainIdx(pool)
        PROVE  /\ pool.chain[i].base \in Starts
               /\ pool.chain[i].end = pool.chain[i].base + PoolSize
               /\ pool.chain[i].last \in pool.chain[i].base + HeaderSize .. pool.chain[i].end
               /\ pool.chain[i].failed \in 0 .. NRegions
    <3> DEFINE b == pool.chain[i]
    <3>1. /\ b \in ChainBlock /\ b.base \in Starts /\ b.end = b.base + PoolSize
          /\ b.base + HeaderSize <= b.last /\ b.last <= b.end
      BY <2>2, BlockFacts
    <3>2. b.failed <= Len(pool.chain) - i /\ i \in 1 .. Len(pool.chain)
      BY <2>2 DEF BlocksOK, ChainIdx
    <3>3. Len(pool.chain) <= NRegions
      BY <2>1, HeapCount
    <3>4. Len(pool.chain) \in Nat
      BY <2>2 DEF PoolType
    <3> HIDE DEF b
    <3>5. b.last \in b.base + HeaderSize .. b.end
      BY <3>1, Sizings DEF ChainBlock
    <3>6. b.failed \in 0 .. NRegions
      <4> DEFINE n == Len(pool.chain)
                 x == b.failed
      <4>1. x \in Nat
        BY <3>1 DEF ChainBlock
      <4>2. n \in Nat /\ i \in 1 .. n /\ n <= NRegions /\ NRegions \in Nat
        BY <3>2, <3>3, <3>4, Sizings
      <4>3. x <= n - i
        BY <3>2
      <4> HIDE DEF n, x
      <4>4. x \in 0 .. NRegions
        BY <4>1, <4>2, <4>3
      <4> QED
        BY <4>4 DEF x
    <3> QED
      BY <3>1, <3>5, <3>6 DEF b
  <2>4. pool.current \in ChainIdx(pool) /\ \A k \in LargeIdx(pool) : pool.large[k].alloc \in Starts
    BY <2>2 DEF BlocksOK
  <2> QED
    BY <2>2, <2>3, <2>4 DEF TypeOK, Starts
<1> QED
  BY <1>1, <1>2

LEMMA InvRegionsExact ==
    ASSUME PoolInv
    PROVE  RegionsExact
<1>1. CASE ~Open
  BY <1>1 DEF PoolInv, PoolOK, Open, RegionsExact
<1>2. CASE Open
  <2>1. Kept(pool, heap, live, {})
    BY <1>2 DEF PoolInv, PoolOK, Open
  <2>2. DOMAIN pool.chain = ChainIdx(pool) /\ DOMAIN pool.large = LargeIdx(pool)
    BY <2>1 DEF Kept, PoolType, ChainIdx, LargeIdx
  <2>3. heap = {RegionOf(pool.chain[i].base) : i \in ChainIdx(pool)}
               \cup {RegionOf(pool.large[k].alloc) : k \in LargeIdx(pool)}
    BY <2>1 DEF Kept, RegionsOK, Owned
  <2>4. Cardinality(heap) = Len(pool.chain) + Len(pool.large)
    BY <2>1, HeapCount
  <2> QED
    BY <1>2, <2>2, <2>3, <2>4 DEF RegionsExact
<1> QED
  BY <1>1, <1>2

LEMMA InvSkipped ==
    ASSUME PoolInv
    PROVE  SkippedBlocksFailed
<1>1. SUFFICES ASSUME Open, NEW i \in 1 .. pool.current - 1
               PROVE  pool.chain[i].failed > FailLimit
  BY DEF SkippedBlocksFailed
<1>2. Kept(pool, heap, live, {})
  BY <1>1 DEF PoolInv, PoolOK, Open
<1>3. pool.current \in 1 .. Len(pool.chain) /\ Len(pool.chain) \in Nat
  BY <1>2 DEF Kept, BlocksOK, PoolType, ChainIdx
<1>4. i \in ChainIdx(pool) /\ i < pool.current
  BY <1>3 DEF ChainIdx
<1> QED
  BY <1>2, <1>4 DEF Kept, FailuresOK

LEMMA InvRecordsSafe ==
    ASSUME PoolInv
    PROVE  RecordsSafe
<1> SUFFICES ASSUME Open PROVE RecordsSafe
  BY DEF RecordsSafe
<1> DEFINE inBlock(b) == \E i \in DOMAIN pool.chain :
                           /\ pool.chain[i].base + HeaderSize <= b.at
                           /\ b.at + b.len <= pool.chain[i].end
           alone(b) == \E k \in DOMAIN pool.large : pool.large[k].alloc = b.at
<1>1. Kept(pool, heap, live, {})
  BY DEF PoolInv, PoolOK, Open
<1>2. /\ pool \in PoolType /\ BlocksOK(pool) /\ ExtentsOK(pool, live) /\ live \subseteq Extent
      /\ DOMAIN pool.chain = ChainIdx(pool) /\ DOMAIN pool.large = LargeIdx(pool)
  BY <1>1 DEF Kept, PoolType, ChainIdx, LargeIdx
<1>3. ASSUME NEW b, b.at \in Nat, b.len \in Nat, InBlock(pool, b) PROVE inBlock(b)
  <2>1. PICK i \in ChainIdx(pool) : /\ pool.chain[i].base + HeaderSize <= b.at
                                    /\ b.at + b.len <= pool.chain[i].last
    BY <1>3 DEF InBlock
  <2> DEFINE c == pool.chain[i]
  <2>2. c \in ChainBlock /\ c.last <= c.end
    BY <1>2, BlockFacts
  <2>3. b.at + b.len <= c.last
    BY <2>1
  <2> HIDE DEF c
  <2>4. b.at + b.len <= c.end
    BY <1>3, <2>2, <2>3 DEF ChainBlock
  <2> QED
    BY <1>2, <2>1, <2>4 DEF c
<1>4. ASSUME NEW b, Alone(pool, b) PROVE alone(b)
  BY <1>2, <1>4 DEF Alone
<1>5. \A b \in live : inBlock(b) \/ alone(b)
  <2>1. ASSUME NEW b \in live PROVE inBlock(b) \/ alone(b)
    <3>1. b.at \in Nat /\ b.len \in Nat /\ (InBlock(pool, b) \/ Alone(pool, b))
      BY <1>2 DEF Extent, ExtentsOK
    <3> HIDE DEF inBlock, alone
    <3> QED
      BY <1>3, <1>4, <3>1
  <2> QED
    BY <2>1
<1>6. ASSUME NEW k \in LargeIdx(pool) PROVE inBlock(Record(pool, k))
  <2>1. pool.large[k] \in LargeRecord
    BY <1>2 DEF PoolType, LargeIdx
  <2>2. Record(pool, k).at \in Nat /\ Record(pool, k).len \in Nat /\ InBlock(pool, Record(pool, k))
    BY <1>2, <2>1, Sizings DEF ExtentsOK, Record, Block, LargeRecord
  <2> HIDE DEF inBlock
  <2> QED
    BY <1>3, <2>2
<1>7. Records = {Record(pool, k) : k \in LargeIdx(pool)} /\ Cardinality(Records) = Len(pool.large)
  BY RecordsAre
<1>8. ASSUME NEW r \in Records, NEW b \in live \cup (Records \ {r}) PROVE Apart(r, b)
  <2>1. PICK k \in LargeIdx(pool) : r = Record(pool, k)
    BY <1>7
  <2>2. CASE b \in live
    BY <1>2, <2>1, <2>2 DEF ExtentsOK, Apart
  <2>3. CASE b \in Records \ {r}
    <3>1. PICK l \in LargeIdx(pool) : b = Record(pool, l)
      BY <1>7, <2>3
    <3>2. k # l
      BY <2>1, <2>3, <3>1
    <3> QED
      BY <1>2, <2>1, <3>1, <3>2 DEF ExtentsOK
  <2> QED
    BY <2>2, <2>3
<1>9. \A r \in Records : inBlock(r)
  <2> HIDE DEF inBlock
  <2> QED
    BY <1>6, <1>7
<1> QED
  BY <1>5, <1>7, <1>8, <1>9 DEF RecordsSafe

\* A pool whose records survive: of a list, what CleanupRecordsIntact says.
Intact(list, L) == \A k \in DOMAIN list : Block(list[k].at, CleanupSize) \in L

\* One more record, in a list whose records are blocks that are handed out.
LEMMA IntactMore ==
    ASSUME NEW list \in Seq(CleanupRecord), NEW rec \in CleanupRecord, NEW L, NEW M,
           Intact(list, L), L \subseteq M, Block(rec.at, CleanupSize) \in M
    PROVE  Intact(<<rec>> \o list, M)
<1> DEFINE more == <<rec>> \o list
<1>1. ASSUME NEW k \in DOMAIN more PROVE Block(more[k].at, CleanupSize) \in M
  <2>1. more[k] = rec \/ \E l \in DOMAIN list : more[k] = list[l]
    <3>1. k \in 1 .. Len(list) + 1
      OBVIOUS
    <3>2. more[1] = rec
      OBVIOUS
    <3>3. CASE k # 1
      <4>1. k - 1 \in DOMAIN list /\ more[k] = list[k - 1]
        BY <3>1, <3>3
      <4> QED
        BY <4>1
    <3> QED
      BY <3>2, <3>3
  <2> HIDE DEF more
  <2> QED
    BY <2>1 DEF Intact
<1> QED
  BY <1>1 DEF Intact

\* As long as no pool with cleanup records is reset, they stay handed out.
LEMMA CleanupNext ==
    ASSUME MaxAtReset <= 0, PoolInv, CleanupRecordsIntact, [Next]_vars
    PROVE  CleanupRecordsIntact'
<1> SUFFICES ASSUME Open' PROVE Intact(pool'.cleanup, live')
  BY DEF CleanupRecordsIntact, Intact
<1>0. Open => pool.cleanup \in Seq(CleanupRecord) /\ Intact(pool.cleanup, live)
  BY DEF PoolInv, PoolOK, Open, Kept, PoolType, CleanupRecordsIntact, Intact
<1>1. CASE Create
  <2>1. pool'.cleanup = <<>>
    BY <1>1, CreateInv
  <2> QED
    BY <2>1 DEF Intact
<1>2. ASSUME NEW size \in Sizes, NEW align \in BOOLEAN, NEW fuel \in Fuel, Alloc(size, align, fuel)
      PROVE  Intact(pool'.cleanup, live')
  <2>1. size \in Nat \ {0} /\ fuel \in Nat
    BY PoolAssumption DEF Fuel
  <2>2. pool'.cleanup = pool.cleanup
    BY <1>2, <2>1, AllocInv
  <2>3. Open /\ live \subseteq live'
    BY <1>2 DEF Alloc, Give
  <2> QED
    BY <1>0, <2>2, <2>3 DEF Intact
<1>3. ASSUME NEW size \in DataSizes, NEW fuel \in CleanupFuel, CleanupAdd(size, fuel)
      PROVE  Intact(pool'.cleanup, live')
  <2>1. size \in Nat /\ fuel \in Nat
    BY PoolAssumption DEF CleanupFuel
  <2>2. Open
    BY <1>3 DEF CleanupAdd
  <2>3. /\ live \subseteq live'
        /\ \/ pool'.cleanup = pool.cleanup
           \/ \E rec \in CleanupRecord :
                 /\ pool'.cleanup = <<rec>> \o pool.cleanup
                 /\ Block(rec.at, CleanupSize) \in live'
    BY <1>3, <2>1, CleanupAddInv
  <2>4. CASE pool'.cleanup = pool.cleanup
    BY <1>0, <2>2, <2>3, <2>4 DEF Intact
  <2>5. ASSUME NEW rec \in CleanupRecord, pool'.cleanup = <<rec>> \o pool.cleanup,
               Block(rec.at, CleanupSize) \in live'
        PROVE  Intact(pool'.cleanup, live')
    BY <1>0, <2>2, <2>3, <2>5, IntactMore
  <2> QED
    BY <2>3, <2>4, <2>5
<1>4. ASSUME Open, NEW k \in DOMAIN pool.cleanup, SetHandler(k)
      PROVE  Intact(pool'.cleanup, live')
  <2>1. live' = live /\ pool'.cleanup = [pool.cleanup EXCEPT ![k].handler = TRUE]
    BY <1>4, SetHandlerInv
  <2> DEFINE old == pool.cleanup
             new == [old EXCEPT ![k].handler = TRUE]
  <2>2. old \in Seq(CleanupRecord) /\ Intact(old, live) /\ k \in DOMAIN old
    BY <1>0, <1>4
  <2> HIDE DEF old
  <2>3. DOMAIN new = DOMAIN old /\ \A l \in DOMAIN old : new[l].at = old[l].at
    <3>1. ASSUME NEW l \in DOMAIN old PROVE new[l].at = old[l].at
      <4>1. CASE l # k
        BY <2>2, <4>1
      <4>2. CASE l = k
        <5>1. new[k] = [old[k] EXCEPT !.handler = TRUE]
          BY <2>2
        <5>2. old[k] \in CleanupRecord
          BY <2>2
        <5> QED
          BY <4>2, <5>1, <5>2 DEF CleanupRecord
      <4> QED
        BY <4>1, <4>2
    <3> QED
      BY <2>2, <3>1
  <2>4. Intact(new, live)
    <3> HIDE DEF new
    <3> QED
      BY <2>2, <2>3 DEF Intact
  <2> QED
    BY <2>1, <2>4 DEF old
<1>5. CASE Reset
  <2>1. pool'.cleanup = pool.cleanup /\ Len(pool.cleanup) <= MaxAtReset /\ Open
    BY <1>5, ResetInv DEF Reset
  <2> DEFINE list == pool.cleanup
  <2>2. list \in Seq(CleanupRecord) /\ Len(list) <= MaxAtReset /\ MaxAtReset \in Int
    BY <1>0, <2>1, PoolAssumption
  <2> HIDE DEF list
  <2>3. DOMAIN list = {}
    BY <2>2
  <2> QED
    BY <2>1, <2>3 DEF list, Intact
<1>6. CASE Destroy
  BY <1>6, DestroyInv
<1>7. CASE UNCHANGED vars
  <2>1. Open /\ pool' = pool /\ live' = live
    BY <1>7 DEF vars, Open
  <2> QED
    BY <1>0, <2>1
<1> QED
  BY <1>1, <1>2, <1>3, <1>4, <1>5, <1>6, <1>7 DEF Next

-------------------------------------------------------------------------------
(* The handlers that dl_destroy_pool runs.                                   *)

\* What the walk has run after k records.
Walked(list, g, k) ==
    IF k = 0 THEN <<>>
    ELSE IF list[k].handler THEN Append(g[k - 1], list[k].id) ELSE g[k - 1]

Walk(list, g, n) == g = [k \in 0 .. n |-> Walked(list, g, k)]

LEMMA WalkExists ==
    ASSUME NEW list
    PROVE  \A n \in Nat : \E g : Walk(list, g, n)
<1> DEFINE S == {n \in Nat : \E g : Walk(list, g, n)}
<1>1. 0 \in S
  <2> DEFINE g == [k \in 0 .. 0 |-> <<>>]
  <2>1. \A k \in 0 .. 0 : Walked(list, g, k) = <<>>
    BY DEF Walked
  <2>2. Walk(list, g, 0)
    BY <2>1 DEF Walk
  <2> QED
    BY <2>2
<1>2. ASSUME NEW n \in Nat, n \in S PROVE n + 1 \in S
  <2>1. PICK g : Walk(list, g, n)
    BY <1>2
  <2> DEFINE h == [k \in 0 .. n + 1 |-> IF k = n + 1 THEN Walked(list, g, n + 1) ELSE g[k]]
  <2>2. ASSUME NEW k \in 0 .. n PROVE h[k] = Walked(list, g, k)
    <3>1. k \in 0 .. n + 1 /\ k # n + 1
      OBVIOUS
    <3>2. g[k] = Walked(list, g, k)
      BY <2>1 DEF Walk
    <3> QED
      BY <3>1, <3>2
  <2>3. ASSUME NEW k \in 0 .. n + 1 PROVE Walked(list, h, k) = Walked(list, g, k)
    <3>1. CASE k = 0
      BY <3>1 DEF Walked
    <3>2. CASE k # 0
      <4>1. k - 1 \in 0 .. n
        BY <3>2
      <4>2. h[k - 1] = Walked(list, g, k - 1) /\ g[k - 1] = Walked(list, g, k - 1)
        BY <2>1, <2>2, <4>1 DEF Walk
      <4> HIDE DEF h
      <4>3. h[k - 1] = g[k - 1]
        BY <4>2
      <4> QED
        BY <4>3 DEF Walked
    <3> QED
      BY <3>1, <3>2
  <2>4. ASSUME NEW k \in 0 .. n + 1 PROVE h[k] = Walked(list, h, k)
    <3>1. CASE k = n + 1
      <4>1. h[k] = Walked(list, g, k)
        BY <3>1
      <4> QED
        BY <2>3, <4>1
    <3>2. CASE k # n + 1
      <4>1. k \in 0 .. n
        BY <3>2
      <4> QED
        BY <2>2, <2>3, <4>1
    <3> QED
      BY <3>1, <3>2
  <2>5. h = [k \in 0 .. n + 1 |-> h[k]]
    OBVIOUS
  <2> HIDE DEF h
  <2>6. Walk(list, h, n + 1)
    BY <2>4, <2>5 DEF Walk
  <2> QED
    BY <2>6
<1> HIDE DEF S
<1>3. \A n \in Nat : n \in S
  BY <1>1, <1>2, AllNaturals
<1> QED
  BY <1>3 DEF S

LEMMA HandlersIs ==
    ASSUME NEW list \in Seq(CleanupRecord)
    PROVE  \E g : Walk(list, g, Len(list)) /\ Handlers(list) = g[Len(list)]
<1> DEFINE n == Len(list)
           w == CHOOSE g : Walk(list, g, n)
<1>1. Walk(list, w, n)
  BY WalkExists
<1>2. Handlers(list) = w[n]
  BY DEF Handlers, Walk, Walked
<1> QED
  BY <1>1, <1>2

\* Records are numbered in the order of their registration, the newest first.
Numbered(list) == \A k \in DOMAIN list : list[k].id = Len(list) + 1 - k

\* The numbers of the first k records that have a handler.
ArmedTo(list, k) == {list[j].id : j \in {i \in DOMAIN list : i <= k /\ list[i].handler}}
Armed(list) == ArmedTo(list, Len(list))

\* Each of them once, newest first.
NewestFirst(ids, set) ==
    /\ ids \in Seq(Nat) /\ ToSet(ids) = set
    /\ \A i, j \in DOMAIN ids : i < j => ids[i] > ids[j]

LEMMA NewestFirstMore ==
    ASSUME NEW ids, NEW set, NewestFirst(ids, set), NEW x \in Nat, \A y \in set : y > x
    PROVE  NewestFirst(Append(ids, x), set \cup {x})
<1> DEFINE n == Len(ids)
           more == Append(ids, x)
<1>1. /\ ids \in Seq(Nat) /\ n \in Nat /\ DOMAIN ids = 1 .. n
      /\ more \in Seq(Nat) /\ DOMAIN more = 1 .. n + 1 /\ more[n + 1] = x
      /\ \A i \in 1 .. n : more[i] = ids[i]
  BY DEF NewestFirst
<1>2. ToSet(ids) = {ids[i] : i \in 1 .. n} /\ ToSet(more) = {more[i] : i \in 1 .. n + 1}
  BY <1>1 DEF ToSet
<1> HIDE DEF more, n
<1>3. ToSet(more) = set \cup {x}
  <2>1. ToSet(ids) = set
    BY DEF NewestFirst
  <2>2. \A i \in 1 .. n + 1 : i = n + 1 \/ i \in 1 .. n
    BY <1>1
  <2>3. n + 1 \in 1 .. n + 1 /\ \A i \in 1 .. n : i \in 1 .. n + 1
    BY <1>1
  <2> QED
    BY <1>1, <1>2, <2>1, <2>2, <2>3
<1>4. ASSUME NEW i \in 1 .. n + 1, NEW j \in 1 .. n + 1, i < j PROVE more[i] > more[j]
  <2>1. i \in 1 .. n /\ more[i] = ids[i]
    BY <1>1, <1>4
  <2>2. CASE j = n + 1
    <3>1. ids[i] \in set
      BY <1>2, <2>1 DEF NewestFirst
    <3> QED
      BY <1>1, <2>1, <2>2, <3>1
  <2>3. CASE j # n + 1
    <3>1. j \in 1 .. n /\ more[j] = ids[j]
      BY <1>1, <2>3
    <3> QED
      BY <1>1, <1>4, <2>1, <3>1 DEF NewestFirst
  <2> QED
    BY <2>2, <2>3
<1> QED
  BY <1>1, <1>3, <1>4 DEF NewestFirst, more

\* A record more: the numbers of those with a handler.
LEMMA ArmedStep ==
    ASSUME NEW list \in Seq(CleanupRecord), Numbered(list), NEW k \in Nat, k + 1 <= Len(list)
    PROVE  /\ ArmedTo(list, k + 1) = IF list[k + 1].handler THEN ArmedTo(list, k) \cup {list[k + 1].id}
                                     ELSE ArmedTo(list, k)
           /\ list[k + 1].id \in Nat
           /\ \A y \in ArmedTo(list, k) : y > list[k + 1].id
<1> DEFINE n == Len(list)
<1>1. n \in Nat /\ DOMAIN list = 1 .. n /\ k + 1 \in 1 .. n
  OBVIOUS
<1>2. \A i \in 1 .. n : i <= k + 1 <=> (i <= k \/ i = k + 1)
  BY <1>1
<1>3. ArmedTo(list, k + 1) = IF list[k + 1].handler THEN ArmedTo(list, k) \cup {list[k + 1].id}
                             ELSE ArmedTo(list, k)
  <2> HIDE DEF n
  <2> QED
    BY <1>1, <1>2 DEF ArmedTo
<1>4. list[k + 1] \in CleanupRecord
  BY <1>1
<1>5. list[k + 1].id \in Nat
  BY <1>4 DEF CleanupRecord
<1>6. ASSUME NEW y \in ArmedTo(list, k) PROVE y > list[k + 1].id
  <2>1. PICK i \in 1 .. n : i <= k /\ y = list[i].id
    BY <1>1 DEF ArmedTo
  <2>2. y = n + 1 - i /\ list[k + 1].id = n + 1 - (k + 1)
    BY <1>1, <2>1 DEF Numbered
  <2> HIDE DEF n
  <2> QED
    BY <1>1, <2>1, <2>2
<1> QED
  BY <1>3, <1>5, <1>6

\* The walk runs the handlers that are set, each once, newest first.
LEMMA HandlersRun ==
    ASSUME NEW list \in Seq(CleanupRecord), Numbered(list)
    PROVE  NewestFirst(Handlers(list), Armed(list))
<1> DEFINE n == Len(list)
<1>1. PICK g : Walk(list, g, n) /\ Handlers(list) = g[n]
  BY HandlersIs
<1>2. \A k \in 0 .. n : g[k] = Walked(list, g, k)
  BY <1>1 DEF Walk
<1> DEFINE S == {k \in Nat : k <= n => NewestFirst(g[k], ArmedTo(list, k))}
<1>3. n \in Nat
  OBVIOUS
<1> HIDE DEF n
<1>4. 0 \in S
  <2>1. g[0] = <<>>
    BY <1>2, <1>3 DEF Walked
  <2>2. ArmedTo(list, 0) = {}
    <3>1. \A i \in DOMAIN list : ~(i <= 0)
      OBVIOUS
    <3> QED
      BY <3>1 DEF ArmedTo
  <2>3. NewestFirst(<<>>, {})
    BY DEF NewestFirst, ToSet
  <2> QED
    BY <2>1, <2>2, <2>3
<1>5. ASSUME NEW k \in Nat, k \in S PROVE k + 1 \in S
  <2> SUFFICES ASSUME k + 1 <= n PROVE NewestFirst(g[k + 1], ArmedTo(list, k + 1))
    OBVIOUS
  <2>1. NewestFirst(g[k], ArmedTo(list, k))
    BY <1>3, <1>5
  <2>2. k + 1 \in 0 .. n /\ k + 1 # 0 /\ (k + 1) - 1 = k
    BY <1>3
  <2>3. g[k + 1] = IF list[k + 1].handler THEN Append(g[k], list[k + 1].id) ELSE g[k]
    <3>1. g[k + 1] = Walked(list, g, k + 1)
      BY <1>2, <2>2
    <3> QED
      BY <2>2, <3>1 DEF Walked
  <2>4. /\ ArmedTo(list, k + 1) = IF list[k + 1].handler THEN ArmedTo(list, k) \cup {list[k + 1].id}
                                  ELSE ArmedTo(list, k)
        /\ list[k + 1].id \in Nat
        /\ \A y \in ArmedTo(list, k) : y > list[k + 1].id
    BY ArmedStep DEF n
  <2> DEFINE x == list[k + 1].id
             ids == g[k]
             set == ArmedTo(list, k)
  <2>5. NewestFirst(Append(ids, x), set \cup {x})
    <3>1. NewestFirst(ids, set) /\ x \in Nat /\ \A y \in set : y > x
      BY <2>1, <2>4
    <3> HIDE DEF x, ids, set
    <3> QED
      BY <3>1, NewestFirstMore
  <2> QED
    BY <2>1, <2>3, <2>4, <2>5
<1> HIDE DEF S
<1>6. n \in S
  BY <1>3, <1>4, <1>5, AllNaturals
<1>7. NewestFirst(g[n], ArmedTo(list, n))
  BY <1>3, <1>6 DEF S
<1> QED
  BY <1>1, <1>7 DEF n, Armed

\* One more record, without a handler.
LEMMA RecordMore ==
    ASSUME NEW list \in Seq(CleanupRecord), Numbered(list), NEW rec \in CleanupRecord,
           rec.id = Len(list) + 1, ~rec.handler
    PROVE  Numbered(<<rec>> \o list) /\ Armed(<<rec>> \o list) = Armed(list)
<1> DEFINE n == Len(list)
           more == <<rec>> \o list
<1>1. /\ n \in Nat /\ DOMAIN list = 1 .. n /\ Len(more) = n + 1 /\ DOMAIN more = 1 .. n + 1
      /\ more[1] = rec /\ \A i \in 1 .. n : more[i + 1] = list[i]
  OBVIOUS
<1>2. \A i \in 1 .. n + 1 : i # 1 => i - 1 \in 1 .. n /\ (i - 1) + 1 = i
  BY <1>1
<1>3. \A i \in 1 .. n : i + 1 \in 1 .. n + 1 /\ i + 1 # 1
  BY <1>1
<1>4. \A i \in 1 .. n : list[i].id = n + 1 - i
  BY <1>1 DEF Numbered
<1>5. rec.id = n + 1
  OBVIOUS
<1> HIDE DEF n, more
<1>6. ASSUME NEW i \in 1 .. n + 1 PROVE more[i].id = (n + 1) + 1 - i
  <2>1. CASE i = 1
    BY <1>1, <1>5, <2>1
  <2>2. CASE i # 1
    <3>1. more[i] = list[i - 1] /\ i - 1 \in 1 .. n
      BY <1>1, <1>2, <2>2
    <3>2. list[i - 1].id = n + 1 - (i - 1)
      BY <1>4, <3>1
    <3>3. n + 1 - (i - 1) = (n + 1) + 1 - i
      BY <1>1
    <3> QED
      BY <3>1, <3>2, <3>3
  <2> QED
    BY <2>1, <2>2
<1>7. Armed(list) = {list[j].id : j \in {i \in 1 .. n : list[i].handler}}
  BY <1>1 DEF Armed, ArmedTo, n
<1>8. Armed(more) = {more[j].id : j \in {i \in 1 .. n + 1 : more[i].handler}}
  BY <1>1 DEF Armed, ArmedTo
<1>9. Armed(more) = Armed(list)
  <2>1. ASSUME NEW x \in Armed(more) PROVE x \in Armed(list)
    <3>1. PICK j \in 1 .. n + 1 : more[j].handler /\ x = more[j].id
      BY <1>8
    <3>2. j # 1
      BY <1>1, <3>1
    <3>3. j - 1 \in 1 .. n /\ more[j] = list[j - 1]
      BY <1>1, <1>2, <3>2
    <3> QED
      BY <1>7, <3>1, <3>3
  <2>2. ASSUME NEW x \in Armed(list) PROVE x \in Armed(more)
    <3>1. PICK j \in 1 .. n : list[j].handler /\ x = list[j].id
      BY <1>7
    <3>2. j + 1 \in 1 .. n + 1 /\ more[j + 1] = list[j]
      BY <1>1, <1>3
    <3> QED
      BY <1>8, <3>1, <3>2
  <2> QED
    BY <2>1, <2>2
<1> QED
  BY <1>1, <1>6, <1>9 DEF Numbered, more

\* A handler more.
LEMMA HandlerMore ==
    ASSUME NEW list \in Seq(CleanupRecord), Numbered(list), NEW k \in DOMAIN list
    PROVE  LET new == [list EXCEPT ![k].handler = TRUE]
           IN  Numbered(new) /\ Armed(new) = Armed(list) \cup {list[k].id}
<1> DEFINE n == Len(list)
           rec == [list[k] EXCEPT !.handler = TRUE]
           new == [list EXCEPT ![k] = rec]
<1>1. list[k] \in CleanupRecord
  OBVIOUS
<1>2. rec.id = list[k].id /\ rec.handler /\ rec \in CleanupRecord
  BY <1>1 DEF CleanupRecord
<1> HIDE DEF rec
<1>3. /\ n \in Nat /\ DOMAIN list = 1 .. n /\ Len(new) = n /\ DOMAIN new = 1 .. n
      /\ new[k] = rec /\ \A i \in 1 .. n : i # k => new[i] = list[i]
  BY <1>2
<1> HIDE DEF n, new
<1>4. \A i \in 1 .. n : new[i].id = list[i].id
  BY <1>2, <1>3
<1>5. Numbered(new)
  BY <1>3, <1>4 DEF Numbered, n
<1>6. Armed(list) = {list[j].id : j \in {i \in 1 .. n : list[i].handler}}
  BY <1>3 DEF Armed, ArmedTo, n
<1>7. Armed(new) = {new[j].id : j \in {i \in 1 .. n : new[i].handler}}
  BY <1>3 DEF Armed, ArmedTo
<1>8. Armed(new) = Armed(list) \cup {list[k].id}
  <2>1. ASSUME NEW x \in Armed(new) PROVE x \in Armed(list) \cup {list[k].id}
    <3>1. PICK j \in 1 .. n : new[j].handler /\ x = new[j].id
      BY <1>7
    <3> QED
      BY <1>3, <1>4, <1>6, <3>1
  <2>2. ASSUME NEW x \in Armed(list) PROVE x \in Armed(new)
    <3>1. PICK j \in 1 .. n : list[j].handler /\ x = list[j].id
      BY <1>6
    <3>2. new[j].handler
      BY <1>2, <1>3, <3>1
    <3> QED
      BY <1>4, <1>7, <3>1, <3>2
  <2>3. list[k].id \in Armed(new)
    BY <1>2, <1>3, <1>7
  <2> QED
    BY <2>1, <2>2, <2>3
<1> QED
  BY <1>5, <1>8 DEF new, rec

\* Records that are still handed out are nobody else's, so all handlers run.
LEMMA DestroyHandlers ==
    ASSUME PoolInv, CleanupRecordsIntact, Destroy
    PROVE  ran' = Handlers(pool.cleanup) /\ armed' = armed
<1> DEFINE list == pool.cleanup
<1>1. Open /\ PoolOK(pool, heap, live)
  BY DEF Destroy, PoolInv
<1>2. \A b, c \in live : b # c => Apart(b, c)
  BY <1>1 DEF PoolOK, Open, Kept, ExtentsOK
<1>3. \A r \in Records : \A b \in live : Apart(r, b)
  BY <1>1, InvRecordsSafe DEF RecordsSafe
<1>4. ASSUME NEW k \in DOMAIN list PROVE ~Overwritten(list[k])
  <2> DEFINE c == Block(list[k].at, CleanupSize)
  <2>1. c \in live
    BY <1>1 DEF CleanupRecordsIntact
  <2> HIDE DEF c
  <2>2. \A b \in (live \cup Records) \ {c} : Apart(b, c)
    BY <1>2, <1>3, <2>1
  <2> QED
    BY <2>2 DEF Overwritten, c
<1>5. /\ armed' = armed
      /\ LET lost == {k \in DOMAIN list : Overwritten(list[k])}
         IN  ran' = IF lost = {} THEN Handlers(list)
                    ELSE Append(Handlers(SubSeq(list, 1, MinOf(lost) - 1)), Wild)
  BY DEF Destroy
<1>6. {k \in DOMAIN list : Overwritten(list[k])} = {}
  BY <1>4
<1> QED
  BY <1>5, <1>6

HandlersInv ==
    /\ Open => Numbered(pool.cleanup) /\ armed = Armed(pool.cleanup)
    /\ HandlersRunOnce

LEMMA HandlersNext ==
    ASSUME MaxAtReset <= 0, PoolInv, CleanupRecordsIntact, HandlersInv, [Next]_vars
    PROVE  HandlersInv'
<1>0. /\ Open => /\ pool.cleanup \in Seq(CleanupRecord)
                 /\ Numbered(pool.cleanup) /\ armed = Armed(pool.cleanup)
      /\ HandlersRunOnce
  BY DEF PoolInv, PoolOK, Open, Kept, PoolType, HandlersInv
<1>a. ASSUME Open' PROVE HandlersRunOnce'
  BY <1>a DEF HandlersRunOnce
<1>1. CASE Create
  <2>1. pool'.cleanup = <<>> /\ Open'
    BY <1>1, CreateInv
  <2>2. armed' = {}
    BY <1>1 DEF Create
  <2>3. Numbered(<<>>) /\ Armed(<<>>) = {}
    BY DEF Numbered, Armed, ArmedTo
  <2> QED
    BY <1>a, <2>1, <2>2, <2>3 DEF HandlersInv
<1>2. ASSUME NEW size \in Sizes, NEW align \in BOOLEAN, NEW fuel \in Fuel, Alloc(size, align, fuel)
      PROVE  HandlersInv'
  <2>1. size \in Nat \ {0} /\ fuel \in Nat
    BY PoolAssumption DEF Fuel
  <2>2. pool'.cleanup = pool.cleanup /\ Open'
    BY <1>2, <2>1, AllocInv
  <2>3. Open /\ armed' = armed
    BY <1>2 DEF Alloc
  <2> QED
    BY <1>0, <1>a, <2>2, <2>3 DEF HandlersInv
<1>3. ASSUME NEW size \in DataSizes, NEW fuel \in CleanupFuel, CleanupAdd(size, fuel)
      PROVE  HandlersInv'
  <2>1. size \in Nat /\ fuel \in Nat
    BY PoolAssumption DEF CleanupFuel
  <2>2. Open /\ armed' = armed
    BY <1>3 DEF CleanupAdd
  <2>3. /\ Open'
        /\ \/ pool'.cleanup = pool.cleanup
           \/ \E rec \in CleanupRecord :
                 /\ pool'.cleanup = <<rec>> \o pool.cleanup
                 /\ rec.id = Len(pool.cleanup) + 1 /\ ~rec.handler
    BY <1>3, <2>1, CleanupAddInv
  <2>4. CASE pool'.cleanup = pool.cleanup
    BY <1>0, <1>a, <2>2, <2>3, <2>4 DEF HandlersInv
  <2>5. ASSUME NEW rec \in CleanupRecord, pool'.cleanup = <<rec>> \o pool.cleanup,
               rec.id = Len(pool.cleanup) + 1, ~rec.handler
        PROVE  HandlersInv'
    <3>1. Numbered(<<rec>> \o pool.cleanup) /\ Armed(<<rec>> \o pool.cleanup) = Armed(pool.cleanup)
      BY <1>0, <2>2, <2>5, RecordMore
    <3>2. Numbered(pool'.cleanup) /\ armed' = Armed(pool'.cleanup)
      BY <1>0, <2>2, <2>5, <3>1
    <3> QED
      BY <1>a, <2>3, <3>2 DEF HandlersInv
  <2> QED
    BY <2>3, <2>4, <2>5
<1>4. ASSUME Open, NEW k \in DOMAIN pool.cleanup, SetHandler(k)
      PROVE  HandlersInv'
  <2>1. Open' /\ pool'.cleanup = [pool.cleanup EXCEPT ![k].handler = TRUE]
    BY <1>4, SetHandlerInv
  <2>2. armed' = armed \cup {pool.cleanup[k].id}
    BY <1>4 DEF SetHandler
  <2>3. LET new == [pool.cleanup EXCEPT ![k].handler = TRUE]
        IN  Numbered(new) /\ Armed(new) = Armed(pool.cleanup) \cup {pool.cleanup[k].id}
    BY <1>0, <1>4, HandlerMore
  <2>4. Numbered(pool'.cleanup) /\ armed' = Armed(pool'.cleanup)
    BY <1>0, <1>4, <2>1, <2>2, <2>3
  <2> QED
    BY <1>a, <2>1, <2>4 DEF HandlersInv
<1>5. CASE Reset
  <2>1. pool'.cleanup = pool.cleanup /\ Open' /\ Open /\ armed' = armed
    BY <1>5, ResetInv DEF Reset
  <2> QED
    BY <1>0, <1>a, <2>1 DEF HandlersInv
<1>6. CASE Destroy
  <2>1. ~Open' /\ Open
    BY <1>6, DestroyInv DEF Destroy
  <2>2. ran' = Handlers(pool.cleanup) /\ armed' = armed
    BY <1>6, DestroyHandlers
  <2>3. NewestFirst(ran', armed')
    BY <1>0, <2>1, <2>2, HandlersRun
  <2>4. HandlersRunOnce'
    BY <2>3 DEF NewestFirst, HandlersRunOnce
  <2> QED
    BY <2>1, <2>4 DEF HandlersInv
<1>7. CASE UNCHANGED vars
  <2>1. pool' = pool /\ armed' = armed /\ ran' = ran
    BY <1>7 DEF vars
  <2> QED
    BY <1>0, <2>1 DEF HandlersInv, HandlersRunOnce, Open
<1> QED
  BY <1>1, <1>2, <1>3, <1>4, <1>5, <1>6, <1>7 DEF Next

-------------------------------------------------------------------------------
(* The theorems.                                                             *)

\* The fields of the pool keep their types, last stays in its block, and a block
\* fails at most once for each region there is: dl_palloc_block counts failures.
THEOREM TypeOKAlways == Spec => []TypeOK
BY PoolInvariance, InvTypeOK, PTL

\* No record of the pool's own is ever handed out or overlaps another, so the
\* list that dl_reset_pool and dl_destroy_pool walk is never written by callers.
THEOREM RecordsSafeAlways == Spec => []RecordsSafe
BY PoolInvariance, InvRecordsSafe, PTL

\* No region is leaked or freed twice, whichever malloc of a call fails:
\* dl_palloc_large frees the region it cannot record.
THEOREM RegionsExactAlways == Spec => []RegionsExact
BY PoolInvariance, InvRegionsExact, PTL

\* dl_palloc_block moves current only past blocks that failed too often.
THEOREM SkippedBlocksFailedAlways == Spec => []SkippedBlocksFailed
BY PoolInvariance, InvSkipped, PTL

\* If no pool with cleanup records is reset, the records on pool->cleanup stay
\* memory that dl_pool_cleanup_add gave out for them.
THEOREM CleanupRecordsIntactAlways ==
    ASSUME MaxAtReset <= 0
    PROVE  Spec => []CleanupRecordsIntact
<1>1. Init => CleanupRecordsIntact
  BY DEF Init, CleanupRecordsIntact, Open
<1>2. PoolInv /\ CleanupRecordsIntact /\ [Next]_vars => CleanupRecordsIntact'
  BY CleanupNext
<1> QED
  BY <1>1, <1>2, PoolInvariance, PTL DEF Spec

\* Then dl_destroy_pool runs every handler that was set, each once, newest first.
THEOREM HandlersRunOnceAlways ==
    ASSUME MaxAtReset <= 0
    PROVE  Spec => []HandlersRunOnce
<1>1. Init => CleanupRecordsIntact /\ HandlersInv
  BY DEF Init, CleanupRecordsIntact, HandlersInv, HandlersRunOnce, Open
<1>2. PoolInv /\ CleanupRecordsIntact /\ HandlersInv /\ [Next]_vars
         => CleanupRecordsIntact' /\ HandlersInv'
  BY CleanupNext, HandlersNext
<1>3. HandlersInv => HandlersRunOnce
  BY DEF HandlersInv
<1> QED
  BY <1>1, <1>2, <1>3, PoolInvariance, PTL DEF Spec
================================================================================
