--------------------------------- MODULE Pool ---------------------------------
(***************************************************************************)
(* dl_pool.c: a chain of equal blocks from malloc, each with a dl_pool     *)
(* header in front, out of which small requests are cut; large requests    *)
(* get a region of their own and a record of it inside the pool; cleanup   *)
(* records, also inside the pool, whose handlers run when it is destroyed. *)
(* Everything ends together with dl_reset_pool or dl_destroy_pool.         *)
(*                                                                         *)
(* An address is a number; malloc owns NRegions regions and region r       *)
(* starts at r * RegionSize.  A call of malloc fails when no region is     *)
(* left, when a region is too small, or when the environment wants it:     *)
(* every call of the library is given a number of mallocs ("fuel") that    *)
(* succeed before one fails.                                               *)
(***************************************************************************)
EXTENDS Integers, FiniteSets, Sequences, SequencesExt

CONSTANTS HeaderSize,   \* sizeof(dl_pool), 72 in the code
          LargeSize,    \* sizeof(dl_pool_large), 16 in the code
          CleanupSize,  \* sizeof(dl_pool_cleanup), 24 in the code
          Align,        \* DL_ALIGNMENT, 8 in the code
          MaxSmall,     \* DL_MAX_ALLOC_FROM_POOL, 4095 in the code
          FailLimit,    \* the 4 of "failed++ > 4"
          WordMod,      \* number of values of a size_t, 2^64 in the code
          PoolSize,     \* the argument of dl_create_pool
          Sizes,        \* sizes that callers ask for
          DataSizes,    \* sizes of data that they want with a cleanup record
          NRegions, RegionSize,     \* bounds: what malloc has
          MaxCleanups,  \* bound: cleanup records of a pool
          MaxAtReset    \* dl_reset_pool is used with at most so many records

\* dl_create_pool computes size - sizeof(dl_pool) in size_t and looks at nothing
\* else: a pool too small for its header, or one that a dl_pool_large does not
\* fit into, is the caller's mistake.  So is a size that is no multiple of
\* DL_ALIGNMENT: dl_palloc_small then computes end - m with m past the end.
ASSUME PoolAssumption ==
    /\ Align \in Nat \ {0} /\ FailLimit \in Nat /\ WordMod \in Nat
    /\ \A s \in {HeaderSize, LargeSize, CleanupSize, PoolSize, RegionSize} :
          s \in Nat \ {0} /\ s % Align = 0
    /\ HeaderSize + LargeSize <= PoolSize
    /\ MaxSmall \in Nat /\ LargeSize <= MaxSmall
    /\ PoolSize <= RegionSize
    /\ NRegions \in Nat /\ MaxCleanups \in Nat /\ MaxAtReset \in -1 .. MaxCleanups
    /\ Sizes \subseteq Nat \ {0} /\ DataSizes \subseteq Nat
    /\ NRegions * RegionSize < WordMod

VARIABLES pool,     \* the pool, or NoPool
          heap,     \* regions that are allocated
          armed,    \* history: cleanup records that got a handler
          ran,      \* history: handlers that dl_destroy_pool ran, in order
          live, held    \* history: the blocks callers hold, and how many

vars == <<pool, heap, armed, ran, live, held>>

Regions == 0 .. NRegions - 1
Null == -1
NoPool == [chain |-> <<>>]
Open == pool # NoPool
Wild == 0       \* "handler" of a cleanup record that was overwritten

MinOf(S) == CHOOSE x \in S : \A y \in S : x <= y
MaxOf(S) == CHOOSE x \in S : \A y \in S : y <= x

Block(at, len) == [at |-> at, len |-> len, want |-> len]

-------------------------------------------------------------------------------
(* A call works on s: the pool and the heap, the mallocs that will still     *)
(* succeed, and the address that was returned last.                          *)

Call(fuel) == [pool |-> pool, heap |-> heap, fuel |-> fuel, at |-> Null]

Malloc(s, size) ==
    IF s.fuel = 0 \/ s.heap = Regions \/ size > RegionSize THEN [s EXCEPT !.at = Null]
    ELSE LET r == MinOf(Regions \ s.heap)
         IN  [s EXCEPT !.heap = @ \cup {r}, !.fuel = @ - 1, !.at = r * RegionSize]

RegionOf(a) == a \div RegionSize

\* Mutant: rounds down.
AlignDown(a) == (a \div Align) * Align

\* dl_align_ptr
AlignUp(a) == ((a + Align - 1) \div Align) * Align

\* Mutant: one byte too few is enough.
RoomOffByOne(b, m, size) == (b.end - m) % WordMod >= size - 1

\* (size_t) (end - m) >= size
Room(b, m, size) == (b.end - m) % WordMod >= size

Where(b, align) == IF align THEN AlignUp(b.last) ELSE b.last

\* Mutant: the header is forgotten.
FirstAddressBare(base) == AlignUp(base)

FirstAddress(base) == AlignUp(base + HeaderSize)

\* pool->max
MaxFor(size) ==
    IF size - HeaderSize < MaxSmall THEN size - HeaderSize ELSE MaxSmall

\* dl_palloc_block: every block from current on but the last one counts a
\* failure, and the search will start behind those that failed too often.
NewBlock(s, size) ==
    LET c == s.pool.chain
        searched == s.pool.current .. Len(c) - 1
        worn == {i \in searched : c[i].failed > FailLimit}
        psize == c[1].end - c[1].base
        g == Malloc(s, psize)
        m == FirstAddress(g.at)
        new == [base |-> g.at, last |-> m + size,
                end |-> g.at + psize, failed |-> 0]
        counted == [i \in 1 .. Len(c) |->
                       IF i \in searched THEN [c[i] EXCEPT !.failed = @ + 1] ELSE c[i]]
    IN  IF g.at = Null THEN g
        ELSE [g EXCEPT !.at = m,
                       !.pool.chain = Append(counted, new),
                       !.pool.current = IF worn = {} THEN @ ELSE MaxOf(worn) + 1]

\* dl_palloc_small: the first block from current on with enough room.
Small(s, size, align) ==
    LET c == s.pool.chain
        fits == {i \in s.pool.current .. Len(c) :
                    Room(c[i], Where(c[i], align), size)}
        i == MinOf(fits)
        m == Where(c[i], align)
    IN  IF fits = {} THEN NewBlock(s, size)
        ELSE [s EXCEPT !.at = m, !.pool.chain[i].last = m + size]

\* Mutant: the region stays allocated.
GiveUpKeeps(s, a) == s

\* dl_free(p) after no record could be made.
GiveUp(s, a) == [s EXCEPT !.heap = @ \ {RegionOf(a)}]

\* dl_palloc_large.  The code first looks for a record whose region was freed
\* early, but nothing in the library frees one: there is never such a record.
Large(s, size) ==
    LET g == Malloc(s, size)
        r == Small(g, LargeSize, TRUE)
    IN  IF g.at = Null THEN g
        ELSE IF r.at = Null THEN GiveUp(r, g.at)
        ELSE [r EXCEPT !.at = g.at,
                       !.pool.large = <<[rec |-> r.at, alloc |-> g.at]>> \o @]

Palloc(s, size, align) ==
    IF size <= s.pool.max THEN Small(s, size, align) ELSE Large(s, size)

-------------------------------------------------------------------------------
Init ==
    /\ pool = NoPool /\ heap = {}
    /\ armed = {} /\ ran = <<>>
    /\ live = {} /\ held = 0

Keep(s) == pool' = s.pool /\ heap' = s.heap

Give(blocks) == live' = live \cup blocks /\ held' = held + Cardinality(blocks)

\* dl_palloc makes two mallocs at most, dl_pool_cleanup_add calls it twice.
Fuel == 0 .. 2
CleanupFuel == 0 .. 4

\* dl_create_pool(PoolSize)
Create ==
    LET g == Malloc(Call(1), PoolSize)
        first == [base |-> g.at, last |-> g.at + HeaderSize,
                  end |-> g.at + PoolSize, failed |-> 0]
    IN  /\ ~Open
        /\ g.at # Null
        /\ heap' = g.heap
        /\ pool' = [chain |-> <<first>>, max |-> MaxFor(PoolSize), current |-> 1,
                    large |-> <<>>, cleanup |-> <<>>]
        /\ armed' = {} /\ ran' = <<>>
        /\ UNCHANGED <<live, held>>

\* dl_palloc (align) and dl_pnalloc
Alloc(size, align, fuel) ==
    LET s == Palloc(Call(fuel), size, align)
    IN  /\ Open
        /\ Keep(s)
        /\ Give(IF s.at = Null THEN {} ELSE {Block(s.at, size)})
        /\ UNCHANGED <<armed, ran>>

\* Mutant: the record is chained before its data is there.
ChainedEarly(s, t, rec) == [t EXCEPT !.cleanup = <<rec>> \o @]

\* A record whose data could not be allocated is not chained.
Chained(s, t, rec) ==
    IF s.at = Null THEN t ELSE [t EXCEPT !.cleanup = <<rec>> \o @]

\* dl_pool_cleanup_add: a record and, when size > 0, its data.
CleanupAdd(size, fuel) ==
    LET c == Palloc(Call(fuel), CleanupSize, TRUE)
        d == IF size = 0 THEN c ELSE Palloc(c, size, TRUE)
        rec == [at |-> c.at, id |-> Len(pool.cleanup) + 1, handler |-> FALSE]
    IN  /\ Open
        /\ Len(pool.cleanup) < MaxCleanups
        /\ c.at # Null
        /\ heap' = d.heap
        /\ pool' = Chained(d, d.pool, rec)
        /\ Give(IF d.at = Null THEN {}
                ELSE {Block(c.at, CleanupSize)}
                     \cup (IF size = 0 THEN {} ELSE {Block(d.at, size)}))
        /\ UNCHANGED <<armed, ran>>

\* The caller sets c->handler, as it must after dl_pool_cleanup_add.
SetHandler(k) ==
    /\ Open
    /\ pool' = [pool EXCEPT !.cleanup[k].handler = TRUE]
    /\ armed' = armed \cup {pool.cleanup[k].id}
    /\ UNCHANGED <<heap, ran, live, held>>

\* Mutant: the search goes on where it was.
RestartKeeps == pool.current

Restart == 1

\* dl_reset_pool.  It leaves pool->cleanup, whose records are handed out again.
Reset ==
    /\ Open /\ Len(pool.cleanup) <= MaxAtReset
    /\ heap' = heap \ {RegionOf(pool.large[k].alloc) : k \in DOMAIN pool.large}
    /\ pool' = [pool EXCEPT
           !.chain = [i \in DOMAIN pool.chain |->
               [pool.chain[i] EXCEPT !.last = pool.chain[i].base + HeaderSize,
                                     !.failed = 0]],
           !.current = Restart,
           !.large = <<>>]
    /\ live' = {} /\ held' = 0
    /\ UNCHANGED <<armed, ran>>

Records == {Block(pool.large[k].rec, LargeSize) : k \in DOMAIN pool.large}

Apart(b, c) == b.at + b.len <= c.at \/ c.at + c.len <= b.at

\* Somebody else's memory: the walk may do anything with what it finds there.
Overwritten(c) ==
    \E b \in (live \cup Records) \ {Block(c.at, CleanupSize)} :
        ~Apart(b, Block(c.at, CleanupSize))

\* Mutant: the handlers run in the order of registration.
HandlersOldestFirst(list) ==
    [k \in DOMAIN list |-> list[Len(list) + 1 - k].id]

\* Handlers that the walk along the list runs.
Handlers(list) ==
    LET walk[k \in 0 .. Len(list)] ==
            IF k = 0 THEN <<>>
            ELSE IF list[k].handler THEN Append(walk[k - 1], list[k].id) ELSE walk[k - 1]
    IN  walk[Len(list)]

\* dl_destroy_pool
Destroy ==
    LET list == pool.cleanup
        lost == {k \in DOMAIN list : Overwritten(list[k])}
    IN  /\ Open
        /\ ran' = IF lost = {} THEN Handlers(list)
                  ELSE Append(Handlers(SubSeq(list, 1, MinOf(lost) - 1)), Wild)
        /\ heap' = heap \ ({RegionOf(pool.large[k].alloc) : k \in DOMAIN pool.large}
                           \cup {RegionOf(pool.chain[i].base) : i \in DOMAIN pool.chain})
        /\ pool' = NoPool
        /\ live' = {} /\ held' = 0
        /\ UNCHANGED armed

Next ==
    \/ Create
    \/ \E size \in Sizes, align \in BOOLEAN, fuel \in Fuel : Alloc(size, align, fuel)
    \/ \E size \in DataSizes, fuel \in CleanupFuel : CleanupAdd(size, fuel)
    \/ Open /\ \E k \in DOMAIN pool.cleanup : SetHandler(k)
    \/ Reset
    \/ Destroy

Spec == Init /\ [][Next]_vars

-------------------------------------------------------------------------------
(* Properties.                                                               *)

\* Every field has a value of its type.
TypeOK ==
    /\ heap \subseteq Regions
    /\ Open =>
          /\ pool.current \in DOMAIN pool.chain
          /\ \A i \in DOMAIN pool.chain :
                LET b == pool.chain[i]
                IN  /\ b.base \in {r * RegionSize : r \in Regions}
                    /\ b.end = b.base + PoolSize
                    /\ b.last \in b.base + HeaderSize .. b.end
                    /\ b.failed \in 0 .. NRegions
          /\ \A k \in DOMAIN pool.large :
                pool.large[k].alloc \in {r * RegionSize : r \in Regions}

\* The pool's own records lie in its blocks behind the headers, as do the
\* callers' blocks, and no record shares a byte with a block or a record:
\* otherwise the callers' stores would break the list that dl_reset_pool and
\* dl_destroy_pool walk.
RecordsSafe ==
    Open =>
      LET inBlock(b) == \E i \in DOMAIN pool.chain :
                           /\ pool.chain[i].base + HeaderSize <= b.at
                           /\ b.at + b.len <= pool.chain[i].end
          alone(b) == \E k \in DOMAIN pool.large : pool.large[k].alloc = b.at
      IN  /\ \A b \in live : inBlock(b) \/ alone(b)
          /\ \A r \in Records : inBlock(r) /\ \A b \in live \cup (Records \ {r}) : Apart(r, b)
          /\ Cardinality(Records) = Len(pool.large)

\* What the pool got from malloc is what it will give back: the blocks of the
\* chain and the regions of the large records, each once, nothing leaked by a
\* call that failed halfway, and nothing left after dl_destroy_pool.
RegionsExact ==
    IF Open
    THEN /\ heap = {RegionOf(pool.chain[i].base) : i \in DOMAIN pool.chain}
                   \cup {RegionOf(pool.large[k].alloc) : k \in DOMAIN pool.large}
         /\ Cardinality(heap) = Len(pool.chain) + Len(pool.large)
    ELSE heap = {}

\* Only blocks that failed too often are left out of the search, so a reset
\* makes all of the pool's memory available again.
SkippedBlocksFailed ==
    Open => \A i \in 1 .. pool.current - 1 : pool.chain[i].failed > FailLimit

\* Every record on pool->cleanup is memory that the pool gave out for it.  (The
\* list is walked by dl_destroy_pool.)
CleanupRecordsIntact ==
    Open => \A k \in DOMAIN pool.cleanup :
                Block(pool.cleanup[k].at, CleanupSize) \in live

\* dl_destroy_pool runs the handlers that were set, each once, newest first.
HandlersRunOnce ==
    (~Open /\ armed # {}) =>
        /\ ToSet(ran) = armed
        /\ \A i, j \in DOMAIN ran : i < j => ran[i] > ran[j]
================================================================================
