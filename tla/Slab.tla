--------------------------------- MODULE Slab ---------------------------------
(***************************************************************************)
(* dl_shm.c from dl_slab_init on: the slab allocator that lives inside a   *)
(* shared memory file.  The pool is an array of pages.  Runs of free pages *)
(* are chained through their first page; the last page of a run points     *)
(* back to the first one.  A page in use is either part of a multi-page    *)
(* block or is cut into chunks of 2^shift bytes, with a bitmap that says   *)
(* which chunks are busy, and is chained to slots[shift - min_shift] while *)
(* one of its chunks is free.                                              *)
(*                                                                         *)
(* Pages are numbers; a pointer to a dl_slab_page is a page, the list head *)
(* pool->free, a list head slots[i] or Null.  Nothing reads prev of a list *)
(* head, so heads have a next only.  An address is an offset from          *)
(* pool->start.  The counters stats[].reqs and stats[].fails, which only   *)
(* grow and which nothing reads, are left out.                             *)
(***************************************************************************)
EXTENDS Integers, FiniteSets, Sequences, SequencesExt

CONSTANTS NPages,     \* pool->last - pool->pages
          PageShift,  \* dl_pagesize_shift, 12 in the code
          MinShift,   \* pool->min_shift, 3 in the code
          WordBits,   \* 8 * sizeof(uintptr_t), 64 in the code
          ByteBits,   \* 8 in the code
          Sizes,      \* sizes that callers ask for
          MaxLive     \* bound: number of blocks the callers hold at a time

\* 1 << k
TwoTo[k \in 0 .. PageShift] == IF k = 0 THEN 1 ELSE 2 * TwoTo[k - 1]

ASSUME SlabAssumption ==
    /\ NPages \in Nat \ {0} /\ MaxLive \in Nat
    /\ MinShift \in Nat /\ PageShift \in Nat /\ MinShift < PageShift
    /\ WordBits \in {TwoTo[k] : k \in 1 .. PageShift}
    /\ ByteBits \in Nat /\ 2 <= ByteBits
    /\ Sizes \subseteq Nat \ {0}

VARIABLES next,     \* next of pages and of list heads
          prev,     \* prev of pages: a pointer and the page type in its low bits
          slab,     \* slab of pages that are not cut into chunks; shift of others
          bits,     \* busy chunks of a page cut into chunks
          pfree,    \* pool->pfree
          used, total,  \* stats[].used and stats[].total
          live, held    \* history: the blocks callers hold, and how many

meta == <<next, prev, slab, pfree>>
vars == <<next, prev, slab, bits, pfree, used, total, live, held>>

-------------------------------------------------------------------------------
(* Layout.                                                                   *)

PageSize == TwoTo[PageShift]
Pages == 0 .. NPages - 1
NSlots == PageShift - MinShift
Slots == 0 .. NSlots - 1

Null == -1
Free == NPages                  \* &pool->free
SlotHead(i) == NPages + 1 + i   \* &slots[i]
Heads == {Free} \cup {SlotHead(i) : i \in Slots}

dl_slab_max_size == PageSize \div 2
dl_slab_exact_shift ==
    CHOOSE k \in 0 .. PageShift : TwoTo[k] = PageSize \div WordBits

\* The smallest shift whose chunks hold size bytes.
ShiftFor(size) ==
    CHOOSE k \in MinShift .. PageShift - 1 :
        TwoTo[k] >= size /\ (k = MinShift \/ TwoTo[k - 1] < size)

TypeFor(shift) ==
    IF shift < dl_slab_exact_shift THEN "SMALL"
    ELSE IF shift = dl_slab_exact_shift THEN "EXACT" ELSE "BIG"

NChunks(shift) == TwoTo[PageShift - shift]
Chunks(shift) == 0 .. NChunks(shift) - 1

\* Chunks taken up by the bitmap, which only a SMALL page keeps inside itself.
BitmapChunks(shift) ==
    IF shift >= dl_slab_exact_shift THEN 0
    ELSE LET n == NChunks(shift) \div (TwoTo[shift] * ByteBits)
         IN  IF n = 0 THEN 1 ELSE n
Reserved(shift) == 0 .. BitmapChunks(shift) - 1

\* Mutant: the chunks under the bitmap are counted.
CapacityWhole(shift) == NChunks(shift)

\* What a page adds to stats[].total.
Capacity(shift) == NChunks(shift) - BitmapChunks(shift)

\* Mutant: a started page is not counted.
PagesForTruncated(size) == size \div PageSize

PagesFor(size) ==
    size \div PageSize + (IF size % PageSize = 0 THEN 0 ELSE 1)

MinOf(S) == CHOOSE x \in S : \A y \in S : x <= y

-------------------------------------------------------------------------------
(* The words of a dl_slab_page.                                              *)

Run(n) == [tag |-> "run", n |-> n]          \* free: n pages, 0 if not first
Start(n) == [tag |-> "start", n |-> n]      \* first page of a block of n pages
Busy == [tag |-> "busy", n |-> 0]           \* further page of a block
Cut(shift) == [tag |-> "cut", n |-> shift]  \* page of chunks

Ptr(r, t) == [ref |-> r, type |-> t]
NoPrev == Ptr(Null, "PAGE")

\* The four words of pool metadata that the page functions change together.
Heap == [next |-> next, prev |-> prev, slab |-> slab, pfree |-> pfree]

SetMeta(h) ==
    /\ next' = h.next /\ prev' = h.prev /\ slab' = h.slab /\ pfree' = h.pfree

SetPrev(h, r, ptr) ==
    IF r \in Pages THEN [h EXCEPT !.prev[r] = ptr] ELSE h

\* prev->next = page->next; page->next->prev = page->prev
Unlink(h, p) ==
    SetPrev([h EXCEPT !.next[h.prev[p].ref] = h.next[p]], h.next[p], h.prev[p])

\* Chain p in front of a list.
Push(h, head, p, t) ==
    [SetPrev(h, h.next[head], Ptr(p, t)) EXCEPT
        !.next = [@ EXCEPT ![p] = h.next[head], ![head] = p],
        !.prev[p] = Ptr(head, t)]

\* The list that starts at head, as far as NPages entries.
List(nxt, head) ==
    LET at[k \in 0 .. NPages] ==
            IF k = 0 THEN nxt[head]
            ELSE IF at[k - 1] \in Pages THEN nxt[at[k - 1]] ELSE at[k - 1]
        len == Cardinality({k \in 0 .. NPages - 1 : at[k] \in Pages})
    IN  [k \in 1 .. len |-> at[k - 1]]

-------------------------------------------------------------------------------
(* dl_slab_alloc_pages and dl_slab_free_pages.                               *)

\* The first run in the free list that is long enough.
FirstFit(n) ==
    LET runs == List(next, Free)
        fits == {k \in 1 .. Len(runs) : slab[runs[k]].n >= n}
    IN  IF fits = {} THEN Null ELSE runs[MinOf(fits)]

\* The rest of a longer run takes the run's place in the list, and the last
\* page of the rest points to its new first page.
SplitRun(h, p, n) ==
    LET r == h.slab[p].n
        q == p + n
        marked == [h EXCEPT !.prev[p + r - 1] = Ptr(q, "PAGE"),
                            !.slab[q] = Run(r - n),
                            !.next[q] = h.next[p]]
        linked == [marked EXCEPT !.prev[q] = h.prev[p],
                                 !.next[h.prev[p].ref] = q]
    IN  SetPrev(linked, h.next[p], Ptr(q, "PAGE"))

TakeRun(h, p, n) ==
    LET g == IF h.slab[p].n > n THEN SplitRun(h, p, n) ELSE Unlink(h, p)
        block == p .. p + n - 1
    IN  [next |-> [r \in DOMAIN g.next |-> IF r \in block THEN Null ELSE g.next[r]],
         prev |-> [r \in Pages |-> IF r \in block THEN NoPrev ELSE g.prev[r]],
         slab |-> [r \in Pages |-> IF r = p THEN Start(n)
                                   ELSE IF r \in block THEN Busy ELSE g.slab[r]],
         pfree |-> g.pfree - n]

\* The pages become a run; a page that was in a slot list leaves it.
Cleared(h, p, n) ==
    LET rest == p + 1 .. p + n - 1
        g == [h EXCEPT !.pfree = @ + n,
                       !.slab = [r \in Pages |-> IF r = p THEN Run(n)
                                  ELSE IF r \in rest THEN Run(0) ELSE @[r]],
                       !.next = [r \in DOMAIN @ |-> IF r \in rest THEN Null ELSE @[r]],
                       !.prev = [r \in Pages |-> IF r \in rest THEN NoPrev ELSE @[r]]]
    IN  IF h.next[p] # Null THEN Unlink(g, p) ELSE g

Forget(h, p) ==
    [h EXCEPT !.slab[p] = Run(0), !.next[p] = Null, !.prev[p] = NoPrev]

IsFreeRun(h, p) == h.prev[p].type = "PAGE" /\ h.next[p] # Null

\* Mutant: no merge with the run that follows.
JoinNextNever(h, p) == h

\* Merge with the run that follows.
JoinNext(h, p) ==
    LET j == p + h.slab[p].n
    IN  IF j < NPages /\ IsFreeRun(h, j)
        THEN Forget([Unlink(h, j) EXCEPT !.slab[p] = Run(@.n + h.slab[j].n)], j)
        ELSE h

\* Mutant: the page before is taken for the first page of its run.
RunBeforeUntagged(h, p) ==
    IF p = 0 \/ h.prev[p - 1].type # "PAGE" THEN p
    ELSE IF h.next[p - 1] # Null THEN p - 1 ELSE p

\* First page of the run that ends right before p, or p itself.
RunBefore(h, p) ==
    IF p = 0 \/ h.prev[p - 1].type # "PAGE" THEN p
    ELSE LET j == IF h.slab[p - 1] = Run(0) THEN h.prev[p - 1].ref ELSE p - 1
         IN  IF h.next[j] # Null THEN j ELSE p

JoinPrevious(h, p) ==
    LET j == RunBefore(h, p)
    IN  IF j = p THEN h
        ELSE Forget([Unlink(h, j) EXCEPT !.slab[j] = Run(@.n + h.slab[p].n)], p)

FreePages(h, p, n) ==
    LET g == JoinNext(Cleared(h, p, n), p)
        j == RunBefore(g, p)
        k == JoinPrevious(g, p)
        len == k.slab[j].n
        tagged == IF len > 1
                  THEN [k EXCEPT !.prev[j + len - 1] = Ptr(j, "PAGE")] ELSE k
    IN  Push(tagged, Free, j, "PAGE")
-------------------------------------------------------------------------------
(* dl_slab_init: all pages are one free run.                                 *)

Init ==
    /\ next = [r \in Pages \cup Heads |->
                  CASE r = 0 -> Free [] r = Free -> 0
                    [] r \in Pages \ {0} -> Null [] OTHER -> r]
    /\ prev = [p \in Pages |-> IF p = 0 THEN Ptr(Free, "PAGE") ELSE NoPrev]
    /\ slab = [p \in Pages |-> IF p = 0 THEN Run(NPages) ELSE Run(0)]
    /\ bits = [p \in Pages |-> {}]
    /\ pfree = NPages
    /\ used = [i \in Slots |-> 0] /\ total = [i \in Slots |-> 0]
    /\ live = {} /\ held = 0

-------------------------------------------------------------------------------
(* dl_slab_alloc(pool, size).  A call that finds no room returns NULL and    *)
(* changes nothing.                                                          *)

Block(at, len, want) == [at |-> at, len |-> len, want |-> want]

Grant(at, len, want) ==
    /\ held < MaxLive
    /\ held' = held + 1
    /\ live' = live \cup {Block(at, len, want)}

\* size > dl_slab_max_size: whole pages.
AllocPages(size) ==
    /\ size > dl_slab_max_size
    /\ LET n == PagesFor(size)
           p == FirstFit(n)
       IN  /\ p # Null
           /\ SetMeta(TakeRun(Heap, p, n))
           /\ Grant(p * PageSize, n * PageSize, size)
    /\ UNCHANGED <<bits, used, total>>

\* The first chunk of the page at the head of the slot's list that is not busy.
FirstFree(p, shift) == MinOf(Chunks(shift) \ bits[p])

HasRoom(p, shift) == p \in Pages /\ Chunks(shift) \ bits[p] # {}

\* Mutant: a page that becomes full stays in the list.
LeaveNever(h, p, shift) == h

\* A page that becomes full leaves the list and keeps its type.
Leave(h, p, shift) ==
    [Unlink(h, p) EXCEPT
        !.next[p] = Null, !.prev[p] = Ptr(Null, TypeFor(shift))]

\* A chunk of the page at the head of the list.
AllocChunk(size) ==
    LET shift == ShiftFor(size)
        i == shift - MinShift
        p == next[SlotHead(i)]
        c == FirstFree(p, shift)
        full == bits[p] \cup {c} = Chunks(shift)
    IN  /\ size <= dl_slab_max_size
        /\ HasRoom(p, shift)
        /\ bits' = [bits EXCEPT ![p] = @ \cup {c}]
        /\ SetMeta(IF full THEN Leave(Heap, p, shift) ELSE Heap)
        /\ used' = [used EXCEPT ![i] = @ + 1]
        /\ Grant(p * PageSize + c * TwoTo[shift], TwoTo[shift], size)
        /\ UNCHANGED total

\* Mutant: the chunk handed out is not marked.
FreshBitsNone(shift) == 0 .. BitmapChunks(shift) - 1

\* In a fresh page the bitmap itself and the chunk handed out are busy.
FreshBits(shift) == 0 .. BitmapChunks(shift)

\* A fresh page becomes the only one in the slot's list.
AllocFresh(size) ==
    LET shift == ShiftFor(size)
        i == shift - MinShift
        p == FirstFit(1)
        c == BitmapChunks(shift)
        attached == [TakeRun(Heap, p, 1) EXCEPT
                        !.slab[p] = Cut(shift),
                        !.next = [@ EXCEPT ![p] = SlotHead(i), ![SlotHead(i)] = p],
                        !.prev[p] = Ptr(SlotHead(i), TypeFor(shift))]
    IN  /\ size <= dl_slab_max_size
        /\ ~HasRoom(next[SlotHead(i)], shift)
        /\ p # Null
        /\ SetMeta(attached)
        /\ bits' = [bits EXCEPT ![p] = FreshBits(shift)]
        /\ total' = [total EXCEPT ![i] = @ + Capacity(shift)]
        /\ used' = [used EXCEPT ![i] = @ + 1]
        /\ Grant(p * PageSize + c * TwoTo[shift], TwoTo[shift], size)

-------------------------------------------------------------------------------
(* dl_slab_free(pool, a).                                                    *)

PageOf(a) == a \div PageSize
OffsetOf(a) == a % PageSize

\* The caller's block at a is gone, if there is one.
Drop(a) ==
    /\ live' = {b \in live : b.at # a}
    /\ held' = IF \E b \in live : b.at = a THEN held - 1 ELSE held

\* Mutant: any address inside a chunk is accepted.
ChunkStartAny(a, shift) == TRUE

\* Otherwise: "pointer to wrong chunk".
ChunkStart(a, shift) == OffsetOf(a) % TwoTo[shift] = 0

\* Mutant: the chunk may be free already.
BusyChunkAny(p, c) == TRUE

\* Otherwise: "chunk is already free".
BusyChunk(p, c) == c \in bits[p]

\* a is in a page cut into chunks.  A full page goes back into its slot's list,
\* a page without a busy chunk goes back to the free pages.  A chunk under the
\* bitmap is busy like any other: its bit is cleared when a is its start.
FreeChunk(a) ==
    LET p == PageOf(a)
        shift == slab[p].n
        i == shift - MinShift
        c == OffsetOf(a) \div TwoTo[shift]
        unlisted == IF prev[p].type = "EXACT" THEN bits[p] = Chunks(shift)
                    ELSE next[p] = Null
        listed == IF unlisted THEN Push(Heap, SlotHead(i), p, prev[p].type) ELSE Heap
        left == bits[p] \ {c}
        empty == left \subseteq Reserved(shift)
    IN  /\ p \in Pages /\ prev[p].type # "PAGE"
        /\ ChunkStart(a, shift)
        /\ BusyChunk(p, c)
        /\ SetMeta(IF empty THEN FreePages(listed, p, 1) ELSE listed)
        /\ bits' = [bits EXCEPT ![p] = IF empty THEN {} ELSE left]
        /\ total' = IF empty
                    THEN [total EXCEPT ![i] = @ - Capacity(shift)]
                    ELSE total
        /\ used' = [used EXCEPT ![i] = @ - 1]
        /\ Drop(a)

\* Mutant: only the first page of a block is given back.
BlockPagesOne(p) == 1

BlockPages(p) == slab[p].n

\* a is in a page that is not cut: only the start of a block is accepted.  The
\* word behind the last page's says that it is free, so pool->end is refused: it
\* was cleared with the others or is padding of a new file.  (Not when the pages
\* begin right behind their words, as 321 pages do: it is in page 0 then.)
FreeBlock(a) ==
    LET p == PageOf(a)
    IN  /\ p \in Pages /\ prev[p].type = "PAGE"
        /\ OffsetOf(a) = 0                          \* else: wrong chunk
        /\ slab[p].tag = "start"                    \* else: free, or wrong page
        /\ SetMeta(FreePages(Heap, p, BlockPages(p)))
        /\ Drop(a)
        /\ UNCHANGED <<bits, used, total>>

\* What callers pass to dl_slab_free: any address that is not outside of the
\* pool, pool->end included; their own block, a block freed before (its page may
\* have been cut for chunks since), a pointer into a block, a bitmap or a free
\* page.
FreeArgs == 0 .. NPages * PageSize

CutPages == {p \in Pages : slab[p].tag = "cut"}

\* a lies in the bitmap of a page.
InBitmap(a) ==
    /\ PageOf(a) \in CutPages
    /\ OffsetOf(a) \div TwoTo[slab[PageOf(a)].n] \in Reserved(slab[PageOf(a)].n)

\* A chunk under a bitmap was freed.  It will be handed out and its new owner
\* overwrites the bitmap: the model ends before that.
Astray == \E p \in CutPages : ~(Reserved(slab[p].n) \subseteq bits[p])

Next ==
    /\ ~Astray
    /\ \/ \E size \in Sizes : AllocPages(size) \/ AllocChunk(size) \/ AllocFresh(size)
       \/ \E a \in FreeArgs : FreeChunk(a) \/ FreeBlock(a)

Spec == Init /\ [][Next]_vars

-------------------------------------------------------------------------------
(* Properties.                                                               *)

PartialPages(i) ==
    {p \in CutPages : slab[p].n = i + MinShift /\ bits[p] # Chunks(slab[p].n)}
FreeRuns == {p \in Pages : slab[p].tag = "run" /\ slab[p].n > 0}
RunPages(p) == p .. p + slab[p].n - 1

\* Every word has a value of its type.
TypeOK ==
    /\ next \in [Pages \cup Heads -> Pages \cup Heads \cup {Null}]
    /\ \A p \in Pages :
          /\ prev[p].ref \in Pages \cup Heads \cup {Null}
          /\ prev[p].type \in {"PAGE", "SMALL", "EXACT", "BIG"}
          /\ slab[p].tag \in {"run", "start", "busy", "cut"}
          /\ slab[p].n \in 0 .. NPages + PageShift
          /\ bits[p] \in SUBSET (0 .. PageSize - 1)
    /\ pfree \in 0 .. NPages
    /\ \A i \in Slots : used[i] \in 0 .. total[i]

\* dl_slab_alloc and dl_slab_free keep the promise of an allocator: a block is
\* long enough and overlaps no block that is still held, through any history
\* of page splitting, merging and reuse for other chunk sizes.
A == INSTANCE Allocator
ImplementsAllocator == A!AllocatorSpec

\* The bitmaps and page words say exactly what the callers hold: no chunk or
\* page is busy that nobody holds, and none is free that somebody holds.
MapsMatchLive ==
    /\ \A b \in live :
          LET p == PageOf(b.at)
          IN  \/ /\ p \in CutPages /\ b.len = TwoTo[slab[p].n]
                 /\ OffsetOf(b.at) \div b.len \in bits[p] \ Reserved(slab[p].n)
              \/ slab[p] = Start(b.len \div PageSize)
    /\ \A p \in CutPages :
          \A c \in bits[p] \ Reserved(slab[p].n) :
              \E b \in live : b.at = p * PageSize + c * TwoTo[slab[p].n]
    /\ \A p \in Pages :
          slab[p].tag \in {"start", "busy"} =>
              \E b \in live : b.at <= p * PageSize /\ p * PageSize < b.at + b.len

\* dl_slab_alloc looks only at the head of a slot's list and dl_slab_alloc_pages
\* only at the free list: each slot's list holds exactly the pages of its size
\* that have a free chunk, the free list exactly the free runs, once each, with
\* back pointers that Unlink can trust.  Otherwise room would be lost for ever.
ListsExact ==
    LET exact(head, members, types) ==
            LET l == List(next, head)
            IN  /\ Len(l) = Cardinality(members) /\ ToSet(l) = members
                /\ \A k \in 1 .. Len(l) :
                      /\ prev[l[k]].ref = (IF k = 1 THEN head ELSE l[k - 1])
                      /\ prev[l[k]].type = types
    IN  /\ exact(Free, FreeRuns, "PAGE")
        /\ \A i \in Slots :
              exact(SlotHead(i), PartialPages(i), TypeFor(i + MinShift))

\* dl_slab_free_pages merges neighbours: free runs are maximal, do not overlap,
\* pfree counts their pages, and the last page of a run that has a successor
\* points to the first one, which is how the successor's release finds it.
FreeRunsMaximal ==
    /\ \A p, q \in FreeRuns : p < q => p + slab[p].n < q
    /\ {p \in Pages : slab[p].tag = "run"} = UNION {RunPages(p) : p \in FreeRuns}
    /\ pfree = Cardinality(UNION {RunPages(p) : p \in FreeRuns})
    /\ \A p \in FreeRuns :
          LET e == p + slab[p].n - 1
          IN  (e > p /\ e < NPages - 1) => prev[e] = Ptr(p, "PAGE")

\* When everything was given back the pool is whole again: one run of all
\* pages, so the largest request that ever succeeded would succeed again.
EmptyPoolIsWhole ==
    live = {} => slab[0] = Run(NPages) /\ pfree = NPages

\* stats[].used counts the chunks held, stats[].total the chunks of the pages
\* cut for the slot, also when the last chunk of a page and the page go at once.
\* A chunk freed under a bitmap, which nobody held, was taken from used as well.
StatsExact ==
    \A i \in Slots :
        LET mine == {p \in CutPages : slab[p].n = i + MinShift}
        IN  /\ total[i] = Cardinality(mine)
                            * (NChunks(i + MinShift) - BitmapChunks(i + MinShift))
            /\ ~Astray =>
                  used[i] = Cardinality({b \in live : PageOf(b.at) \in mine})

\* The tests for "wrong chunk", "already free" and "wrong page": whatever the
\* address, dl_slab_free gives back a block only if the address is the start of
\* one that a caller holds.  A block at the start of a page that is freed twice
\* may by then be the bitmap of a page cut for small chunks, where the tests do
\* not help: it is accepted, but even then no block, page or total is lost.
BadFreeChangesNothing ==
    [][\A a \in FreeArgs : FreeChunk(a) \/ FreeBlock(a) =>
          \/ \E b \in live : b.at = a
          \/ InBitmap(a) /\ UNCHANGED <<slab, pfree, total, live, held>>]_vars
================================================================================
