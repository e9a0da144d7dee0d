------------------------------- MODULE SlabProofs -------------------------------
(***************************************************************************)
(* Proofs about the slab allocator of dl_shm.c for every number of pages,  *)
(* every page, word and smallest chunk size and all requests.  The         *)
(* argument is about the layout: page words tile the pages into runs,      *)
(* blocks and cut pages, the lists hold exactly the pages they should, and *)
(* busy chunks and started blocks match the callers' blocks one to one.    *)
(***************************************************************************)
EXTENDS Slab, Induction, FiniteSetTheorems, TLAPS

-------------------------------------------------------------------------------
(* The inductive invariant.                                                  *)

Refs == Pages \cup Heads \cup {Null}
Kinds == {"PAGE", "SMALL", "EXACT", "BIG"}
Ptrs == [ref : Refs, type : Kinds]
Words == [tag : {"run", "start", "busy", "cut"}, n : Nat]
Heaps == [next : [Pages \cup Heads -> Refs], prev : [Pages -> Ptrs],
          slab : [Pages -> Words], pfree : Int]

\* A word of the first page of a free run, of the first page of a run or block,
\* and of a page further back in one.
IsRun(w) == w.tag = "run" /\ w.n > 0
Spans(w) == w.tag \in {"run", "start"} /\ w.n > 0
Inner(w) == w = Run(0) \/ w = Busy
Further(w) == IF w.tag = "run" THEN Run(0) ELSE Busy

\* Runs, blocks and cut pages tile the pages.
Tiled(s) ==
    /\ \A p \in Pages : Spans(s[p]) \/ Inner(s[p]) \/ s[p].tag = "cut"
    /\ \A p \in Pages : Spans(s[p]) =>
          /\ p + s[p].n <= NPages
          /\ \A q \in p + 1 .. p + s[p].n - 1 : s[q] = Further(s[p])
    /\ \A q \in Pages : Inner(s[q]) =>
          \E p \in Pages : Spans(s[p]) /\ p < q /\ q < p + s[p].n

\* No free page follows a free run.
Apart(s) ==
    \A p \in Pages : IsRun(s[p]) /\ p + s[p].n < NPages => s[p + s[p].n].tag # "run"

\* The last page of a run, other than f and one at the end, points to its first.
Tails(s, pv, f) ==
    \A p \in Pages \ {f} : IsRun(s[p]) /\ s[p].n > 1 /\ p + s[p].n < NPages =>
        pv[p + s[p].n - 1] = Ptr(p, "PAGE")

FreePageCount(s) == Cardinality({p \in Pages : s[p].tag = "run"})

\* The list a page with word w and busy chunks b belongs to, Null for none; own
\* says it for all pages, of which f is in no list, and for the heads.
ListOf(w, b) ==
    IF IsRun(w) THEN Free
    ELSE IF w.tag = "cut" /\ b # Chunks(w.n) THEN SlotHead(w.n - MinShift) ELSE Null
Own(s, bs, f) ==
    [r \in Pages \cup Heads |->
        IF r \in Heads THEN r ELSE IF r = f THEN Null ELSE ListOf(s[r], bs[r])]

\* The type that prev has in pages with word w, and in the list of a head.
KindOf(w) == IF w.tag = "cut" THEN TypeFor(w.n) ELSE "PAGE"
KindIn(head) == IF head = Free THEN "PAGE" ELSE TypeFor(head - (Free + 1) + MinShift)

\* Which list each page is in; a head is in its own.
Owners == {own \in [Pages \cup Heads -> Heads \cup {Null}] : \A r \in Heads : own[r] = r}

LinkedTypes(nx, pv, own, rk) ==
    /\ nx \in [Pages \cup Heads -> Refs] /\ pv \in [Pages -> Ptrs]
    /\ own \in Owners /\ rk \in [Pages \cup Heads -> Nat]

\* Each list is doubly linked, and ranks fall along it: it has no cycle but the
\* one through its head.
Linked(nx, pv, own, rk) ==
    /\ LinkedTypes(nx, pv, own, rk)
    /\ \A r \in Pages \cup Heads : own[r] # Null =>
          \/ nx[r] = own[r]
          \/ nx[r] \in Pages /\ own[nx[r]] = own[r] /\ pv[nx[r]].ref = r
    /\ \A p \in Pages : own[p] # Null =>
          /\ pv[p].ref \in Pages \cup Heads
          /\ own[pv[p].ref] = own[p]
          /\ nx[pv[p].ref] = p
          /\ pv[p].type = KindIn(own[p])
          /\ rk[p] < rk[pv[p].ref]

\* The pool's metadata, while run f is in no list; Null when all are.
Fit(h, bs, rk, f) ==
    /\ h \in Heaps /\ rk \in [Pages \cup Heads -> Nat]
    /\ Linked(h.next, h.prev, Own(h.slab, bs, f), rk)
    /\ \A p \in Pages \ {f} :
          /\ h.next[p] = Null <=> ListOf(h.slab[p], bs[p]) = Null
          /\ h.prev[p].type = KindOf(h.slab[p])
    /\ Tiled(h.slab)
    /\ Tails(h.slab, h.prev, f)
    /\ h.pfree = FreePageCount(h.slab)
    /\ f # Null => f \in Pages /\ IsRun(h.slab[f])

\* A cut page keeps its bitmap and some block; other pages have no busy chunk.
Chunked(s, bs) ==
    /\ bs \in [Pages -> SUBSET Nat]
    /\ \A p \in Pages :
          IF s[p].tag = "cut"
          THEN /\ s[p].n \in MinShift .. PageShift - 1
               /\ Reserved(s[p].n) \subseteq bs[p] /\ bs[p] \subseteq Chunks(s[p].n)
               /\ bs[p] \ Reserved(s[p].n) # {}
          ELSE bs[p] = {}

ChunkAt(p, c, shift) == p * PageSize + c * TwoTo[shift]

\* Block x lies in page p, or starts with it.
Holds(s, bs, p, x) ==
    \/ /\ s[p].tag = "cut"
       /\ \E c \in bs[p] \ Reserved(s[p].n) : x.at = ChunkAt(p, c, s[p].n)
       /\ x.len = TwoTo[s[p].n]
    \/ /\ s[p].tag = "start"
       /\ x.at = p * PageSize
       /\ x.len = s[p].n * PageSize

\* The callers' blocks are the busy chunks and the started blocks.
LiveExact(s, bs, lv) ==
    /\ IsFiniteSet(lv) /\ lv \subseteq [at : Nat, len : Nat, want : Nat]
    /\ \A x \in lv : x.want <= x.len /\ \E p \in Pages : Holds(s, bs, p, x)
    /\ \A x, y \in lv : x.at = y.at => x = y
    /\ \A p \in Pages :
          /\ s[p].tag = "cut" => \A c \in bs[p] \ Reserved(s[p].n) :
                \E x \in lv : x.at = ChunkAt(p, c, s[p].n)
          /\ s[p].tag = "start" => \E x \in lv : x.at = p * PageSize

CutFor(s, i) == {p \in Pages : s[p].tag = "cut" /\ s[p].n = i + MinShift}
BlocksIn(lv, S) == {x \in lv : PageOf(x.at) \in S}

Counted(s, lv, us, tt) ==
    /\ us \in [Slots -> Int] /\ tt \in [Slots -> Int]
    /\ \A i \in Slots :
          /\ tt[i] = Cardinality(CutFor(s, i)) * Capacity(i + MinShift)
          /\ us[i] = Cardinality(BlocksIn(lv, CutFor(s, i)))

Layout ==
    /\ \E rk \in [Pages \cup Heads -> Nat] : Fit(Heap, bits, rk, Null)
    /\ Apart(slab)
    /\ Chunked(slab, bits)
    /\ LiveExact(slab, bits, live)
    /\ Counted(slab, live, used, total)

\* A free of a chunk under a bitmap leaves less: a cut page may lack bits of its
\* bitmap, and used, from which that free was taken, is only a lower bound.
Loose(s, bs) ==
    /\ bs \in [Pages -> SUBSET Nat]
    /\ \A p \in Pages :
          IF s[p].tag = "cut"
          THEN /\ s[p].n \in MinShift .. PageShift - 1
               /\ bs[p] \subseteq Chunks(s[p].n) /\ bs[p] \ Reserved(s[p].n) # {}
          ELSE bs[p] = {}

Bounded(s, lv, us, tt) ==
    \A i \in Slots :
        /\ tt[i] = Cardinality(CutFor(s, i)) * Capacity(i + MinShift)
        /\ us[i] \in 0 .. Cardinality(BlocksIn(lv, CutFor(s, i)))

Core ==
    /\ \E rk \in [Pages \cup Heads -> Nat] : Fit(Heap, bits, rk, Null)
    /\ Apart(slab)
    /\ Loose(slab, bits)
    /\ LiveExact(slab, bits, live)
    /\ Bounded(slab, live, used, total)

Sound == Core /\ (~Astray => Layout)

-------------------------------------------------------------------------------
(* Arithmetic.                                                               *)

\* Division with remainder.
LEMMA DivMod ==
    ASSUME NEW a \in Int, NEW m \in Nat \ {0}
    PROVE  /\ a % m \in 0 .. m - 1
           /\ a \div m \in Int
           /\ a = m * (a \div m) + (a % m)
OBVIOUS

\* A multiple of m between -m and m is 0.
LEMMA OnlyMultiple ==
    ASSUME NEW d \in Int, NEW m \in Nat \ {0}, -m < m * d, m * d < m
    PROVE  d = 0
<1>1. CASE d >= 1
  <2>1. m * d >= m BY <1>1
  <2> QED BY <2>1
<1>2. CASE d <= -1
  <2>1. m * d <= -m BY <1>2
  <2> QED BY <2>1
<1> QED
  BY <1>1, <1>2

\* Quotient and remainder are the only ones.
LEMMA DivModUnique ==
    ASSUME NEW m \in Nat \ {0}, NEW q \in Int, NEW r \in 0 .. m - 1
    PROVE  (m * q + r) \div m = q /\ (m * q + r) % m = r
<1> DEFINE a == m * q + r
           q1 == a \div m
           r1 == a % m
           d == q - q1
<1>1. a \in Int
  OBVIOUS
<1> HIDE DEF a
<1>2. r1 \in 0 .. m - 1 /\ q1 \in Int /\ a = m * q1 + r1
  BY <1>1, DivMod
<1> HIDE DEF q1, r1
<1>3. m * d = m * q - m * q1 /\ d \in Int
  BY <1>2
<1> HIDE DEF d
<1>4. m * d = r1 - r
  BY <1>2, <1>3 DEF a
<1>5. d = 0
  <2>1. -m < m * d /\ m * d < m
    BY <1>2, <1>4
  <2> QED
    BY <1>3, <2>1, OnlyMultiple
<1>6. q = q1 /\ r = r1
  BY <1>2, <1>4, <1>5 DEF d
<1> QED
  BY <1>6 DEF a, q1, r1

\* The powers of two.
LEMMA TwoToIs ==
    /\ TwoTo \in [0 .. PageShift -> Nat \ {0}]
    /\ TwoTo[0] = 1
    /\ \A k \in 1 .. PageShift : TwoTo[k] = 2 * TwoTo[k - 1]
<1> DEFINE Pos == Nat \ {0}
           F == [x \in Pos \X Nat |-> 2 * x[1]]
           Doubled(f) == f = [k \in 0 .. PageShift |-> IF k = 0 THEN 1 ELSE 2 * f[k - 1]]
<1>1. PageShift \in Nat /\ 1 \in Pos
  BY SlabAssumption
<1>2. F \in [Pos \X Nat -> Pos]
  OBVIOUS
<1>3. PICK g \in [0 .. PageShift -> Pos] : Stepwise(g, 1, F, PageShift)
  <2> HIDE DEF F, Pos
  <2> QED
    BY <1>1, <1>2, StepsExist
<1>4. ASSUME NEW k \in 1 .. PageShift PROVE g[k] = 2 * g[k - 1]
  <2>1. k - 1 \in 0 .. PageShift /\ k \in Nat
    BY <1>1
  <2>2. g[k - 1] \in Pos
    BY <1>3, <2>1
  <2> QED
    BY <1>3, <2>1, <2>2 DEF Stepwise
<1>5. Doubled(g)
  <2>1. ASSUME NEW k \in 0 .. PageShift PROVE g[k] = IF k = 0 THEN 1 ELSE 2 * g[k - 1]
    BY <1>1, <1>3, <1>4 DEF Stepwise
  <2>2. g = [k \in 0 .. PageShift |-> g[k]]
    BY <1>3
  <2> QED
    BY <2>1, <2>2
<1>6. TwoTo = CHOOSE f : Doubled(f)
  BY DEF TwoTo
<1>7. Doubled(TwoTo)
  BY <1>5, <1>6
<1>8. ASSUME NEW k \in 0 .. PageShift PROVE TwoTo[k] = IF k = 0 THEN 1 ELSE 2 * TwoTo[k - 1]
  BY <1>7
<1>9. TwoTo = [k \in 0 .. PageShift |-> TwoTo[k]]
  BY <1>7
<1> HIDE DEF Doubled
<1>10. TwoTo[0] = 1 /\ \A k \in 1 .. PageShift : TwoTo[k] = 2 * TwoTo[k - 1]
  BY <1>1, <1>8
<1> DEFINE T == {k \in Nat : k <= PageShift => TwoTo[k] \in Pos}
<1>11. 0 \in T
  BY <1>10
<1>12. ASSUME NEW k \in Nat, k \in T PROVE k + 1 \in T
  <2>1. SUFFICES ASSUME k + 1 <= PageShift PROVE TwoTo[k + 1] \in Pos
    OBVIOUS
  <2>2. k + 1 \in 1 .. PageShift /\ (k + 1) - 1 = k /\ TwoTo[k] \in Pos
    BY <1>1, <1>12, <2>1
  <2>3. TwoTo[k + 1] = 2 * TwoTo[k]
    BY <1>10, <2>2
  <2> QED
    BY <2>2, <2>3
<1> HIDE DEF T
<1>13. \A k \in Nat : k \in T
  BY <1>11, <1>12, AllNaturals
<1>14. \A k \in 0 .. PageShift : TwoTo[k] \in Nat \ {0}
  BY <1>1, <1>13 DEF T
<1>15. TwoTo \in [0 .. PageShift -> Nat \ {0}]
  BY <1>9, <1>14
<1> QED
  BY <1>10, <1>15

\* Powers of two multiply.
LEMMA TwoToAdd ==
    ASSUME NEW a \in Nat
    PROVE  \A b \in Nat : a + b <= PageShift => TwoTo[a + b] = TwoTo[a] * TwoTo[b]
<1> DEFINE T == {b \in Nat : a + b <= PageShift => TwoTo[a + b] = TwoTo[a] * TwoTo[b]}
<1>1. PageShift \in Nat
  BY SlabAssumption
<1>2. 0 \in T
  <2>1. ASSUME a + 0 <= PageShift PROVE TwoTo[a + 0] = TwoTo[a] * TwoTo[0]
    <3>1. a \in 0 .. PageShift /\ a + 0 = a
      BY <1>1, <2>1
    <3>2. TwoTo[a] \in Nat /\ TwoTo[0] = 1
      BY <3>1, TwoToIs
    <3> QED
      BY <3>1, <3>2
  <2> QED
    BY <2>1
<1>3. ASSUME NEW b \in Nat, b \in T PROVE b + 1 \in T
  <2>1. SUFFICES ASSUME a + (b + 1) <= PageShift
                 PROVE  TwoTo[a + (b + 1)] = TwoTo[a] * TwoTo[b + 1]
    OBVIOUS
  <2>2. /\ a + (b + 1) \in 1 .. PageShift /\ (a + (b + 1)) - 1 = a + b
        /\ b + 1 \in 1 .. PageShift /\ (b + 1) - 1 = b
        /\ a \in 0 .. PageShift /\ b \in 0 .. PageShift /\ a + b <= PageShift
    BY <1>1, <2>1
  <2>3. TwoTo[a + (b + 1)] = 2 * TwoTo[a + b] /\ TwoTo[b + 1] = 2 * TwoTo[b]
    BY <2>2, TwoToIs
  <2>4. TwoTo[a + b] = TwoTo[a] * TwoTo[b]
    BY <1>3, <2>2
  <2>5. TwoTo[a] \in Nat /\ TwoTo[b] \in Nat
    BY <2>2, TwoToIs
  <2> DEFINE x == TwoTo[a]
             y == TwoTo[b]
  <2> HIDE DEF x, y
  <2>6. x \in Nat /\ y \in Nat => 2 * (x * y) = x * (2 * y)
    OBVIOUS
  <2> QED
    BY <2>3, <2>4, <2>5, <2>6 DEF x, y
<1> HIDE DEF T
<1>4. \A b \in Nat : b \in T
  BY <1>2, <1>3, AllNaturals
<1> QED
  BY <1>4 DEF T

\* A product grows with its factors.
LEMMA TimesGrows ==
    ASSUME NEW a \in Nat, NEW b \in Nat, NEW m \in Nat, a <= b
    PROVE  a * m \in Nat /\ b * m \in Nat /\ a * m <= b * m
<1> DEFINE d == b - a
<1>1. d \in Nat /\ b = a + d
  OBVIOUS
<1> HIDE DEF d
<1>2. d * m \in Nat /\ a * m \in Nat /\ (a + d) * m = a * m + d * m
  BY <1>1
<1> QED
  BY <1>1, <1>2

\* Powers of two grow.
LEMMA TwoToGrows ==
    ASSUME NEW a \in 0 .. PageShift, NEW b \in 0 .. PageShift, a < b
    PROVE  2 * TwoTo[a] <= TwoTo[b]
<1>1. PageShift \in Nat /\ b - a \in 1 .. PageShift /\ (b - a) - 1 \in 0 .. PageShift
  BY SlabAssumption
<1>2. a \in Nat /\ b - a \in Nat /\ a + (b - a) = b /\ b <= PageShift
  BY <1>1
<1>3. TwoTo[b] = TwoTo[a] * TwoTo[b - a]
  BY <1>2, TwoToAdd
<1> DEFINE x == TwoTo[a]
           y == TwoTo[b - a]
           z == TwoTo[(b - a) - 1]
<1>4. x \in Nat /\ y \in Nat /\ z \in Nat \ {0} /\ y = 2 * z
  BY <1>1, TwoToIs
<1>5. TwoTo[b] = x * y
  BY <1>3
<1> HIDE DEF x, y, z
<1>6. 2 <= y
  BY <1>4
<1>7. 2 * x <= y * x /\ x * y = y * x
  BY <1>4, <1>6, TimesGrows
<1> QED
  BY <1>5, <1>7 DEF x

\* The page is whole chunks of any size.
LEMMA PageOfChunks ==
    ASSUME NEW shift \in 0 .. PageShift
    PROVE  /\ PageSize \in Nat \ {0} /\ TwoTo[shift] \in Nat \ {0}
           /\ NChunks(shift) \in Nat \ {0}
           /\ PageSize = TwoTo[shift] * NChunks(shift)
           /\ PageSize = NChunks(shift) * TwoTo[shift]
<1>1. /\ PageShift \in 0 .. PageShift /\ PageShift - shift \in 0 .. PageShift
      /\ shift \in Nat /\ PageShift - shift \in Nat
      /\ shift + (PageShift - shift) = PageShift
  BY SlabAssumption
<1>2. TwoTo[PageShift] = TwoTo[shift] * TwoTo[PageShift - shift]
  BY <1>1, TwoToAdd
<1> DEFINE x == TwoTo[shift]
           y == TwoTo[PageShift - shift]
<1>3. x \in Nat \ {0} /\ y \in Nat \ {0} /\ TwoTo[PageShift] \in Nat \ {0}
  BY <1>1, TwoToIs
<1>4. TwoTo[PageShift] = x * y
  BY <1>2
<1> HIDE DEF x, y
<1>5. x * y = y * x
  BY <1>3
<1>6. PageSize = TwoTo[PageShift] /\ NChunks(shift) = y /\ TwoTo[shift] = x
  BY DEF PageSize, NChunks, x, y
<1> QED
  BY <1>3, <1>4, <1>5, <1>6

\* The shift of chunks whose bitmap is one word; smaller chunks are many.
LEMMA ExactShift ==
    ASSUME NEW shift \in 0 .. PageShift
    PROVE  /\ dl_slab_exact_shift \in 0 .. PageShift
           /\ shift < dl_slab_exact_shift => 4 <= NChunks(shift)
<1>1. PICK w \in 1 .. PageShift : WordBits = TwoTo[w]
  BY SlabAssumption
<1>2. PageShift \in Nat /\ w \in 0 .. PageShift /\ PageShift - w \in 0 .. PageShift
  BY SlabAssumption
<1> DEFINE x == TwoTo[w]
           y == TwoTo[PageShift - w]
<1>3. /\ x \in Nat \ {0} /\ y \in Nat \ {0} /\ PageSize = x * y
  BY <1>2, PageOfChunks DEF NChunks
<1> HIDE DEF x, y
<1>4. PageSize \div x = y
  <2>1. y \in Int /\ 0 \in 0 .. x - 1 /\ x * y + 0 = x * y
    BY <1>3
  <2>2. (x * y + 0) \div x = y
    BY <1>3, <2>1, DivModUnique
  <2> QED
    BY <1>3, <2>1, <2>2
<1>5. \A k \in 0 .. PageShift : TwoTo[k] = y => k = PageShift - w
  <2> SUFFICES ASSUME NEW k \in 0 .. PageShift, TwoTo[k] = y, k # PageShift - w
               PROVE  FALSE
    OBVIOUS
  <2>1. TwoTo[k] \in Nat \ {0}
    BY TwoToIs
  <2>2. CASE k < PageShift - w
    <3>1. 2 * TwoTo[k] <= TwoTo[PageShift - w]
      BY <1>2, <2>2, TwoToGrows
    <3> QED
      BY <1>3, <2>1, <3>1 DEF y
  <2>3. CASE PageShift - w < k
    <3>1. 2 * TwoTo[PageShift - w] <= TwoTo[k]
      BY <1>2, <2>3, TwoToGrows
    <3> QED
      BY <1>3, <2>1, <3>1 DEF y
  <2> QED
    BY <1>2, <2>2, <2>3
<1>6. dl_slab_exact_shift = PageShift - w
  <2>1. dl_slab_exact_shift = CHOOSE k \in 0 .. PageShift : TwoTo[k] = y
    BY <1>1, <1>4 DEF dl_slab_exact_shift, x
  <2>2. \E k \in 0 .. PageShift : TwoTo[k] = y
    BY <1>2 DEF y
  <2> QED
    BY <1>5, <2>1, <2>2
<1> SUFFICES ASSUME shift < dl_slab_exact_shift PROVE 4 <= NChunks(shift)
  BY <1>2, <1>6
<1>7. /\ 0 \in 0 .. PageShift /\ 1 \in 0 .. PageShift /\ 1 \in 1 .. PageShift
      /\ PageShift - shift \in 0 .. PageShift /\ 1 < PageShift - shift
  BY <1>1, <1>2, <1>6
<1>8. TwoTo[1] = 2
  <2>1. TwoTo[1] = 2 * TwoTo[1 - 1] /\ TwoTo[0] = 1
    BY <1>7, TwoToIs
  <2> QED
    BY <2>1
<1>9. 2 * TwoTo[1] <= TwoTo[PageShift - shift]
  BY <1>7, TwoToGrows
<1> QED
  BY <1>8, <1>9 DEF NChunks

Shifts == MinShift .. PageShift - 1

\* The bitmap of a page leaves more than one of its chunks.
LEMMA BitmapFits ==
    ASSUME NEW shift \in Shifts
    PROVE  /\ BitmapChunks(shift) \in Nat
           /\ BitmapChunks(shift) + 1 < NChunks(shift)
<1>1. shift \in 0 .. PageShift /\ shift < PageShift /\ PageShift \in Nat
  BY SlabAssumption DEF Shifts
<1>2. NChunks(shift) \in Nat \ {0} /\ TwoTo[shift] \in Nat \ {0}
  BY <1>1, PageOfChunks
<1>3. CASE shift >= dl_slab_exact_shift
  <2>1. PageShift - shift \in 0 .. PageShift /\ 0 < PageShift - shift /\ 0 \in 0 .. PageShift
    BY <1>1
  <2>2. 2 * TwoTo[0] <= TwoTo[PageShift - shift] /\ TwoTo[0] = 1
    BY <2>1, TwoToGrows, TwoToIs
  <2>3. 2 <= NChunks(shift) /\ BitmapChunks(shift) = 0
    BY <1>3, <2>2 DEF NChunks, BitmapChunks
  <2> QED
    BY <1>2, <2>3
<1>4. CASE ~(shift >= dl_slab_exact_shift)
  <2> DEFINE N == NChunks(shift)
             m == TwoTo[shift] * ByteBits
             n == N \div m
  <2>1. 4 <= N
    <3>1. dl_slab_exact_shift \in 0 .. PageShift
      BY <1>1, ExactShift
    <3>2. shift < dl_slab_exact_shift
      BY <1>1, <1>4, <3>1
    <3> QED
      BY <1>1, <3>2, ExactShift
  <2>2. N \in Nat
    BY <1>2
  <2>3. m \in Nat /\ 2 <= m
    <3>1. ByteBits \in Nat /\ 2 <= ByteBits /\ 1 <= TwoTo[shift] /\ 1 \in Nat
      BY <1>2, SlabAssumption
    <3>2. 1 * ByteBits <= TwoTo[shift] * ByteBits /\ TwoTo[shift] * ByteBits \in Nat
      BY <1>2, <3>1, TimesGrows
    <3> QED
      BY <3>1, <3>2
  <2>4. BitmapChunks(shift) = IF n = 0 THEN 1 ELSE n
    BY <1>4 DEF BitmapChunks
  <2> HIDE DEF N, m
  <2>5. N % m \in 0 .. m - 1 /\ n \in Int /\ N = m * n + (N % m)
    <3>1. m \in Nat \ {0}
      BY <2>3
    <3> QED
      BY <2>2, <3>1, DivMod
  <2> HIDE DEF n
  <2>6. n \in Nat
    <3>1. CASE n <= -1
      <4>1. m * n <= -m
        BY <2>3, <2>5, <3>1
      <4> QED
        BY <2>2, <2>3, <2>5, <4>1
    <3> QED
      BY <2>5, <3>1
  <2>7. 2 * n <= m * n /\ m * n \in Nat
    BY <2>3, <2>6, TimesGrows
  <2>8. 2 * n <= N
    BY <2>2, <2>3, <2>5, <2>7
  <2> QED
    BY <2>1, <2>2, <2>4, <2>6, <2>8 DEF N
<1> QED
  BY <1>3, <1>4

\* Where a chunk lies: from its address dl_slab_free finds page and chunk again.
LEMMA ChunkPlace ==
    ASSUME NEW p \in Pages, NEW shift \in Shifts, NEW c \in Chunks(shift)
    PROVE  /\ ChunkAt(p, c, shift) \in Nat
           /\ PageOf(ChunkAt(p, c, shift)) = p
           /\ OffsetOf(ChunkAt(p, c, shift)) = c * TwoTo[shift]
           /\ OffsetOf(ChunkAt(p, c, shift)) \div TwoTo[shift] = c
           /\ OffsetOf(ChunkAt(p, c, shift)) % TwoTo[shift] = 0
           /\ c * TwoTo[shift] \in Nat
           /\ c * TwoTo[shift] + TwoTo[shift] <= PageSize
<1> DEFINE K == PageSize
           t == TwoTo[shift]
           N == NChunks(shift)
           o == c * t
<1>1. shift \in 0 .. PageShift
  BY SlabAssumption DEF Shifts
<1>2. K \in Nat \ {0} /\ t \in Nat \ {0} /\ N \in Nat \ {0} /\ K = N * t
  BY <1>1, PageOfChunks
<1>3. c \in Nat /\ c + 1 <= N /\ p \in Nat
  BY <1>2, SlabAssumption DEF Chunks, Pages
<1> HIDE DEF K, t, N
<1>4. o \in Nat /\ o + t <= K
  <2>1. c + 1 \in Nat
    BY <1>3
  <2>2. (c + 1) * t <= N * t
    BY <1>2, <1>3, <2>1, TimesGrows
  <2>3. (c + 1) * t = c * t + t /\ c * t \in Nat
    BY <1>2, <1>3
  <2> QED
    BY <1>2, <2>2, <2>3
<1>5. t * c = o /\ K * p = p * K /\ p * K \in Nat
  BY <1>2, <1>3
<1> HIDE DEF o
<1>6. o \in 0 .. K - 1 /\ 0 \in 0 .. t - 1 /\ c \in Int /\ p \in Int
  BY <1>2, <1>3, <1>4
<1>7. (K * p + o) \div K = p /\ (K * p + o) % K = o
  BY <1>2, <1>6, DivModUnique
<1>8. (t * c + 0) \div t = c /\ (t * c + 0) % t = 0
  BY <1>2, <1>6, DivModUnique
<1>9. t * c + 0 = o
  BY <1>4, <1>5
<1>10. o \div t = c /\ o % t = 0
  BY <1>8, <1>9
<1>11. ChunkAt(p, c, shift) = K * p + o
  BY <1>5 DEF ChunkAt, K, o, t
<1>12. K * p + o \in Nat
  BY <1>4, <1>5
<1> QED
  BY <1>4, <1>7, <1>10, <1>11, <1>12 DEF PageOf, OffsetOf, K, o, t

\* The other way round: what dl_slab_free finds at an address inside the pool.
LEMMA PlaceOfAddress ==
    ASSUME NEW a \in 0 .. NPages * PageSize - 1
    PROVE  /\ PageOf(a) \in Pages
           /\ OffsetOf(a) = 0 => a = PageOf(a) * PageSize
           /\ \A shift \in Shifts :
                 /\ OffsetOf(a) \div TwoTo[shift] \in Chunks(shift)
                 /\ OffsetOf(a) % TwoTo[shift] = 0 =>
                       a = ChunkAt(PageOf(a), OffsetOf(a) \div TwoTo[shift], shift)
<1> DEFINE K == PageSize
           p == a \div K
           o == a % K
<1>1. PageShift \in 0 .. PageShift /\ NPages \in Nat \ {0}
  BY SlabAssumption
<1>2. K \in Nat \ {0} /\ NPages * K \in Nat /\ a \in Nat /\ a < NPages * K
  <2>1. K \in Nat \ {0}
    BY <1>1, PageOfChunks
  <2> HIDE DEF K
  <2>2. NPages * K \in Nat
    BY <1>1, <2>1
  <2>3. a \in 0 .. NPages * K - 1
    BY DEF K
  <2> QED
    BY <2>1, <2>2, <2>3
<1> HIDE DEF K
<1>3. o \in 0 .. K - 1 /\ p \in Int /\ a = K * p + o
  <2>1. a \in Int /\ K \in Nat \ {0}
    BY <1>2
  <2>2. a % K \in 0 .. K - 1 /\ a \div K \in Int /\ a = K * (a \div K) + (a % K)
    BY ONLY <2>1, DivMod
  <2> QED
    BY <2>2
<1> HIDE DEF p, o
<1>4. 0 <= p
  <2>1. CASE p <= -1
    <3>1. K * p <= -K
      BY <1>2, <1>3, <2>1
    <3> QED
      BY <1>2, <1>3, <3>1
  <2> QED
    BY <1>3, <2>1
<1>5. p < NPages
  <2>1. CASE NPages <= p
    <3>1. NPages * K <= p * K /\ p * K = K * p /\ p * K \in Nat
      BY <1>1, <1>2, <1>3, <1>4, <2>1, TimesGrows
    <3> QED
      BY <1>2, <1>3, <3>1
  <2> QED
    BY <1>1, <1>3, <2>1
<1>6. PageOf(a) = p /\ OffsetOf(a) = o
  BY DEF PageOf, OffsetOf, p, o, K
<1>7. p \in Pages /\ K * p = p * K /\ p * K \in Nat
  BY <1>1, <1>2, <1>3, <1>4, <1>5 DEF Pages
<1>8. o = 0 => a = p * K
  BY <1>3, <1>7
<1>9. ASSUME NEW shift \in Shifts
      PROVE  /\ o \div TwoTo[shift] \in Chunks(shift)
             /\ o % TwoTo[shift] = 0 => a = ChunkAt(p, o \div TwoTo[shift], shift)
  <2> DEFINE t == TwoTo[shift]
             N == NChunks(shift)
             c == o \div t
  <2>1. t \in Nat \ {0} /\ N \in Nat \ {0} /\ K = N * t
    <3>1. shift \in 0 .. PageShift
      BY SlabAssumption DEF Shifts
    <3> QED
      BY <3>1, PageOfChunks DEF K
  <2> HIDE DEF t, N
  <2>2. o % t \in 0 .. t - 1 /\ c \in Int /\ o = t * c + (o % t)
    <3>1. o \in Int /\ t \in Nat \ {0}
      BY <1>2, <1>3, <2>1
    <3> QED
      BY ONLY <3>1, DivMod DEF c
  <2> DEFINE r == o % t
  <2> HIDE DEF c, r
  <2>3. 0 <= c
    <3>1. CASE c <= -1
      <4>1. t * c <= -t
        BY <2>1, <2>2, <3>1
      <4> QED
        BY <1>3, <2>1, <2>2, <4>1 DEF r
    <3> QED
      BY <2>2, <3>1
  <2>4. t * c = c * t /\ c * t \in Nat
    BY <2>1, <2>2, <2>3
  <2>5. c < N
    <3>1. CASE N <= c
      <4>1. N * t <= c * t /\ c * t \in Nat
        BY <2>1, <2>2, <2>3, <3>1, TimesGrows
      <4>2. K <= c * t /\ o >= c * t
        BY <2>1, <2>2, <2>4, <4>1
      <4> QED
        BY <1>2, <1>3, <2>4, <4>2
    <3> QED
      BY <2>1, <2>2, <3>1
  <2>6. c \in Chunks(shift)
    BY <2>1, <2>2, <2>3, <2>5 DEF Chunks, N
  <2>7. ASSUME o % t = 0 PROVE a = p * K + c * t
    BY <1>3, <1>7, <2>2, <2>4, <2>7
  <2> QED
    BY <2>6, <2>7 DEF ChunkAt, c, t, K
<1> QED
  BY <1>6, <1>7, <1>8, <1>9 DEF K

\* The start of a page.
LEMMA PageStart ==
    ASSUME NEW p \in Pages
    PROVE  /\ p * PageSize \in Nat
           /\ PageOf(p * PageSize) = p /\ OffsetOf(p * PageSize) = 0
<1> DEFINE K == PageSize
<1>1. K \in Nat \ {0} /\ p \in Nat
  <2>1. PageShift \in 0 .. PageShift
    BY SlabAssumption
  <2> QED
    BY <2>1, PageOfChunks, SlabAssumption DEF Pages
<1> HIDE DEF K
<1>2. 0 \in 0 .. K - 1 /\ p \in Int
  BY <1>1
<1>3. (K * p + 0) \div K = p /\ (K * p + 0) % K = 0
  BY <1>1, <1>2, DivModUnique
<1>4. K * p + 0 = p * K /\ p * K \in Nat
  BY <1>1
<1> QED
  BY <1>3, <1>4 DEF PageOf, OffsetOf, K

\* The pages for a request are enough, and not none.
LEMMA PagesForEnough ==
    ASSUME NEW size \in Nat \ {0}
    PROVE  PagesFor(size) \in Nat \ {0} /\ size <= PagesFor(size) * PageSize
<1> DEFINE K == PageSize
           q == size \div K
           r == size % K
<1>1. K \in Nat \ {0}
  <2>1. PageShift \in 0 .. PageShift
    BY SlabAssumption
  <2> QED
    BY <2>1, PageOfChunks
<1> HIDE DEF K
<1>2. r \in 0 .. K - 1 /\ q \in Int /\ size = K * q + r
  <2>1. size \in Int
    OBVIOUS
  <2> QED
    BY ONLY <1>1, <2>1, DivMod DEF q, r
<1>3. PagesFor(size) = q + (IF r = 0 THEN 0 ELSE 1)
  BY DEF PagesFor, q, r, K
<1> HIDE DEF q, r
<1>4. q \in Nat
  <2>1. CASE q <= -1
    <3>1. K * q <= -K
      BY <1>1, <1>2, <2>1
    <3> QED
      BY <1>1, <1>2, <3>1
  <2> QED
    BY <1>2, <2>1
<1>5. CASE r = 0
  <2>1. q # 0 /\ q * K = K * q
    BY <1>1, <1>2, <1>4, <1>5
  <2>2. PagesFor(size) = q
    BY <1>3, <1>4, <1>5
  <2>3. K * q \in Nat
    BY <1>1, <1>4
  <2>4. size = K * q
    BY <1>2, <1>5, <2>3
  <2>5. size <= q * K
    BY <2>1, <2>4
  <2> QED
    BY <1>4, <2>1, <2>2, <2>5 DEF K
<1>6. CASE r # 0
  <2>1. (q + 1) * K = K * q + K /\ K * q \in Nat
    BY <1>1, <1>4
  <2>2. K * q + r <= K * q + K
    BY <1>1, <1>2, <2>1
  <2>3. size <= (q + 1) * K
    BY <1>2, <2>1, <2>2
  <2>4. q + 1 \in Nat \ {0} /\ PagesFor(size) = q + 1
    BY <1>3, <1>4, <1>6
  <2> QED
    BY <2>3, <2>4 DEF K
<1> QED
  BY <1>5, <1>6

\* The chunks for a request are long enough.
LEMMA ShiftForEnough ==
    ASSUME NEW size \in Nat, size <= dl_slab_max_size
    PROVE  ShiftFor(size) \in Shifts /\ size <= TwoTo[ShiftFor(size)]
<1> DEFINE S == {k \in Shifts : size <= TwoTo[k]}
           last == PageShift - 1
<1>1. MinShift \in Nat /\ PageShift \in Nat /\ MinShift < PageShift
  BY SlabAssumption
<1>2. last \in Shifts /\ last \in 0 .. PageShift /\ PageShift \in 1 .. PageShift
  BY <1>1 DEF Shifts
<1>3. dl_slab_max_size = TwoTo[last]
  <2>1. PageSize = 2 * TwoTo[last] /\ TwoTo[last] \in Nat
    BY <1>2, TwoToIs DEF PageSize
  <2>2. 2 \in Nat \ {0} /\ 0 \in 0 .. 2 - 1 /\ TwoTo[last] \in Int
    BY <2>1
  <2>3. (2 * TwoTo[last] + 0) \div 2 = TwoTo[last]
    BY <2>2, DivModUnique
  <2> QED
    BY <2>1, <2>3 DEF dl_slab_max_size
<1>4. last \in S
  BY <1>2, <1>3
<1>5. S \subseteq Nat
  BY <1>1 DEF Shifts
<1>6. PICK k \in S : \A y \in S : k <= y
  <2> HIDE DEF S
  <2> QED
    BY <1>4, <1>5, LeastOf
<1>7. k = MinShift \/ TwoTo[k - 1] < size
  <2>1. SUFFICES ASSUME k # MinShift PROVE TwoTo[k - 1] < size
    OBVIOUS
  <2>2. k \in Nat /\ k - 1 \in Shifts /\ k - 1 \in 0 .. PageShift
    BY <1>1, <2>1 DEF Shifts
  <2>3. k - 1 \notin S
    BY <1>5, <1>6, <2>2
  <2>4. TwoTo[k - 1] \in Nat
    BY <2>2, TwoToIs
  <2>5. ~(size <= TwoTo[k - 1])
    BY <2>2, <2>3
  <2> QED
    BY <2>4, <2>5
<1>8. TwoTo[k] \in Nat /\ k \in Shifts /\ size <= TwoTo[k]
  <2>1. k \in 0 .. PageShift
    BY <1>1 DEF Shifts
  <2> QED
    BY <2>1, TwoToIs
<1>9. ShiftFor(size) =
        CHOOSE j \in Shifts : TwoTo[j] >= size /\ (j = MinShift \/ TwoTo[j - 1] < size)
  BY DEF ShiftFor, Shifts
<1>10. TwoTo[k] >= size
  BY <1>8
<1>11. ShiftFor(size) \in Shifts /\ TwoTo[ShiftFor(size)] >= size
  BY <1>7, <1>8, <1>9, <1>10
<1> DEFINE j == ShiftFor(size)
<1> HIDE DEF j
<1>12. TwoTo[j] \in Nat
  <2>1. j \in 0 .. PageShift
    BY <1>1, <1>11 DEF Shifts, j
  <2> QED
    BY <2>1, TwoToIs
<1>13. j \in Shifts /\ TwoTo[j] >= size
  BY <1>11 DEF j
<1>14. size <= TwoTo[j]
  BY <1>12, <1>13
<1> QED
  BY <1>13, <1>14 DEF j

-------------------------------------------------------------------------------
(* Pages, list heads and pointers.                                           *)

\* Pages, heads and Null differ; each slot has a head of its own.
LEMMA RefsApart ==
    /\ \A p \in Pages : p \notin Heads /\ p \in Nat /\ p # Null /\ p # Free /\ p < NPages
    /\ \A r \in Heads : r \notin Pages /\ r # Null
    /\ Free \in Heads /\ Null \in Refs /\ Free # Null /\ Null \notin Pages
    /\ \A i \in Slots : /\ SlotHead(i) \in Heads /\ SlotHead(i) # Free
                        /\ SlotHead(i) # Null
                        /\ KindIn(SlotHead(i)) = TypeFor(i + MinShift)
                        /\ i + MinShift \in Shifts
    /\ \A i, j \in Slots : SlotHead(i) = SlotHead(j) => i = j
    /\ \A shift \in Shifts : shift - MinShift \in Slots /\ (shift - MinShift) + MinShift = shift
<1>1. /\ NPages \in Nat \ {0} /\ MinShift \in Nat /\ PageShift \in Nat
      /\ MinShift < PageShift
  BY SlabAssumption
<1>2. \A i \in Slots : i \in Nat /\ SlotHead(i) = NPages + 1 + i
  BY <1>1 DEF Slots, NSlots, SlotHead
<1>3. ASSUME NEW i \in Slots PROVE KindIn(SlotHead(i)) = TypeFor(i + MinShift)
  <2>1. SlotHead(i) # Free /\ SlotHead(i) - (Free + 1) = i
    BY <1>1, <1>2 DEF Free
  <2> QED
    BY <2>1 DEF KindIn
<1>4. \A p \in Pages : p \notin Heads /\ p \in Nat /\ p # Null /\ p # Free /\ p < NPages
  BY <1>1, <1>2 DEF Pages, Heads, Free, Null
<1>5. \A r \in Heads : r \notin Pages /\ r # Null
  BY <1>1, <1>2 DEF Pages, Heads, Free, Null
<1>6. Free \in Heads /\ Null \in Refs /\ Free # Null /\ Null \notin Pages
  BY <1>1 DEF Heads, Refs, Free, Null, Pages
<1>7. \A i \in Slots : /\ SlotHead(i) \in Heads /\ SlotHead(i) # Free
                       /\ SlotHead(i) # Null /\ i + MinShift \in Shifts
  BY <1>1, <1>2 DEF Heads, Free, Null, Slots, NSlots, Shifts
<1>8. \A i, j \in Slots : SlotHead(i) = SlotHead(j) => i = j
  BY <1>1, <1>2
<1>9. \A shift \in Shifts : shift - MinShift \in Slots /\ (shift - MinShift) + MinShift = shift
  BY <1>1 DEF Slots, NSlots, Shifts
<1> QED
  BY <1>3, <1>4, <1>5, <1>6, <1>7, <1>8, <1>9

\* The kinds of pages.
LEMMA KindsApart ==
    /\ \A shift : TypeFor(shift) \in Kinds /\ TypeFor(shift) # "PAGE"
    /\ \A w : KindOf(w) \in Kinds /\ (KindOf(w) = "PAGE" <=> w.tag # "cut")
BY DEF TypeFor, Kinds, KindOf

\* The fields of a pointer and of a page word.
LEMMA WordsTyped ==
    /\ \A r \in Refs, t \in Kinds : /\ Ptr(r, t) \in Ptrs
                                    /\ Ptr(r, t).ref = r /\ Ptr(r, t).type = t
    /\ \A x \in Ptrs : x.ref \in Refs /\ x.type \in Kinds
    /\ \A n \in Nat : /\ Run(n) \in Words /\ Run(n).tag = "run" /\ Run(n).n = n
                      /\ Start(n) \in Words /\ Start(n).tag = "start" /\ Start(n).n = n
                      /\ Cut(n) \in Words /\ Cut(n).tag = "cut" /\ Cut(n).n = n
    /\ Busy \in Words /\ Busy.tag = "busy" /\ Busy.n = 0
    /\ NoPrev \in Ptrs /\ NoPrev.type = "PAGE" /\ NoPrev.ref = Null
    /\ \A w \in Words : w.n \in Nat
<1>1. Null \in Refs /\ "PAGE" \in Kinds
  BY RefsApart DEF Kinds
<1> QED
  BY <1>1 DEF Ptr, Ptrs, Run, Start, Cut, Busy, Words, NoPrev

-------------------------------------------------------------------------------
(* What the list functions do to the four words.                             *)

Parts(nx, pv, sl, pf) == [next |-> nx, prev |-> pv, slab |-> sl, pfree |-> pf]

\* A heap is its four parts.
LEMMA HeapParts ==
    ASSUME NEW h \in Heaps
    PROVE  /\ h.next \in [Pages \cup Heads -> Refs] /\ h.prev \in [Pages -> Ptrs]
           /\ h.slab \in [Pages -> Words] /\ h.pfree \in Int
           /\ h = Parts(h.next, h.prev, h.slab, h.pfree)
BY DEF Heaps, Parts

\* Parts make a heap.
LEMMA PartsHeap ==
    ASSUME NEW nx \in [Pages \cup Heads -> Refs], NEW pv \in [Pages -> Ptrs],
           NEW sl \in [Pages -> Words], NEW pf \in Int
    PROVE  /\ Parts(nx, pv, sl, pf) \in Heaps
           /\ Parts(nx, pv, sl, pf).next = nx /\ Parts(nx, pv, sl, pf).prev = pv
           /\ Parts(nx, pv, sl, pf).slab = sl /\ Parts(nx, pv, sl, pf).pfree = pf
BY DEF Heaps, Parts

PrevSet(pv, r, ptr) == IF r \in Pages THEN [pv EXCEPT ![r] = ptr] ELSE pv

\* A back pointer is set, unless in a head.
LEMMA SetPrevParts ==
    ASSUME NEW nx, NEW pv, NEW sl, NEW pf, NEW r, NEW ptr
    PROVE  SetPrev(Parts(nx, pv, sl, pf), r, ptr) = Parts(nx, PrevSet(pv, r, ptr), sl, pf)
BY DEF SetPrev, Parts, PrevSet

\* The links that Unlink sets.
LEMMA UnlinkParts ==
    ASSUME NEW nx, NEW pv, NEW sl, NEW pf, NEW p
    PROVE  Unlink(Parts(nx, pv, sl, pf), p) =
             Parts([nx EXCEPT ![pv[p].ref] = nx[p]], PrevSet(pv, nx[p], pv[p]), sl, pf)
<1> DEFINE h == Parts(nx, pv, sl, pf)
<1>1. [h EXCEPT !.next[h.prev[p].ref] = h.next[p]] = Parts([nx EXCEPT ![pv[p].ref] = nx[p]], pv, sl, pf)
  BY DEF Parts
<1>2. h.next[p] = nx[p] /\ h.prev[p] = pv[p]
  BY DEF Parts
<1> DEFINE nx2 == [nx EXCEPT ![pv[p].ref] = nx[p]]
           t == nx[p]
           x == pv[p]
<1> HIDE DEF h
<1>3. Unlink(h, p) = SetPrev(Parts(nx2, pv, sl, pf), t, x)
  BY <1>1, <1>2 DEF Unlink
<1> HIDE DEF nx2, t, x
<1>4. SetPrev(Parts(nx2, pv, sl, pf), t, x) = Parts(nx2, PrevSet(pv, t, x), sl, pf)
  BY SetPrevParts
<1> QED
  BY <1>3, <1>4 DEF h, nx2, t, x

\* The links that Push sets.
PushNext(nx, head, p) == [nx EXCEPT ![p] = nx[head], ![head] = p]
PushPrev(nx, pv, head, p, t) ==
    [PrevSet(pv, nx[head], Ptr(p, t)) EXCEPT ![p] = Ptr(head, t)]

LEMMA PushParts ==
    ASSUME NEW nx, NEW pv, NEW sl, NEW pf, NEW head, NEW p, NEW t
    PROVE  Push(Parts(nx, pv, sl, pf), head, p, t) =
             Parts(PushNext(nx, head, p), PushPrev(nx, pv, head, p, t), sl, pf)
<1> DEFINE h == Parts(nx, pv, sl, pf)
           g == Parts(nx, PrevSet(pv, nx[head], Ptr(p, t)), sl, pf)
<1>1. h.next[head] = nx[head]
  BY DEF Parts
<1>2. SetPrev(h, h.next[head], Ptr(p, t)) = g
  BY <1>1, SetPrevParts
<1>3. Push(h, head, p, t) = [g EXCEPT !.next = [@ EXCEPT ![p] = h.next[head], ![head] = p],
                                      !.prev[p] = Ptr(head, t)]
  <2> HIDE DEF h, g
  <2> QED
    BY <1>2 DEF Push
<1> QED
  BY <1>1, <1>3 DEF Parts, PushNext, PushPrev

-------------------------------------------------------------------------------
(* The lists.                                                                *)

\* What the links of a page in a list say.
LEMMA LinksOf ==
    ASSUME NEW nx, NEW pv, NEW own, NEW rk,
           Linked(nx, pv, own, rk), NEW p \in Pages, own[p] # Null
    PROVE  /\ LinkedTypes(nx, pv, own, rk)
           /\ pv[p].ref \in Pages \cup Heads /\ pv[p].ref # p
           /\ own[pv[p].ref] = own[p] /\ nx[pv[p].ref] = p
           /\ pv[p].type = KindIn(own[p]) /\ rk[p] < rk[pv[p].ref]
           /\ nx[p] \in Pages \cup Heads /\ nx[p] # p
           /\ own[nx[p]] = own[p]
           /\ nx[p] \in Pages => pv[nx[p]].ref = p /\ nx[p] # pv[p].ref
           /\ nx[p] \in Heads => nx[p] = own[p]
<1> DEFINE a == pv[p].ref
           b == nx[p]
<1>0. /\ nx \in [Pages \cup Heads -> Refs] /\ pv \in [Pages -> Ptrs]
      /\ own \in [Pages \cup Heads -> Heads \cup {Null}] /\ \A r \in Heads : own[r] = r
      /\ rk \in [Pages \cup Heads -> Nat]
  BY DEF Linked, LinkedTypes, Owners
<1>1. /\ a \in Pages \cup Heads /\ own[a] = own[p] /\ nx[a] = p
      /\ pv[p].type = KindIn(own[p]) /\ rk[p] < rk[a]
  BY DEF Linked
<1>2. p \in Pages \cup Heads /\ p \notin Heads
  BY RefsApart
<1>3. b = own[p] \/ (b \in Pages /\ own[b] = own[p] /\ pv[b].ref = p)
  BY <1>2 DEF Linked
<1>4. own[p] \in Heads /\ own[own[p]] = own[p] /\ own[p] \notin Pages
  BY <1>0, <1>2, RefsApart
<1>5. \A r \in Pages \cup Heads : rk[r] \in Nat
  BY <1>0
<1>6. a # p
  BY <1>1, <1>2, <1>5
<1>7. b \in Pages => rk[b] < rk[pv[b].ref]
  <2>1. SUFFICES ASSUME b \in Pages PROVE rk[b] < rk[pv[b].ref]
    OBVIOUS
  <2>2. own[b] # Null
    BY <1>3, <1>4, <2>1
  <2> HIDE DEF b
  <2> QED
    BY <2>1, <2>2 DEF Linked
<1> HIDE DEF a, b
<1>8. CASE b = own[p]
  <2>1. b \in Heads /\ b \notin Pages /\ own[b] = own[p] /\ b # p
    BY <1>2, <1>4, <1>8
  <2> QED
    BY <1>1, <1>6, <1>8, <2>1 DEF a, b, Linked
<1>9. CASE b # own[p]
  <2>1. b \in Pages /\ own[b] = own[p] /\ pv[b].ref = p
    BY <1>3, <1>9
  <2>2. rk[b] < rk[p]
    BY <1>7, <2>1
  <2>3. b # p /\ b # a /\ b \notin Heads
    BY <1>1, <1>5, <2>1, <2>2, RefsApart
  <2> QED
    BY <1>1, <1>6, <2>1, <2>3 DEF a, b, Linked
<1> QED
  BY <1>8, <1>9

\* The links behind a head.
LEMMA LinksOfHead ==
    ASSUME NEW nx, NEW pv, NEW own, NEW rk, Linked(nx, pv, own, rk), NEW head \in Heads
    PROVE  \/ nx[head] = head
           \/ nx[head] \in Pages /\ own[nx[head]] = head /\ pv[nx[head]].ref = head
<1>1. own[head] = head /\ head # Null /\ head \in Pages \cup Heads
  BY RefsApart DEF Owners, Linked, LinkedTypes
<1> QED
  BY <1>1 DEF Linked

\* Lists only depend on the links of their own pages.
LEMMA LinkedSame ==
    ASSUME NEW nx, NEW pv, NEW own, NEW rk, Linked(nx, pv, own, rk),
           NEW nx2 \in [Pages \cup Heads -> Refs], NEW pv2 \in [Pages -> Ptrs],
           \A r \in Pages \cup Heads : own[r] # Null => nx2[r] = nx[r],
           \A r \in Pages : own[r] # Null => pv2[r] = pv[r]
    PROVE  Linked(nx2, pv2, own, rk)
<1>1. ASSUME NEW r \in Pages \cup Heads, own[r] # Null
      PROVE  \/ nx2[r] = own[r]
             \/ nx2[r] \in Pages /\ own[nx2[r]] = own[r] /\ pv2[nx2[r]].ref = r
  <2>1. nx2[r] = nx[r]
    BY <1>1
  <2>2. nx[r] = own[r] \/ (nx[r] \in Pages /\ own[nx[r]] = own[r] /\ pv[nx[r]].ref = r)
    BY <1>1 DEF Linked
  <2>3. ASSUME nx[r] \in Pages, own[nx[r]] = own[r] PROVE pv2[nx[r]] = pv[nx[r]]
    BY <1>1, <2>3
  <2> QED
    BY <2>1, <2>2, <2>3
<1>2. ASSUME NEW p \in Pages, own[p] # Null
      PROVE  /\ pv2[p].ref \in Pages \cup Heads
             /\ own[pv2[p].ref] = own[p]
             /\ nx2[pv2[p].ref] = p
             /\ pv2[p].type = KindIn(own[p])
             /\ rk[p] < rk[pv2[p].ref]
  <2>1. pv2[p] = pv[p]
    BY <1>2
  <2>2. /\ pv[p].ref \in Pages \cup Heads
        /\ own[pv[p].ref] = own[p]
        /\ nx[pv[p].ref] = p
        /\ pv[p].type = KindIn(own[p])
        /\ rk[p] < rk[pv[p].ref]
    BY <1>2 DEF Linked
  <2> QED
    BY <1>2, <2>1, <2>2
<1>3. LinkedTypes(nx2, pv2, own, rk)
  BY DEF Linked, LinkedTypes
<1> QED
  BY <1>1, <1>2, <1>3 DEF Linked

\* A page leaves its list.
LEMMA LinkedUnlink ==
    ASSUME NEW nx, NEW pv, NEW own, NEW rk,
           Linked(nx, pv, own, rk), NEW p \in Pages, own[p] # Null
    PROVE  Linked([nx EXCEPT ![pv[p].ref] = nx[p]], PrevSet(pv, nx[p], pv[p]),
                  [own EXCEPT ![p] = Null], rk)
<1>0. /\ nx \in [Pages \cup Heads -> Refs] /\ pv \in [Pages -> Ptrs]
      /\ own \in [Pages \cup Heads -> Heads \cup {Null}] /\ \A r \in Heads : own[r] = r
      /\ rk \in [Pages \cup Heads -> Nat]
  BY DEF Linked, LinkedTypes, Owners
<1> DEFINE a == pv[p].ref
           b == nx[p]
<1>1. /\ a \in Pages \cup Heads /\ a # p /\ own[a] = own[p] /\ nx[a] = p
      /\ pv[p].type = KindIn(own[p]) /\ rk[p] < rk[a]
      /\ b \in Pages \cup Heads /\ b # p /\ own[b] = own[p]
      /\ b \in Pages => pv[b].ref = p /\ b # a
      /\ b \in Heads => b = own[p]
  <2>1. /\ pv[p].ref \in Pages \cup Heads /\ pv[p].ref # p
        /\ own[pv[p].ref] = own[p] /\ nx[pv[p].ref] = p
        /\ pv[p].type = KindIn(own[p]) /\ rk[p] < rk[pv[p].ref]
        /\ nx[p] \in Pages \cup Heads /\ nx[p] # p
        /\ own[nx[p]] = own[p]
        /\ nx[p] \in Pages => pv[nx[p]].ref = p /\ nx[p] # pv[p].ref
        /\ nx[p] \in Heads => nx[p] = own[p]
    BY LinksOf
  <2> QED
    BY <2>1
<1> DEFINE nx2 == [nx EXCEPT ![a] = b]
           pv2 == PrevSet(pv, b, pv[p])
           own2 == [own EXCEPT ![p] = Null]
<1>2. p \in Pages \cup Heads /\ own[p] # Null
  OBVIOUS
<1>3. nx2[a] = b /\ \A r \in Pages \cup Heads : r # a => nx2[r] = nx[r]
  BY <1>0, <1>1
<1>4. /\ b \in Pages => pv2[b] = pv[p]
      /\ \A r \in Pages : r # b => pv2[r] = pv[r]
  BY <1>0 DEF PrevSet
<1>5. own2[p] = Null /\ \A r \in Pages \cup Heads : r # p => own2[r] = own[r]
  BY <1>0
<1>6. \A r \in Pages \cup Heads : rk[r] \in Nat
  BY <1>0
<1>11. LinkedTypes(nx2, pv2, own2, rk)
  <2>1. nx2 \in [Pages \cup Heads -> Refs]
    BY <1>0, <1>1 DEF Refs
  <2>2. pv2 \in [Pages -> Ptrs]
    BY <1>0 DEF PrevSet
  <2>3. own2 \in Owners
    BY <1>0, RefsApart DEF Owners
  <2> QED
    BY <1>0, <2>1, <2>2, <2>3 DEF LinkedTypes
<1>7. a = pv[p].ref /\ b = nx[p]
  OBVIOUS
<1> HIDE DEF a, b, nx2, pv2, own2
<1>8. ASSUME NEW r \in Pages \cup Heads, own2[r] # Null
      PROVE  \/ nx2[r] = own2[r]
             \/ nx2[r] \in Pages /\ own2[nx2[r]] = own2[r] /\ pv2[nx2[r]].ref = r
  <2>1. r # p /\ own2[r] = own[r] /\ own[r] # Null
    BY <1>2, <1>5, <1>8
  <2>2. CASE r = a
    <3>1. CASE b \in Heads
      BY <1>1, <1>3, <2>1, <2>2, <3>1
    <3>2. CASE b \in Pages
      BY <1>1, <1>3, <1>4, <1>5, <1>7, <2>1, <2>2, <3>2
    <3> QED
      BY <1>1, <3>1, <3>2
  <2>3. CASE r # a
    <3>1. nx2[r] = nx[r]
      BY <1>3, <2>3
    <3>2. CASE nx[r] = own[r]
      BY <2>1, <3>1, <3>2
    <3>3. CASE nx[r] # own[r]
      <4> DEFINE x == nx[r]
      <4>1. x \in Pages /\ own[x] = own[r] /\ pv[x].ref = r
        BY <2>1, <3>3 DEF Linked
      <4>2. x # p /\ x # b
        BY <1>1, <1>7, <2>1, <2>3, <4>1
      <4> HIDE DEF x
      <4>3. own2[x] = own[x] /\ pv2[x] = pv[x]
        BY <1>4, <1>5, <4>1, <4>2
      <4> QED
        BY <2>1, <3>1, <4>1, <4>3 DEF x
    <3> QED
      BY <3>2, <3>3
  <2> QED
    BY <2>2, <2>3
<1>9. ASSUME NEW x \in Pages, own2[x] # Null
      PROVE  /\ pv2[x].ref \in Pages \cup Heads
             /\ own2[pv2[x].ref] = own2[x]
             /\ nx2[pv2[x].ref] = x
             /\ pv2[x].type = KindIn(own2[x])
             /\ rk[x] < rk[pv2[x].ref]
  <2>1. x # p /\ own2[x] = own[x] /\ own[x] # Null
    BY <1>2, <1>5, <1>9
  <2> DEFINE y == pv[x].ref
  <2>2. /\ y \in Pages \cup Heads /\ own[y] = own[x] /\ nx[y] = x
        /\ pv[x].type = KindIn(own[x]) /\ rk[x] < rk[y]
    BY <2>1 DEF Linked
  <2>3. y = pv[x].ref
    OBVIOUS
  <2> HIDE DEF y
  <2>4. CASE x = b
    <3>1. b \in Pages /\ y = p
      BY <1>1, <2>3, <2>4
    <3>2. pv2[x] = pv[p] /\ pv2[x].ref = a /\ own2[a] = own[a]
      BY <1>1, <1>4, <1>5, <1>7, <2>4, <3>1
    <3>3. rk[x] < rk[a]
      BY <1>1, <1>6, <1>2, <2>2, <3>1
    <3> QED
      BY <1>1, <1>3, <2>1, <2>4, <3>2, <3>3
  <2>5. CASE x # b
    <3>1. pv2[x] = pv[x] /\ y # p /\ y # a
      BY <1>1, <1>4, <1>7, <2>1, <2>2, <2>5
    <3>2. nx2[y] = nx[y] /\ own2[y] = own[y]
      BY <1>3, <1>5, <2>2, <3>1
    <3> QED
      BY <2>1, <2>2, <2>3, <3>1, <3>2
  <2> QED
    BY <2>4, <2>5
<1>10. Linked(nx2, pv2, own2, rk)
  BY <1>8, <1>9, <1>11 DEF Linked
<1> QED
  BY <1>10 DEF a, b, nx2, pv2, own2

\* A page that is in no list is chained in front of one.
LEMMA LinkedPush ==
    ASSUME NEW nx, NEW pv, NEW own, NEW rk,
           Linked(nx, pv, own, rk), NEW p \in Pages, own[p] = Null, NEW head \in Heads
    PROVE  Linked([nx EXCEPT ![p] = nx[head], ![head] = p],
                  [PrevSet(pv, nx[head], Ptr(p, KindIn(head))) EXCEPT
                      ![p] = Ptr(head, KindIn(head))],
                  [own EXCEPT ![p] = head],
                  [rk EXCEPT ![p] = rk[head], ![head] = rk[head] + 1])
<1>0. /\ nx \in [Pages \cup Heads -> Refs] /\ pv \in [Pages -> Ptrs]
      /\ own \in [Pages \cup Heads -> Heads \cup {Null}] /\ \A r \in Heads : own[r] = r
      /\ rk \in [Pages \cup Heads -> Nat]
  BY DEF Linked, LinkedTypes, Owners
<1> DEFINE b == nx[head]
           t == KindIn(head)
           front == Ptr(p, t)
           back == Ptr(head, t)
<1>1. /\ b = head \/ (b \in Pages /\ own[b] = head /\ pv[b].ref = head)
      /\ p \notin Heads /\ head \notin Pages /\ p # head
      /\ own[head] = head /\ head # Null
  BY <1>0, LinksOfHead, RefsApart
<1>2. /\ front \in Ptrs /\ front.ref = p /\ front.type = t
      /\ back \in Ptrs /\ back.ref = head /\ back.type = t
  <2>1. t \in Kinds /\ p \in Refs /\ head \in Refs
    BY KindsApart DEF KindIn, Kinds, Refs
  <2> QED
    BY <2>1, WordsTyped
<1>3. b # p /\ (b \in Pages => rk[b] < rk[head] /\ pv[b].type = t)
  <2>1. b # p
    BY <1>1
  <2>2. ASSUME b \in Pages PROVE rk[b] < rk[pv[b].ref] /\ pv[b].type = KindIn(own[b])
    <3>1. own[b] # Null
      BY <1>1, <2>2
    <3> HIDE DEF b
    <3> QED
      BY <2>2, <3>1 DEF Linked
  <2>3. b \in Pages => b # head
    BY <1>1
  <2> QED
    BY <1>1, <2>1, <2>2, <2>3
<1> DEFINE nx2 == [nx EXCEPT ![p] = b, ![head] = p]
           pv2 == [PrevSet(pv, b, front) EXCEPT ![p] = back]
           own2 == [own EXCEPT ![p] = head]
           rk2 == [rk EXCEPT ![p] = rk[head], ![head] = rk[head] + 1]
<1> HIDE DEF t, front, back
<1>4. /\ nx2[head] = p /\ nx2[p] = b
      /\ \A r \in Pages \cup Heads : r # p /\ r # head => nx2[r] = nx[r]
  BY <1>0, <1>1
<1>5. /\ pv2[p] = back /\ (b \in Pages => pv2[b] = front)
      /\ \A r \in Pages : r # p /\ r # b => pv2[r] = pv[r]
  BY <1>0, <1>3 DEF PrevSet
<1>6. own2[p] = head /\ \A r \in Pages \cup Heads : r # p => own2[r] = own[r]
  BY <1>0
<1>7. /\ rk2[p] = rk[head] /\ rk2[head] = rk[head] + 1
      /\ \A r \in Pages \cup Heads : r # p /\ r # head => rk2[r] = rk[r]
      /\ \A r \in Pages \cup Heads : rk[r] \in Nat
  BY <1>0, <1>1
<1>8. LinkedTypes(nx2, pv2, own2, rk2)
  <2>1. b \in Refs /\ p \in Refs
    BY <1>0 DEF Refs
  <2>2. nx2 \in [Pages \cup Heads -> Refs]
    BY <1>0, <2>1
  <2>3. pv2 \in [Pages -> Ptrs]
    BY <1>0, <1>2 DEF PrevSet
  <2>4. own2 \in Owners
    BY <1>0, <1>1 DEF Owners
  <2>5. rk2 \in [Pages \cup Heads -> Nat]
    BY <1>0, <1>7
  <2> QED
    BY <2>2, <2>3, <2>4, <2>5 DEF LinkedTypes
<1>9. b = nx[head] /\ t = KindIn(head)
  BY DEF t
<1> HIDE DEF b, nx2, pv2, own2, rk2
<1>10. ASSUME NEW r \in Pages \cup Heads, own2[r] # Null
       PROVE  \/ nx2[r] = own2[r]
              \/ nx2[r] \in Pages /\ own2[nx2[r]] = own2[r] /\ pv2[nx2[r]].ref = r
  <2>1. CASE r = p
    <3>1. CASE b = head
      BY <1>4, <1>6, <2>1, <3>1
    <3>2. CASE b # head
      BY <1>1, <1>2, <1>3, <1>4, <1>5, <1>6, <2>1, <3>2
    <3> QED
      BY <3>1, <3>2
  <2>2. CASE r = head
    BY <1>1, <1>2, <1>4, <1>5, <1>6, <2>2
  <2>3. CASE r # p /\ r # head
    <3>1. nx2[r] = nx[r] /\ own2[r] = own[r] /\ own[r] # Null
      BY <1>4, <1>6, <1>10, <2>3
    <3>2. CASE nx[r] = own[r]
      BY <3>1, <3>2
    <3>3. CASE nx[r] # own[r]
      <4> DEFINE x == nx[r]
      <4>1. x \in Pages /\ own[x] = own[r] /\ pv[x].ref = r
        BY <3>1, <3>3 DEF Linked
      <4>2. x # p /\ x # b
        BY <1>1, <2>3, <3>1, <4>1
      <4> HIDE DEF x
      <4>3. own2[x] = own[x] /\ pv2[x] = pv[x]
        BY <1>5, <1>6, <4>1, <4>2
      <4> QED
        BY <3>1, <4>1, <4>3 DEF x
    <3> QED
      BY <3>2, <3>3
  <2> QED
    BY <2>1, <2>2, <2>3
<1>11. ASSUME NEW x \in Pages, own2[x] # Null
       PROVE  /\ pv2[x].ref \in Pages \cup Heads
              /\ own2[pv2[x].ref] = own2[x]
              /\ nx2[pv2[x].ref] = x
              /\ pv2[x].type = KindIn(own2[x])
              /\ rk2[x] < rk2[pv2[x].ref]
  <2>1. CASE x = p
    <3>1. pv2[x] = back /\ own2[head] = head
      BY <1>1, <1>5, <1>6, <2>1
    <3> QED
      BY <1>2, <1>4, <1>6, <1>7, <1>9, <2>1, <3>1
  <2>2. CASE x = b
    <3>1. pv2[x] = front /\ own2[x] = head /\ x # head
      BY <1>1, <1>3, <1>5, <1>6, <2>2
    <3>2. rk2[x] = rk[x] /\ rk[x] < rk2[p]
      BY <1>1, <1>3, <1>7, <2>2, <3>1
    <3> QED
      BY <1>2, <1>4, <1>6, <1>9, <2>2, <3>1, <3>2
  <2>3. CASE x # p /\ x # b
    <3> DEFINE y == pv[x].ref
    <3>1. own2[x] = own[x] /\ own[x] # Null /\ pv2[x] = pv[x]
      BY <1>5, <1>6, <1>11, <2>3
    <3>2. /\ y \in Pages \cup Heads /\ own[y] = own[x] /\ nx[y] = x
          /\ pv[x].type = KindIn(own[x]) /\ rk[x] < rk[y]
      BY <3>1 DEF Linked
    <3>3. y # p /\ y # head /\ x # head
      BY <1>1, <1>9, <2>3, <3>1, <3>2
    <3>4. y = pv2[x].ref
      BY <3>1
    <3> HIDE DEF y
    <3>5. nx2[y] = nx[y] /\ own2[y] = own[y] /\ rk2[y] = rk[y] /\ rk2[x] = rk[x]
      BY <1>4, <1>6, <1>7, <2>3, <3>2, <3>3
    <3> QED
      BY <3>1, <3>2, <3>4, <3>5
  <2> QED
    BY <2>1, <2>2, <2>3
<1>12. Linked(nx2, pv2, own2, rk2)
  BY <1>8, <1>10, <1>11 DEF Linked
<1> QED
  BY <1>12 DEF b, t, front, back, nx2, pv2, own2, rk2

\* A page that is in no list takes the place of one in a list.
LEMMA LinkedReplace ==
    ASSUME NEW nx, NEW pv, NEW own, NEW rk,
           Linked(nx, pv, own, rk), NEW p \in Pages, own[p] # Null,
           NEW q \in Pages, own[q] = Null
    PROVE  Linked([[nx EXCEPT ![q] = nx[p]] EXCEPT ![pv[p].ref] = q],
                  PrevSet([pv EXCEPT ![q] = pv[p]], nx[p], Ptr(q, KindIn(own[p]))),
                  [own EXCEPT ![p] = Null, ![q] = own[p]],
                  [rk EXCEPT ![q] = rk[p]])
<1>0. /\ nx \in [Pages \cup Heads -> Refs] /\ pv \in [Pages -> Ptrs]
      /\ own \in [Pages \cup Heads -> Heads \cup {Null}] /\ \A r \in Heads : own[r] = r
      /\ rk \in [Pages \cup Heads -> Nat]
  BY DEF Linked, LinkedTypes, Owners
<1> DEFINE a == pv[p].ref
           b == nx[p]
           o == own[p]
           fresh == Ptr(q, KindIn(o))
<1>1. /\ a \in Pages \cup Heads /\ a # p /\ own[a] = o /\ nx[a] = p
      /\ pv[p].type = KindIn(o) /\ rk[p] < rk[a]
      /\ b \in Pages \cup Heads /\ b # p /\ own[b] = o
      /\ b \in Pages => pv[b].ref = p /\ b # a
      /\ b \in Heads => b = o
  <2>1. /\ pv[p].ref \in Pages \cup Heads /\ pv[p].ref # p
        /\ own[pv[p].ref] = own[p] /\ nx[pv[p].ref] = p
        /\ pv[p].type = KindIn(own[p]) /\ rk[p] < rk[pv[p].ref]
        /\ nx[p] \in Pages \cup Heads /\ nx[p] # p
        /\ own[nx[p]] = own[p]
        /\ nx[p] \in Pages => pv[nx[p]].ref = p /\ nx[p] # pv[p].ref
        /\ nx[p] \in Heads => nx[p] = own[p]
    BY LinksOf
  <2> QED
    BY <2>1
<1>2. /\ o \in Heads /\ o # Null /\ o \notin Pages /\ p \notin Heads /\ q \notin Heads
      /\ q # p /\ q # a /\ q # b
  BY <1>0, <1>1, RefsApart
<1>3. fresh \in Ptrs /\ fresh.ref = q /\ fresh.type = KindIn(o)
  <2>1. KindIn(o) \in Kinds /\ q \in Refs
    BY KindsApart DEF KindIn, Kinds, Refs
  <2> QED
    BY <2>1, WordsTyped
<1> DEFINE nx2 == [[nx EXCEPT ![q] = b] EXCEPT ![a] = q]
           pv2 == PrevSet([pv EXCEPT ![q] = pv[p]], b, fresh)
           own2 == [own EXCEPT ![p] = Null, ![q] = o]
           rk2 == [rk EXCEPT ![q] = rk[p]]
<1>4. a = pv[p].ref /\ b = nx[p] /\ o = own[p]
  OBVIOUS
<1> HIDE DEF a, b, o, fresh
<1>5. /\ nx2[a] = q /\ nx2[q] = b
      /\ \A r \in Pages \cup Heads : r # q /\ r # a => nx2[r] = nx[r]
  BY <1>0, <1>1, <1>2
<1>6. /\ pv2[q] = pv[p] /\ (b \in Pages => pv2[b] = fresh)
      /\ \A r \in Pages : r # q /\ r # b => pv2[r] = pv[r]
  BY <1>0, <1>2 DEF PrevSet
<1>7. /\ own2[p] = Null /\ own2[q] = o
      /\ \A r \in Pages \cup Heads : r # p /\ r # q => own2[r] = own[r]
  BY <1>0, <1>2
<1>8. /\ rk2[q] = rk[p] /\ \A r \in Pages \cup Heads : r # q => rk2[r] = rk[r]
      /\ \A r \in Pages \cup Heads : rk[r] \in Nat
  BY <1>0
<1>9. LinkedTypes(nx2, pv2, own2, rk2)
  <2>1. b \in Refs /\ q \in Refs
    BY <1>1 DEF Refs
  <2>2. nx2 \in [Pages \cup Heads -> Refs]
    BY <1>0, <2>1
  <2>3. pv2 \in [Pages -> Ptrs]
    BY <1>0, <1>3 DEF PrevSet
  <2>4. own2 \in Owners
    BY <1>0, <1>2 DEF Owners
  <2>5. rk2 \in [Pages \cup Heads -> Nat]
    BY <1>0
  <2> QED
    BY <2>2, <2>3, <2>4, <2>5 DEF LinkedTypes
<1> HIDE DEF nx2, pv2, own2, rk2
<1>10. ASSUME NEW r \in Pages \cup Heads, own2[r] # Null
       PROVE  \/ nx2[r] = own2[r]
              \/ nx2[r] \in Pages /\ own2[nx2[r]] = own2[r] /\ pv2[nx2[r]].ref = r
  <2>1. CASE r = q
    <3>1. CASE b \in Heads
      BY <1>1, <1>5, <1>7, <2>1, <3>1
    <3>2. CASE b \in Pages
      <4>1. own2[b] = o
        BY <1>1, <1>2, <1>7, <3>2
      <4> QED
        BY <1>3, <1>5, <1>6, <1>7, <2>1, <3>2, <4>1
    <3> QED
      BY <1>1, <3>1, <3>2
  <2>2. CASE r = a
    <3>1. own2[r] = o
      BY <1>1, <1>2, <1>7, <2>2
    <3> QED
      BY <1>4, <1>5, <1>6, <1>7, <2>2, <3>1
  <2>3. CASE r # q /\ r # a
    <3>1. nx2[r] = nx[r] /\ own2[r] = own[r] /\ own[r] # Null /\ r # p
      BY <1>5, <1>7, <1>10, <2>3
    <3>2. CASE nx[r] = own[r]
      BY <3>1, <3>2
    <3>3. CASE nx[r] # own[r]
      <4> DEFINE x == nx[r]
      <4>1. x \in Pages /\ own[x] = own[r] /\ pv[x].ref = r
        BY <3>1, <3>3 DEF Linked
      <4>2. x # p /\ x # q /\ x # b
        BY <1>1, <1>2, <1>4, <2>3, <3>1, <4>1
      <4> HIDE DEF x
      <4>3. own2[x] = own[x] /\ pv2[x] = pv[x]
        BY <1>6, <1>7, <4>1, <4>2
      <4> QED
        BY <3>1, <4>1, <4>3 DEF x
    <3> QED
      BY <3>2, <3>3
  <2> QED
    BY <2>1, <2>2, <2>3
<1>11. ASSUME NEW x \in Pages, own2[x] # Null
       PROVE  /\ pv2[x].ref \in Pages \cup Heads
              /\ own2[pv2[x].ref] = own2[x]
              /\ nx2[pv2[x].ref] = x
              /\ pv2[x].type = KindIn(own2[x])
              /\ rk2[x] < rk2[pv2[x].ref]
  <2>1. CASE x = q
    <3>1. pv2[x].ref = a /\ pv2[x].type = KindIn(o) /\ own2[a] = o /\ own2[x] = o
      BY <1>1, <1>2, <1>4, <1>6, <1>7, <2>1
    <3>2. rk2[x] = rk[p] /\ rk2[a] = rk[a]
      BY <1>1, <1>2, <1>8, <2>1
    <3> QED
      BY <1>1, <1>5, <2>1, <3>1, <3>2
  <2>2. CASE x = b
    <3>1. pv2[x] = fresh /\ own2[x] = o /\ own2[q] = o
      BY <1>1, <1>2, <1>6, <1>7, <2>2
    <3>2. rk2[x] = rk[x] /\ rk2[q] = rk[p]
      BY <1>2, <1>8, <2>2
    <3>3. rk[x] < rk[pv[x].ref] /\ pv[x].ref = p
      <4>1. own[x] # Null
        BY <1>1, <1>2, <2>2
      <4> QED
        BY <1>1, <2>2, <4>1 DEF Linked
    <3> QED
      BY <1>3, <1>5, <2>2, <3>1, <3>2, <3>3
  <2>3. CASE x # q /\ x # b
    <3> DEFINE y == pv[x].ref
    <3>1. x # p /\ own2[x] = own[x] /\ own[x] # Null /\ pv2[x] = pv[x]
      BY <1>6, <1>7, <1>11, <2>3
    <3>2. /\ y \in Pages \cup Heads /\ own[y] = own[x] /\ nx[y] = x
          /\ pv[x].type = KindIn(own[x]) /\ rk[x] < rk[y]
      BY <3>1 DEF Linked
    <3>3. y # p /\ y # q /\ y # a
      BY <1>1, <1>4, <2>3, <3>1, <3>2
    <3>4. y = pv2[x].ref
      BY <3>1
    <3> HIDE DEF y
    <3>5. nx2[y] = nx[y] /\ own2[y] = own[y] /\ rk2[y] = rk[y] /\ rk2[x] = rk[x]
      BY <1>5, <1>7, <1>8, <2>3, <3>2, <3>3
    <3> QED
      BY <3>1, <3>2, <3>4, <3>5
  <2> QED
    BY <2>1, <2>2, <2>3
<1>12. Linked(nx2, pv2, own2, rk2)
  BY <1>9, <1>10, <1>11 DEF Linked
<1> QED
  BY <1>12 DEF a, b, o, fresh, nx2, pv2, own2, rk2

-------------------------------------------------------------------------------
(* The tiling of the pages.                                                  *)

\* A page word is of one kind.
LEMMA WordKinds ==
    /\ \A w \in Words : /\ Spans(w) => ~Inner(w) /\ w.tag # "cut" /\ w.n \in Nat \ {0}
                        /\ Inner(w) => w.tag # "cut" /\ ~IsRun(w) /\ ~Spans(w) /\ w.n = 0
                        /\ w.tag = "cut" => ~IsRun(w)
                        /\ IsRun(w) <=> Spans(w) /\ w.tag = "run"
                        /\ Inner(w) => (w.tag = "run" <=> w = Run(0))
    /\ \A n \in Nat \ {0} : IsRun(Run(n)) /\ Spans(Run(n)) /\ Spans(Start(n)) /\ ~IsRun(Start(n))
                            /\ Further(Run(n)) = Run(0) /\ Further(Start(n)) = Busy
    /\ Inner(Run(0)) /\ Inner(Busy) /\ ~IsRun(Run(0)) /\ ~IsRun(Busy)
    /\ \A n \in Nat : ~IsRun(Cut(n)) /\ ~Spans(Cut(n)) /\ ~Inner(Cut(n))
    /\ \A w : Inner(Further(w))
BY DEF Spans, Inner, IsRun, Further, Run, Start, Busy, Cut, Words

\* The pages of a run or block are its own.
LEMMA SpanOf ==
    ASSUME NEW s \in [Pages -> Words], Tiled(s), NEW p \in Pages, Spans(s[p])
    PROVE  /\ s[p].n \in Nat \ {0} /\ p + s[p].n <= NPages
           /\ \A q \in p + 1 .. p + s[p].n - 1 :
                 q \in Pages /\ s[q] = Further(s[p]) /\ Inner(s[q])
           /\ \A q \in Pages : ~Inner(s[q]) /\ p < q => p + s[p].n <= q
<1>1. s[p].n \in Nat \ {0} /\ p + s[p].n <= NPages
  BY WordKinds DEF Tiled
<1>2. ASSUME NEW q \in p + 1 .. p + s[p].n - 1
      PROVE  q \in Pages /\ s[q] = Further(s[p]) /\ Inner(s[q])
  <2>1. s[q] = Further(s[p])
    BY DEF Tiled
  <2>2. q \in Pages
    BY <1>1, SlabAssumption DEF Pages
  <2> QED
    BY <2>1, <2>2, WordKinds
<1>3. ASSUME NEW q \in Pages, ~Inner(s[q]), p < q PROVE p + s[p].n <= q
  <2>1. q \notin p + 1 .. p + s[p].n - 1
    BY <1>2, <1>3
  <2>2. q \in Nat /\ p \in Nat
    BY RefsApart
  <2> QED
    BY <1>1, <1>3, <2>1, <2>2
<1> QED
  BY <1>1, <1>2, <1>3

\* Page x and the pages up to z are tiled on their own.
Within(s, a, z, x) ==
    \/ /\ Spans(s[x]) /\ x + s[x].n <= z
       /\ \A y \in x + 1 .. x + s[x].n - 1 : s[y] = Further(s[x])
    \/ Inner(s[x]) /\ \E w \in a .. z - 1 : Spans(s[w]) /\ w < x /\ x < w + s[w].n
    \/ s[x].tag = "cut"

\* The pages from a on up to z, which were tiled on their own, are tiled anew.
LEMMA Retiled ==
    ASSUME NEW s \in [Pages -> Words], Tiled(s), NEW s2 \in [Pages -> Words],
           NEW a \in Pages, NEW z \in 1 .. NPages, a < z,
           \A q \in Pages : q < a \/ z <= q => s2[q] = s[q],
           \A x \in Pages : Spans(s[x]) /\ x < a => x + s[x].n <= a,
           \A x \in Pages : Spans(s[x]) /\ a <= x /\ x < z => x + s[x].n <= z,
           \A x \in a .. z - 1 : Within(s2, a, z, x)
    PROVE  Tiled(s2)
<1>1. /\ NPages \in Nat \ {0} /\ a \in Nat /\ z \in Nat /\ z <= NPages
      /\ \A q \in Pages : q \in Nat
      /\ \A q \in a .. z - 1 : q \in Pages
  BY SlabAssumption DEF Pages
<1>2. \A q \in Pages : q \in a .. z - 1 \/ q < a \/ z <= q
  BY <1>1
<1>3. \A x \in Pages : s[x] \in Words /\ s[x].n \in Nat /\ s2[x] \in Words /\ s2[x].n \in Nat
  BY WordsTyped
<1>4. ASSUME NEW p \in Pages PROVE Spans(s2[p]) \/ Inner(s2[p]) \/ s2[p].tag = "cut"
  <2>1. CASE p \in a .. z - 1
    BY <2>1 DEF Within
  <2>2. CASE p < a \/ z <= p
    BY <2>2 DEF Tiled
  <2> QED
    BY <1>2, <2>1, <2>2
<1>5. ASSUME NEW p \in Pages, Spans(s2[p])
      PROVE  /\ p + s2[p].n <= NPages
             /\ \A q \in p + 1 .. p + s2[p].n - 1 : s2[q] = Further(s2[p])
  <2>1. CASE p \in a .. z - 1
    <3>1. ~Inner(s2[p]) /\ s2[p].tag # "cut"
      BY <1>3, <1>5, WordKinds
    <3>2. /\ p + s2[p].n <= z
          /\ \A y \in p + 1 .. p + s2[p].n - 1 : s2[y] = Further(s2[p])
      BY <2>1, <3>1 DEF Within
    <3> QED
      BY <1>1, <1>3, <3>2
  <2>2. CASE p < a \/ z <= p
    <3>1. s2[p] = s[p] /\ Spans(s[p])
      BY <1>5, <2>2
    <3>2. /\ p + s[p].n <= NPages
          /\ \A q \in p + 1 .. p + s[p].n - 1 : q \in Pages /\ s[q] = Further(s[p])
      BY <3>1, SpanOf
    <3>3. ASSUME NEW q \in p + 1 .. p + s[p].n - 1 PROVE q < a \/ z <= q
      <4>1. p < a => p + s[p].n <= a
        BY <3>1
      <4> QED
        BY <1>1, <1>3, <2>2, <4>1
    <3>4. ASSUME NEW q \in p + 1 .. p + s[p].n - 1 PROVE s2[q] = Further(s2[p])
      BY <3>1, <3>2, <3>3
    <3> QED
      BY <3>1, <3>2, <3>4
  <2> QED
    BY <1>2, <2>1, <2>2
<1>6. ASSUME NEW q \in Pages, Inner(s2[q])
      PROVE  \E p \in Pages : Spans(s2[p]) /\ p < q /\ q < p + s2[p].n
  <2>1. CASE q \in a .. z - 1
    <3>1. ~Spans(s2[q]) /\ s2[q].tag # "cut"
      BY <1>3, <1>6, WordKinds
    <3>2. PICK w \in a .. z - 1 : Spans(s2[w]) /\ w < q /\ q < w + s2[w].n
      BY <2>1, <3>1 DEF Within
    <3> QED
      BY <1>1, <3>2
  <2>2. CASE q < a \/ z <= q
    <3>1. s2[q] = s[q]
      BY <2>2
    <3>2. PICK p \in Pages : Spans(s[p]) /\ p < q /\ q < p + s[p].n
      BY <1>6, <3>1 DEF Tiled
    <3>3. p < a \/ z <= p
      <4>1. a <= p /\ p < z => p + s[p].n <= z
        BY <3>2
      <4> QED
        BY <1>1, <1>3, <2>2, <3>2, <4>1
    <3> QED
      BY <3>2, <3>3
  <2> QED
    BY <1>2, <2>1, <2>2
<1> QED
  BY <1>4, <1>5, <1>6 DEF Tiled

\* No run or block that starts before a spanning or cut page reaches into it.
LEMMA NoneReaches ==
    ASSUME NEW s \in [Pages -> Words], Tiled(s), NEW p \in Pages, ~Inner(s[p])
    PROVE  /\ \A x \in Pages : Spans(s[x]) /\ x < p => x + s[x].n <= p
           /\ p \in Nat /\ p < NPages
<1>1. \A x \in Pages : Spans(s[x]) /\ x < p => x + s[x].n <= p
  BY SpanOf
<1> QED
  BY <1>1, RefsApart

\* The first n pages of run p become a block.
CarvedOf(s, p, n) ==
    [q \in Pages |-> IF q = p THEN Start(n)
                     ELSE IF q \in p + 1 .. p + n - 1 THEN Busy
                     ELSE IF q = p + n /\ s[p].n > n THEN Run(s[p].n - n) ELSE s[q]]

LEMMA CarvedTiled ==
    ASSUME NEW s \in [Pages -> Words], Tiled(s), NEW p \in Pages, IsRun(s[p]),
           NEW n \in 1 .. s[p].n
    PROVE  CarvedOf(s, p, n) \in [Pages -> Words] /\ Tiled(CarvedOf(s, p, n))
<1> DEFINE r == s[p].n
           s2 == CarvedOf(s, p, n)
           z == p + r
<1>1. /\ Spans(s[p]) /\ ~Inner(s[p]) /\ Further(s[p]) = Run(0)
      /\ r \in Nat \ {0} /\ z <= NPages /\ p \in Nat /\ NPages \in Nat
      /\ \A q \in p + 1 .. z - 1 : q \in Pages /\ s[q] = Run(0)
  <2>1. s[p] \in Words
    OBVIOUS
  <2>2. Spans(s[p]) /\ ~Inner(s[p]) /\ Further(s[p]) = Run(0)
    BY <2>1, WordKinds DEF Further, IsRun
  <2>3. /\ r \in Nat \ {0} /\ p + r <= NPages
        /\ \A q \in p + 1 .. p + r - 1 : q \in Pages /\ s[q] = Further(s[p])
    BY <2>2, SpanOf
  <2> QED
    BY <2>2, <2>3, RefsApart, SlabAssumption
<1>2. n \in Nat \ {0} /\ n <= r /\ (r > n => r - n \in Nat \ {0})
  BY <1>1
<1>3. s2 \in [Pages -> Words]
  BY <1>2, WordsTyped DEF CarvedOf
<1>4. /\ s2[p] = Start(n)
      /\ \A q \in Pages : q \in p + 1 .. p + n - 1 => s2[q] = Busy
      /\ r > n => s2[p + n] = Run(r - n) /\ p + n \in Pages
      /\ \A q \in Pages : q < p \/ z <= q => s2[q] = s[q]
      /\ \A q \in p + n + 1 .. z - 1 : s2[q] = Run(0)
  <2>1. s2[p] = Start(n)
    BY DEF CarvedOf
  <2>2. ASSUME NEW q \in Pages, q \in p + 1 .. p + n - 1 PROVE s2[q] = Busy
    BY <1>1, <1>2, <2>2 DEF CarvedOf
  <2>3. ASSUME r > n PROVE s2[p + n] = Run(r - n) /\ p + n \in Pages
    <3>1. p + n \in p + 1 .. z - 1 /\ p + n # p /\ p + n \notin p + 1 .. p + n - 1
      BY <1>1, <1>2, <2>3
    <3>2. p + n \in Pages
      BY <1>1, <3>1
    <3> QED
      BY <2>3, <3>1, <3>2 DEF CarvedOf
  <2>4. ASSUME NEW q \in Pages, q < p \/ z <= q PROVE s2[q] = s[q]
    <3>1. q \in Nat
      BY RefsApart
    <3>2. q # p /\ q \notin p + 1 .. p + n - 1 /\ ~(q = p + n /\ r > n)
      BY <1>1, <1>2, <2>4, <3>1
    <3> QED
      BY <3>2 DEF CarvedOf
  <2>5. ASSUME NEW q \in p + n + 1 .. z - 1 PROVE s2[q] = Run(0)
    <3>1. q \in p + 1 .. z - 1 /\ q # p /\ q \notin p + 1 .. p + n - 1 /\ q # p + n
      BY <1>1, <1>2
    <3>2. q \in Pages /\ s[q] = Run(0)
      BY <1>1, <3>1
    <3> QED
      BY <3>1, <3>2 DEF CarvedOf
  <2> QED
    BY <2>1, <2>2, <2>3, <2>4, <2>5
<1>5. ASSUME NEW x \in p .. z - 1 PROVE Within(s2, p, z, x)
  <2>1. x \in Pages
    BY <1>1
  <2>2. CASE x = p
    <3>1. Spans(Start(n)) /\ Start(n).n = n /\ Further(Start(n)) = Busy
      BY <1>2, WordKinds, WordsTyped
    <3>2. \A y \in p + 1 .. p + n - 1 : s2[y] = Busy
      BY <1>1, <1>2, <1>4
    <3> QED
      BY <1>1, <1>2, <1>4, <2>2, <3>1, <3>2 DEF Within
  <2>3. CASE x \in p + 1 .. p + n - 1
    <3>1. Spans(Start(n)) /\ Start(n).n = n /\ Inner(Busy)
      BY <1>2, WordKinds, WordsTyped
    <3>2. p \in p .. z - 1 /\ p < x /\ x < p + n
      BY <1>1, <1>2, <2>3
    <3> QED
      BY <1>4, <2>1, <2>3, <3>1, <3>2 DEF Within
  <2>4. CASE x = p + n
    <3>1. r > n
      BY <1>1, <1>2, <2>4
    <3>2. Spans(Run(r - n)) /\ Run(r - n).n = r - n /\ Further(Run(r - n)) = Run(0)
      BY <1>2, <3>1, WordKinds, WordsTyped
    <3>3. x + (r - n) = z /\ \A y \in x + 1 .. x + (r - n) - 1 : s2[y] = Run(0)
      BY <1>1, <1>2, <1>4, <2>4
    <3> QED
      BY <1>1, <1>4, <2>4, <3>1, <3>2, <3>3 DEF Within
  <2>5. CASE x \in p + n + 1 .. z - 1
    <3>1. r > n
      BY <1>1, <1>2, <2>5
    <3>2. Spans(Run(r - n)) /\ Run(r - n).n = r - n /\ Inner(Run(0))
      BY <1>2, <3>1, WordKinds, WordsTyped
    <3>3. p + n \in p .. z - 1 /\ p + n < x /\ x < (p + n) + (r - n)
      BY <1>1, <1>2, <2>5
    <3> QED
      BY <1>4, <2>5, <3>1, <3>2, <3>3 DEF Within
  <2>6. x = p \/ x \in p + 1 .. p + n - 1 \/ x = p + n \/ x \in p + n + 1 .. z - 1
    BY <1>1, <1>2
  <2> QED
    BY <2>2, <2>3, <2>4, <2>5, <2>6
<1>6. \A x \in Pages : Spans(s[x]) /\ x < p => x + s[x].n <= p
  BY <1>1, NoneReaches
<1>7. \A x \in Pages : Spans(s[x]) /\ p <= x /\ x < z => x + s[x].n <= z
  <2> SUFFICES ASSUME NEW x \in Pages, Spans(s[x]), p <= x, x < z PROVE x + s[x].n <= z
    OBVIOUS
  <2>1. x \in Nat /\ ~Inner(s[x])
    BY RefsApart, WordKinds
  <2>2. x \notin p + 1 .. z - 1
    BY <1>1, <2>1, WordKinds
  <2> QED
    BY <1>1, <2>1, <2>2
<1>8. z \in 1 .. NPages /\ p < z
  BY <1>1
<1> HIDE DEF s2, z
<1>9. \A q \in Pages : q < p \/ z <= q => s2[q] = s[q]
  BY <1>4
<1>10. Tiled(s2)
  BY <1>3, <1>5, <1>6, <1>7, <1>8, <1>9, Retiled
<1> QED
  BY <1>3, <1>10 DEF s2

\* A block or a cut page becomes a run.
FreedOf(s, p, n) ==
    [q \in Pages |-> IF q = p THEN Run(n)
                     ELSE IF q \in p + 1 .. p + n - 1 THEN Run(0) ELSE s[q]]

\* Page p starts n pages that are in use.
Used(s, p, n) ==
    \/ s[p].tag = "start" /\ s[p].n = n
    \/ s[p].tag = "cut" /\ n = 1

LEMMA UsedSpan ==
    ASSUME NEW s \in [Pages -> Words], Tiled(s), NEW p \in Pages, NEW n, Used(s, p, n)
    PROVE  /\ n \in Nat \ {0} /\ p + n <= NPages /\ ~Inner(s[p]) /\ ~IsRun(s[p])
           /\ \A q \in p + 1 .. p + n - 1 : q \in Pages /\ s[q] = Busy
           /\ \A q \in Pages : ~Inner(s[q]) /\ p < q => p + n <= q
<1>1. s[p] \in Words /\ p \in Nat /\ p < NPages /\ NPages \in Nat
  BY RefsApart, SlabAssumption
<1>2. CASE s[p].tag = "start" /\ s[p].n = n
  <2>1. ~Inner(s[p]) /\ ~IsRun(s[p]) /\ s[p].tag # "cut"
    BY <1>2 DEF Inner, IsRun, Run, Busy
  <2>2. Spans(s[p])
    BY <2>1 DEF Tiled
  <2>3. Further(s[p]) = Busy
    BY <1>2 DEF Further
  <2>4. /\ s[p].n \in Nat \ {0} /\ p + s[p].n <= NPages
        /\ \A q \in p + 1 .. p + s[p].n - 1 : q \in Pages /\ s[q] = Further(s[p])
        /\ \A q \in Pages : ~Inner(s[q]) /\ p < q => p + s[p].n <= q
    BY <2>2, SpanOf
  <2> QED
    BY <1>2, <2>1, <2>3, <2>4
<1>3. CASE s[p].tag = "cut" /\ n = 1
  <2>1. ~Inner(s[p]) /\ ~IsRun(s[p])
    BY <1>1, <1>3, WordKinds
  <2>2. \A q \in Pages : p < q => p + 1 <= q
    BY RefsApart
  <2>3. p + 1 .. p + n - 1 = {}
    BY <1>1, <1>3
  <2> QED
    BY <1>1, <1>3, <2>1, <2>2, <2>3
<1> QED
  BY <1>2, <1>3 DEF Used

LEMMA FreedTiled ==
    ASSUME NEW s \in [Pages -> Words], Tiled(s), NEW p \in Pages, NEW n, Used(s, p, n)
    PROVE  FreedOf(s, p, n) \in [Pages -> Words] /\ Tiled(FreedOf(s, p, n))
<1> DEFINE s2 == FreedOf(s, p, n)
           z == p + n
<1>1. /\ n \in Nat \ {0} /\ z <= NPages /\ ~Inner(s[p]) /\ ~IsRun(s[p])
      /\ \A q \in p + 1 .. z - 1 : q \in Pages /\ s[q] = Busy
      /\ \A q \in Pages : ~Inner(s[q]) /\ p < q => z <= q
      /\ p \in Nat /\ NPages \in Nat
  BY UsedSpan, RefsApart, SlabAssumption
<1>2. s2 \in [Pages -> Words]
  BY <1>1, WordsTyped DEF FreedOf
<1>3. /\ s2[p] = Run(n)
      /\ \A q \in p + 1 .. z - 1 : s2[q] = Run(0)
      /\ \A q \in Pages : q < p \/ z <= q => s2[q] = s[q]
  <2>1. ASSUME NEW q \in p + 1 .. z - 1 PROVE s2[q] = Run(0)
    BY <1>1 DEF FreedOf
  <2>2. ASSUME NEW q \in Pages, q < p \/ z <= q PROVE s2[q] = s[q]
    <3>1. q \in Nat
      BY RefsApart
    <3>2. q # p /\ q \notin p + 1 .. p + n - 1
      BY <1>1, <2>2, <3>1
    <3> QED
      BY <3>2 DEF FreedOf
  <2> QED
    BY <2>1, <2>2 DEF FreedOf
<1>4. Spans(Run(n)) /\ Run(n).n = n /\ Further(Run(n)) = Run(0) /\ Inner(Run(0))
  BY <1>1, WordKinds, WordsTyped
<1>5. ASSUME NEW x \in p .. z - 1 PROVE Within(s2, p, z, x)
  <2>1. CASE x = p
    BY <1>1, <1>3, <1>4, <2>1 DEF Within
  <2>2. CASE x # p
    <3>1. x \in p + 1 .. z - 1 /\ p \in p .. z - 1 /\ p < x /\ x < p + n
      BY <1>1, <2>2
    <3> QED
      BY <1>3, <1>4, <3>1 DEF Within
  <2> QED
    BY <2>1, <2>2
<1>6. \A x \in Pages : Spans(s[x]) /\ x < p => x + s[x].n <= p
  BY <1>1, NoneReaches
<1>7. \A x \in Pages : Spans(s[x]) /\ p <= x /\ x < z => x + s[x].n <= z
  <2> SUFFICES ASSUME NEW x \in Pages, Spans(s[x]), p <= x, x < z PROVE x + s[x].n <= z
    OBVIOUS
  <2>1. x \in Nat /\ ~Inner(s[x]) /\ s[x].tag # "cut"
    BY RefsApart, WordKinds
  <2>2. x = p
    BY <1>1, <2>1
  <2>3. s[p].n = n
    BY <2>1, <2>2 DEF Used
  <2> QED
    BY <1>1, <2>2, <2>3
<1>8. z \in 1 .. NPages /\ p < z
  BY <1>1
<1> HIDE DEF s2, z
<1>9. Tiled(s2)
  BY <1>2, <1>3, <1>5, <1>6, <1>7, <1>8, Retiled
<1> QED
  BY <1>2, <1>9 DEF s2

\* Two runs, one behind the other, become one.
JoinedOf(s, x, y) == [s EXCEPT ![x] = Run(s[x].n + s[y].n), ![y] = Run(0)]

LEMMA JoinedTiled ==
    ASSUME NEW s \in [Pages -> Words], Tiled(s), NEW x \in Pages, NEW y \in Pages,
           IsRun(s[x]), IsRun(s[y]), y = x + s[x].n
    PROVE  JoinedOf(s, x, y) \in [Pages -> Words] /\ Tiled(JoinedOf(s, x, y))
<1> DEFINE m == s[x].n
           n == s[y].n
           s2 == JoinedOf(s, x, y)
           z == y + n
<1>1. /\ Spans(s[x]) /\ Further(s[x]) = Run(0) /\ ~Inner(s[x])
      /\ Spans(s[y]) /\ Further(s[y]) = Run(0) /\ ~Inner(s[y])
  <2>1. s[x] \in Words /\ s[y] \in Words
    OBVIOUS
  <2> QED
    BY <2>1, WordKinds DEF Further, IsRun
<1>2. /\ m \in Nat \ {0} /\ \A q \in x + 1 .. x + m - 1 : q \in Pages /\ s[q] = Run(0)
      /\ n \in Nat \ {0} /\ \A q \in y + 1 .. y + n - 1 : q \in Pages /\ s[q] = Run(0)
      /\ z <= NPages
  BY <1>1, SpanOf
<1>3. x \in Nat /\ y \in Nat /\ y = x + m /\ NPages \in Nat
  BY RefsApart, SlabAssumption
<1>4. m + n \in Nat \ {0} /\ 0 \in Nat
  BY <1>2
<1>5. s2 \in [Pages -> Words]
  <2>1. Run(m + n) \in Words /\ Run(0) \in Words
    BY <1>4, WordsTyped
  <2> QED
    BY <2>1 DEF JoinedOf
<1>6. /\ s2[x] = Run(m + n)
      /\ \A q \in x + 1 .. z - 1 : s2[q] = Run(0)
      /\ \A q \in Pages : q < x \/ z <= q => s2[q] = s[q]
  <2>1. x # y
    BY <1>2, <1>3
  <2>2. \A q \in Pages : q # x /\ q # y => s2[q] = s[q]
    BY DEF JoinedOf
  <2>3. s2[x] = Run(m + n) /\ s2[y] = Run(0)
    BY <2>1 DEF JoinedOf
  <2> HIDE DEF s2
  <2>4. ASSUME NEW q \in x + 1 .. z - 1 PROVE s2[q] = Run(0)
    <3>1. CASE q \in x + 1 .. x + m - 1
      BY <1>2, <1>3, <2>2, <3>1
    <3>2. CASE q \in y + 1 .. y + n - 1
      BY <1>2, <1>3, <2>2, <3>2
    <3>3. CASE q = y
      BY <2>3, <3>3
    <3> QED
      BY <1>2, <1>3, <3>1, <3>2, <3>3
  <2>5. ASSUME NEW q \in Pages, q < x \/ z <= q PROVE s2[q] = s[q]
    <3>1. q \in Nat
      BY RefsApart
    <3> QED
      BY <1>2, <1>3, <2>2, <2>5, <3>1
  <2> QED
    BY <2>3, <2>4, <2>5
<1>7. /\ Spans(Run(m + n)) /\ Run(m + n).n = m + n /\ Further(Run(m + n)) = Run(0)
      /\ Inner(Run(0))
  BY <1>4, WordKinds, WordsTyped
<1>8. ASSUME NEW q \in x .. z - 1 PROVE Within(s2, x, z, q)
  <2>1. CASE q = x
    BY <1>2, <1>3, <1>6, <1>7, <2>1 DEF Within
  <2>2. CASE q # x
    <3>1. q \in x + 1 .. z - 1 /\ x \in x .. z - 1 /\ x < q /\ q < x + (m + n)
      BY <1>2, <1>3, <2>2
    <3> QED
      BY <1>6, <1>7, <3>1 DEF Within
  <2> QED
    BY <2>1, <2>2
<1>9. \A w \in Pages : Spans(s[w]) /\ w < x => w + s[w].n <= x
  BY <1>1, NoneReaches
<1>10. \A w \in Pages : Spans(s[w]) /\ x <= w /\ w < z => w + s[w].n <= z
  <2> SUFFICES ASSUME NEW w \in Pages, Spans(s[w]), x <= w, w < z PROVE w + s[w].n <= z
    OBVIOUS
  <2>1. w \in Nat /\ ~Inner(s[w])
    BY RefsApart, WordKinds
  <2>2. w \notin x + 1 .. x + m - 1 /\ w \notin y + 1 .. y + n - 1
    BY <1>2, <2>1, WordKinds
  <2> QED
    BY <1>2, <1>3, <2>1, <2>2
<1>11. z \in 1 .. NPages /\ x < z
  BY <1>2, <1>3
<1> HIDE DEF s2, z
<1>12. \A q \in Pages : q < x \/ z <= q => s2[q] = s[q]
  BY <1>6
<1>13. Tiled(s2)
  BY <1>5, <1>8, <1>9, <1>10, <1>11, <1>12, Retiled
<1> QED
  BY <1>5, <1>13 DEF s2

\* A block of one page is cut into chunks.
LEMMA CutTiled ==
    ASSUME NEW s \in [Pages -> Words], Tiled(s), NEW p \in Pages, s[p] = Start(1),
           NEW shift \in Nat
    PROVE  /\ [s EXCEPT ![p] = Cut(shift)] \in [Pages -> Words]
           /\ Tiled([s EXCEPT ![p] = Cut(shift)])
<1> DEFINE s2 == [s EXCEPT ![p] = Cut(shift)]
           z == p + 1
<1>1. /\ p \in Nat /\ p < NPages /\ NPages \in Nat
      /\ Cut(shift) \in Words /\ Cut(shift).tag = "cut" /\ 1 \in Nat /\ Start(1).n = 1
      /\ Spans(s[p]) /\ ~Inner(s[p])
  <2>1. Spans(s[p]) /\ ~Inner(s[p])
    BY WordKinds
  <2> QED
    BY <2>1, RefsApart, SlabAssumption, WordsTyped
<1>2. s2 \in [Pages -> Words]
  BY <1>1
<1>3. \A q \in Pages : q < p \/ z <= q => s2[q] = s[q]
  BY <1>1, RefsApart
<1>4. ASSUME NEW x \in p .. z - 1 PROVE Within(s2, p, z, x)
  <2>1. x = p /\ s2[p].tag = "cut"
    BY <1>1
  <2> HIDE DEF s2
  <2> QED
    BY <2>1 DEF Within
<1>5. \A x \in Pages : Spans(s[x]) /\ x < p => x + s[x].n <= p
  BY <1>1, NoneReaches
<1>6. \A x \in Pages : Spans(s[x]) /\ p <= x /\ x < z => x + s[x].n <= z
  <2> SUFFICES ASSUME NEW x \in Pages, Spans(s[x]), p <= x, x < z PROVE x + s[x].n <= z
    OBVIOUS
  <2>1. x = p
    BY <1>1, RefsApart
  <2> QED
    BY <1>1, <2>1
<1>7. z \in 1 .. NPages /\ p < z
  BY <1>1
<1> HIDE DEF s2, z
<1>8. Tiled(s2)
  BY <1>2, <1>3, <1>4, <1>5, <1>6, <1>7, Retiled
<1> QED
  BY <1>2, <1>8 DEF s2

\* A set of pages and n more of them.
LEMMA CountMore ==
    ASSUME NEW F, F \subseteq Pages, NEW p \in Nat, NEW n \in Nat,
           F \cap (p .. p + n - 1) = {}
    PROVE  /\ IsFiniteSet(F) /\ Cardinality(F) \in Nat /\ Cardinality(F) <= NPages
           /\ Cardinality(F \cup (p .. p + n - 1)) = Cardinality(F) + n
<1> DEFINE I == p .. p + n - 1
<1>1. IsFiniteSet(I) /\ Cardinality(I) = n
  <2>1. p \in Int /\ p + n - 1 \in Int
    OBVIOUS
  <2>2. IsFiniteSet(I) /\ Cardinality(I) = IF p > p + n - 1 THEN 0 ELSE (p + n - 1) - p + 1
    BY <2>1, FS_Interval
  <2> QED
    BY <2>2
<1>2. IsFiniteSet(Pages) /\ Cardinality(Pages) = NPages
  <2>1. 0 \in Int /\ NPages - 1 \in Int /\ NPages \in Nat \ {0}
    BY SlabAssumption
  <2>2. IsFiniteSet(0 .. NPages - 1)
        /\ Cardinality(0 .. NPages - 1) = IF 0 > NPages - 1 THEN 0 ELSE (NPages - 1) - 0 + 1
    BY <2>1, FS_Interval
  <2> QED
    BY <2>1, <2>2 DEF Pages
<1>3. IsFiniteSet(F) /\ Cardinality(F) <= NPages /\ Cardinality(F) \in Nat
  BY <1>2, FS_Subset, FS_CardinalityType
<1> HIDE DEF I
<1>4. F \cap I = {}
  BY DEF I
<1>5. Cardinality(F \cup I) = Cardinality(F) + Cardinality(I) - Cardinality(F \cap I)
  BY <1>1, <1>3, FS_Union
<1>6. Cardinality(F \cap I) = 0
  BY <1>4, FS_EmptySet
<1>7. Cardinality(F \cup I) = Cardinality(F) + n
  BY <1>1, <1>3, <1>5, <1>6
<1> QED
  BY <1>3, <1>7 DEF I

\* Pages carved out of a run are no longer free, pages freed are.
LEMMA CarvedCount ==
    ASSUME NEW s \in [Pages -> Words], Tiled(s), NEW p \in Pages, IsRun(s[p]),
           NEW n \in 1 .. s[p].n
    PROVE  FreePageCount(CarvedOf(s, p, n)) = FreePageCount(s) - n
<1> DEFINE s2 == CarvedOf(s, p, n)
           F == {q \in Pages : s[q].tag = "run"}
           G == {q \in Pages : s2[q].tag = "run"}
           I == p .. p + n - 1
<1>1. Spans(s[p]) /\ p \in Nat /\ n \in Nat \ {0} /\ n <= s[p].n /\ s[p].n \in Nat
  BY WordKinds, WordsTyped, RefsApart
<1>2. \A q \in p + 1 .. p + s[p].n - 1 : q \in Pages /\ s[q] = Further(s[p])
  BY <1>1, SpanOf
<1>3. \A q \in I : q \in Pages /\ s[q].tag = "run"
  <2> SUFFICES ASSUME NEW q \in I PROVE q \in Pages /\ s[q].tag = "run"
    OBVIOUS
  <2>1. CASE q = p
    BY <2>1 DEF IsRun
  <2>2. CASE q # p
    <3>1. q \in p + 1 .. p + s[p].n - 1
      BY <1>1, <2>2
    <3>2. Further(s[p]) = Run(0)
      BY DEF Further, IsRun
    <3> QED
      BY <1>2, <3>1, <3>2 DEF Run
  <2> QED
    BY <2>1, <2>2
<1>4. \A q \in I : s2[q].tag # "run"
  <2> SUFFICES ASSUME NEW q \in I PROVE s2[q].tag # "run"
    OBVIOUS
  <2>1. q \in Pages /\ (q = p \/ q \in p + 1 .. p + n - 1)
    BY <1>1, <1>3
  <2> QED
    BY <2>1 DEF CarvedOf, Start, Busy
<1>5. \A q \in Pages : q \notin I => (s2[q].tag = "run" <=> s[q].tag = "run")
  <2> SUFFICES ASSUME NEW q \in Pages, q \notin I
               PROVE  s2[q].tag = "run" <=> s[q].tag = "run"
    OBVIOUS
  <2>1. q # p /\ q \notin p + 1 .. p + n - 1
    BY <1>1
  <2>2. CASE q = p + n /\ s[p].n > n
    <3>1. q \in p + 1 .. p + s[p].n - 1
      BY <1>1, <2>2
    <3>2. s[q].tag = "run"
      BY <1>2, <3>1 DEF Further, IsRun, Run
    <3>3. s2[q] = Run(s[p].n - n)
      BY <2>1, <2>2 DEF CarvedOf
    <3> QED
      BY <3>2, <3>3 DEF Run
  <2>3. CASE ~(q = p + n /\ s[p].n > n)
    BY <2>1, <2>3 DEF CarvedOf
  <2> QED
    BY <2>2, <2>3
<1> HIDE DEF s2, I
<1>6. F = G \cup I /\ G \cap I = {} /\ G \subseteq Pages
  BY <1>3, <1>4, <1>5
<1> HIDE DEF F, G
<1>7. Cardinality(G) \in Nat /\ Cardinality(G \cup (p .. p + n - 1)) = Cardinality(G) + n
  BY <1>1, <1>6, CountMore DEF I
<1>8. Cardinality(F) = Cardinality(G) + n
  BY <1>6, <1>7 DEF I
<1>9. Cardinality(G) = Cardinality(F) - n
  BY <1>1, <1>7, <1>8
<1> QED
  BY <1>9 DEF FreePageCount, F, G, s2

LEMMA FreedCount ==
    ASSUME NEW s \in [Pages -> Words], Tiled(s), NEW p \in Pages, NEW n, Used(s, p, n)
    PROVE  FreePageCount(FreedOf(s, p, n)) = FreePageCount(s) + n
<1> DEFINE s2 == FreedOf(s, p, n)
           F == {q \in Pages : s[q].tag = "run"}
           G == {q \in Pages : s2[q].tag = "run"}
           I == p .. p + n - 1
<1>1. /\ n \in Nat \ {0} /\ p \in Nat /\ s[p].tag # "run"
      /\ \A q \in p + 1 .. p + n - 1 : q \in Pages /\ s[q] = Busy
  BY UsedSpan, RefsApart DEF Used
<1>2. \A q \in I : q = p \/ q \in p + 1 .. p + n - 1
  BY <1>1
<1>3. \A q \in I : q \in Pages /\ s[q].tag # "run" /\ s2[q].tag = "run"
  BY <1>1, <1>2 DEF FreedOf, Run, Busy
<1>4. \A q \in Pages : q \notin I => s2[q] = s[q]
  <2> SUFFICES ASSUME NEW q \in Pages, q \notin I PROVE s2[q] = s[q]
    OBVIOUS
  <2>1. q # p /\ q \notin p + 1 .. p + n - 1
    BY <1>1
  <2> QED
    BY <2>1 DEF FreedOf
<1> HIDE DEF s2, I
<1>5. G = F \cup I /\ F \cap I = {} /\ F \subseteq Pages
  BY <1>3, <1>4
<1> HIDE DEF F, G
<1>6. n \in Nat
  BY <1>1
<1>7. Cardinality(F \cup (p .. p + n - 1)) = Cardinality(F) + n
  BY <1>1, <1>5, <1>6, CountMore DEF I
<1> QED
  BY <1>5, <1>7 DEF FreePageCount, F, G, I, s2

LEMMA SameCount ==
    ASSUME NEW s, NEW s2, \A q \in Pages : s2[q].tag = "run" <=> s[q].tag = "run"
    PROVE  FreePageCount(s2) = FreePageCount(s)
<1>1. {q \in Pages : s2[q].tag = "run"} = {q \in Pages : s[q].tag = "run"}
  OBVIOUS
<1> QED
  BY <1>1 DEF FreePageCount

\* There are at most as many free pages as pages.
LEMMA CountType ==
    ASSUME NEW s
    PROVE  FreePageCount(s) \in 0 .. NPages
<1> DEFINE F == {q \in Pages : s[q].tag = "run"}
<1>1. F \subseteq Pages /\ F \cap (0 .. 0 + 0 - 1) = {} /\ 0 \in Nat
  OBVIOUS
<1> HIDE DEF F
<1>2. Cardinality(F) \in Nat /\ Cardinality(F) <= NPages
  BY <1>1, CountMore
<1> QED
  BY <1>2, SlabAssumption DEF FreePageCount, F

-------------------------------------------------------------------------------
(* What a change of one list leaves alone.                                   *)

\* Outside the pages of E, links stay Null or not Null and keep their type, the
\* words of pages in no list stay, and so do the heads other than o.
Quiet(nx, pv, own, nx2, pv2, E, o) ==
    /\ \A y \in Pages \ E :
          /\ nx2[y] = Null <=> nx[y] = Null
          /\ pv2[y].type = pv[y].type
          /\ own[y] = Null => nx2[y] = nx[y] /\ pv2[y] = pv[y]
    /\ \A r \in Heads \ {o} : nx2[r] = nx[r]

LEMMA UnlinkQuiet ==
    ASSUME NEW nx, NEW pv, NEW own, NEW rk,
           Linked(nx, pv, own, rk), NEW p \in Pages, own[p] # Null
    PROVE  Quiet(nx, pv, own, [nx EXCEPT ![pv[p].ref] = nx[p]],
                 PrevSet(pv, nx[p], pv[p]), {p}, own[p])
<1>0. /\ nx \in [Pages \cup Heads -> Refs] /\ pv \in [Pages -> Ptrs]
      /\ \A r \in Heads : own[r] = r
  BY DEF Linked, LinkedTypes, Owners
<1> DEFINE a == pv[p].ref
           b == nx[p]
           nx2 == [nx EXCEPT ![a] = b]
           pv2 == PrevSet(pv, b, pv[p])
<1>1. /\ a \in Pages \cup Heads /\ own[a] = own[p] /\ nx[a] = p
      /\ pv[p].type = KindIn(own[p])
      /\ b \in Pages \cup Heads /\ own[b] = own[p]
  <2>1. /\ pv[p].ref \in Pages \cup Heads /\ pv[p].ref # p
        /\ own[pv[p].ref] = own[p] /\ nx[pv[p].ref] = p
        /\ pv[p].type = KindIn(own[p]) /\ rk[p] < rk[pv[p].ref]
        /\ nx[p] \in Pages \cup Heads /\ nx[p] # p
        /\ own[nx[p]] = own[p]
    BY LinksOf
  <2> QED
    BY <2>1
<1>2. b \in Pages => pv[b].type = KindIn(own[b])
  <2>1. \A x \in Pages : own[x] # Null => pv[x].type = KindIn(own[x])
    BY DEF Linked
  <2> HIDE DEF b
  <2> QED
    BY <1>1, <2>1
<1> HIDE DEF a, b
<1>3. nx2[a] = b /\ \A y \in Pages \cup Heads : y # a => nx2[y] = nx[y]
  BY <1>0, <1>1
<1>4. (b \in Pages => pv2[b] = pv[p]) /\ \A y \in Pages : y # b => pv2[y] = pv[y]
  BY <1>0 DEF PrevSet
<1>5. p # Null /\ b # Null
  BY <1>1, RefsApart
<1> HIDE DEF nx2, pv2
<1>6. ASSUME NEW y \in Pages \ {p}
      PROVE  /\ nx2[y] = Null <=> nx[y] = Null
             /\ pv2[y].type = pv[y].type
             /\ own[y] = Null => nx2[y] = nx[y] /\ pv2[y] = pv[y]
  <2>1. nx2[y] = Null <=> nx[y] = Null
    BY <1>1, <1>3, <1>5
  <2>2. pv2[y].type = pv[y].type
    BY <1>1, <1>2, <1>4
  <2>3. own[y] = Null => y # a /\ y # b
    BY <1>1
  <2> QED
    BY <1>3, <1>4, <2>1, <2>2, <2>3
<1>7. \A r \in Heads \ {own[p]} : nx2[r] = nx[r]
  BY <1>0, <1>1, <1>3
<1>8. Quiet(nx, pv, own, nx2, pv2, {p}, own[p])
  BY <1>6, <1>7 DEF Quiet
<1> QED
  BY <1>8 DEF a, b, nx2, pv2

LEMMA PushQuiet ==
    ASSUME NEW nx, NEW pv, NEW own, NEW rk,
           Linked(nx, pv, own, rk), NEW p \in Pages, own[p] = Null, NEW head \in Heads
    PROVE  Quiet(nx, pv, own, [nx EXCEPT ![p] = nx[head], ![head] = p],
                 [PrevSet(pv, nx[head], Ptr(p, KindIn(head))) EXCEPT
                     ![p] = Ptr(head, KindIn(head))], {p}, head)
<1>0. nx \in [Pages \cup Heads -> Refs] /\ pv \in [Pages -> Ptrs]
  BY DEF Linked, LinkedTypes
<1> DEFINE b == nx[head]
           front == Ptr(p, KindIn(head))
           back == Ptr(head, KindIn(head))
           nx2 == [nx EXCEPT ![p] = b, ![head] = p]
           pv2 == [PrevSet(pv, b, front) EXCEPT ![p] = back]
<1>1. /\ b = head \/ (b \in Pages /\ own[b] = head)
      /\ head \notin Pages /\ head # Null
  BY LinksOfHead, RefsApart
<1>2. b \in Pages => pv[b].type = KindIn(head)
  <2>1. \A x \in Pages : own[x] # Null => pv[x].type = KindIn(own[x])
    BY DEF Linked
  <2> HIDE DEF b
  <2> QED
    BY <1>1, <2>1
<1>3. front.type = KindIn(head)
  BY DEF Ptr
<1> HIDE DEF b, front, back
<1>4. \A y \in Pages \cup Heads : y # p /\ y # head => nx2[y] = nx[y]
  BY <1>0
<1>5. \A y \in Pages : y # p => pv2[y] = IF y = b THEN front ELSE pv[y]
  BY <1>0 DEF PrevSet
<1> HIDE DEF nx2, pv2
<1>6. ASSUME NEW y \in Pages \ {p}
      PROVE  /\ nx2[y] = Null <=> nx[y] = Null
             /\ pv2[y].type = pv[y].type
             /\ own[y] = Null => nx2[y] = nx[y] /\ pv2[y] = pv[y]
  <2>1. nx2[y] = nx[y]
    BY <1>1, <1>4
  <2>2. pv2[y].type = pv[y].type
    BY <1>2, <1>3, <1>5
  <2>3. own[y] = Null => y # b
    BY <1>1
  <2> QED
    BY <1>5, <2>1, <2>2, <2>3
<1>7. \A r \in Heads \ {head} : nx2[r] = nx[r]
  BY <1>4, RefsApart
<1>8. Quiet(nx, pv, own, nx2, pv2, {p}, head)
  BY <1>6, <1>7 DEF Quiet
<1> QED
  BY <1>8 DEF b, front, back, nx2, pv2

LEMMA ReplaceQuiet ==
    ASSUME NEW nx, NEW pv, NEW own, NEW rk,
           Linked(nx, pv, own, rk), NEW p \in Pages, own[p] # Null,
           NEW q \in Pages, own[q] = Null
    PROVE  Quiet(nx, pv, own, [[nx EXCEPT ![q] = nx[p]] EXCEPT ![pv[p].ref] = q],
                 PrevSet([pv EXCEPT ![q] = pv[p]], nx[p], Ptr(q, KindIn(own[p]))),
                 {p, q}, own[p])
<1>0. /\ nx \in [Pages \cup Heads -> Refs] /\ pv \in [Pages -> Ptrs]
      /\ \A r \in Heads : own[r] = r
  BY DEF Linked, LinkedTypes, Owners
<1> DEFINE a == pv[p].ref
           b == nx[p]
           fresh == Ptr(q, KindIn(own[p]))
           nx2 == [[nx EXCEPT ![q] = b] EXCEPT ![a] = q]
           pv2 == PrevSet([pv EXCEPT ![q] = pv[p]], b, fresh)
<1>1. /\ a \in Pages \cup Heads /\ own[a] = own[p] /\ nx[a] = p
      /\ pv[p].type = KindIn(own[p])
      /\ b \in Pages \cup Heads /\ own[b] = own[p]
  <2>1. /\ pv[p].ref \in Pages \cup Heads /\ pv[p].ref # p
        /\ own[pv[p].ref] = own[p] /\ nx[pv[p].ref] = p
        /\ pv[p].type = KindIn(own[p]) /\ rk[p] < rk[pv[p].ref]
        /\ nx[p] \in Pages \cup Heads /\ nx[p] # p
        /\ own[nx[p]] = own[p]
    BY LinksOf
  <2> QED
    BY <2>1
<1>2. b \in Pages => pv[b].type = KindIn(own[b])
  <2>1. \A x \in Pages : own[x] # Null => pv[x].type = KindIn(own[x])
    BY DEF Linked
  <2> HIDE DEF b
  <2> QED
    BY <1>1, <2>1
<1>3. fresh.type = KindIn(own[p])
  BY DEF Ptr
<1> HIDE DEF a, b, fresh
<1>4. /\ nx2[a] = q /\ \A y \in Pages \cup Heads : y # a /\ y # q => nx2[y] = nx[y]
  BY <1>0, <1>1
<1>5. \A y \in Pages : y # q => pv2[y] = IF y = b THEN fresh ELSE pv[y]
  BY <1>0 DEF PrevSet
<1>6. p # Null /\ q # Null /\ q \notin Heads
  BY RefsApart
<1> HIDE DEF nx2, pv2
<1>7. ASSUME NEW y \in Pages \ {p, q}
      PROVE  /\ nx2[y] = Null <=> nx[y] = Null
             /\ pv2[y].type = pv[y].type
             /\ own[y] = Null => nx2[y] = nx[y] /\ pv2[y] = pv[y]
  <2>1. nx2[y] = Null <=> nx[y] = Null
    BY <1>1, <1>4, <1>6
  <2>2. pv2[y].type = pv[y].type
    BY <1>1, <1>2, <1>3, <1>5
  <2>3. own[y] = Null => y # a /\ y # b
    BY <1>1
  <2> QED
    BY <1>4, <1>5, <2>1, <2>2, <2>3
<1>8. \A r \in Heads \ {own[p]} : nx2[r] = nx[r]
  BY <1>0, <1>1, <1>4, <1>6
<1>9. Quiet(nx, pv, own, nx2, pv2, {p, q}, own[p])
  BY <1>7, <1>8 DEF Quiet
<1> QED
  BY <1>9 DEF a, b, fresh, nx2, pv2

-------------------------------------------------------------------------------
(* The metadata as its four parts.                                           *)

FitOf(nx, pv, s, pf, bs, rk, f) ==
    /\ s \in [Pages -> Words] /\ pf = FreePageCount(s)
    /\ Linked(nx, pv, Own(s, bs, f), rk)
    /\ \A p \in Pages \ {f} :
          /\ nx[p] = Null <=> ListOf(s[p], bs[p]) = Null
          /\ pv[p].type = KindOf(s[p])
    /\ Tiled(s) /\ Tails(s, pv, f)
    /\ f # Null => f \in Pages /\ IsRun(s[f])

LEMMA FitIsOf ==
    ASSUME NEW h, NEW bs, NEW rk, NEW f, Fit(h, bs, rk, f)
    PROVE  /\ FitOf(h.next, h.prev, h.slab, h.pfree, bs, rk, f)
           /\ h = Parts(h.next, h.prev, h.slab, h.pfree)
<1>1. h \in Heaps
  BY DEF Fit
<1>2. h.slab \in [Pages -> Words] /\ h = Parts(h.next, h.prev, h.slab, h.pfree)
  BY <1>1, HeapParts
<1> QED
  BY <1>2 DEF Fit, FitOf

LEMMA FitTypes ==
    ASSUME NEW nx, NEW pv, NEW s, NEW pf, NEW bs, NEW rk, NEW f,
           FitOf(nx, pv, s, pf, bs, rk, f)
    PROVE  /\ nx \in [Pages \cup Heads -> Refs] /\ pv \in [Pages -> Ptrs]
           /\ s \in [Pages -> Words] /\ pf \in 0 .. NPages /\ pf \in Int
           /\ Own(s, bs, f) \in Owners /\ rk \in [Pages \cup Heads -> Nat]
           /\ Linked(nx, pv, Own(s, bs, f), rk) /\ Tiled(s)
<1>1. pf \in 0 .. NPages
  BY CountType DEF FitOf
<1>2. pf \in Int
  BY <1>1
<1> QED
  BY <1>1, <1>2 DEF FitOf, Linked, LinkedTypes

LEMMA OfIsFit ==
    ASSUME NEW nx, NEW pv, NEW s, NEW pf, NEW bs, NEW rk, NEW f,
           FitOf(nx, pv, s, pf, bs, rk, f)
    PROVE  Fit(Parts(nx, pv, s, pf), bs, rk, f)
<1>1. /\ nx \in [Pages \cup Heads -> Refs] /\ pv \in [Pages -> Ptrs]
      /\ s \in [Pages -> Words] /\ pf \in Int
      /\ rk \in [Pages \cup Heads -> Nat]
  BY FitTypes
<1> DEFINE h == Parts(nx, pv, s, pf)
<1>2. h \in Heaps /\ h.next = nx /\ h.prev = pv /\ h.slab = s /\ h.pfree = pf
  BY SMTT(30), <1>1, PartsHeap
<1> HIDE DEF h
<1>3. Fit(h, bs, rk, f)
  BY <1>1, <1>2 DEF Fit, FitOf
<1> QED
  BY <1>3 DEF h

\* Who is in which list.
LEMMA OwnAt ==
    ASSUME NEW s, NEW bs, NEW f
    PROVE  /\ \A p \in Pages : Own(s, bs, f)[p] = IF p = f THEN Null ELSE ListOf(s[p], bs[p])
           /\ \A r \in Heads : Own(s, bs, f)[r] = r
BY RefsApart DEF Own

LEMMA OwnIs ==
    ASSUME NEW s, NEW bs, NEW f, NEW own \in Owners,
           \A p \in Pages : own[p] = IF p = f THEN Null ELSE ListOf(s[p], bs[p])
    PROVE  Own(s, bs, f) = own
<1>1. /\ own \in [Pages \cup Heads -> Heads \cup {Null}]
      /\ \A r \in Heads : own[r] = r
  BY DEF Owners
<1>2. \A r \in Pages \cup Heads :
        own[r] = IF r \in Heads THEN r ELSE IF r = f THEN Null ELSE ListOf(s[r], bs[r])
  BY <1>1
<1>3. own = [r \in Pages \cup Heads |-> own[r]]
  BY <1>1
<1> QED
  BY <1>2, <1>3 DEF Own

\* A free run is in the free list; blocks and further pages are in none.
LEMMA ListsOfWords ==
    ASSUME NEW b
    PROVE  /\ \A w : IsRun(w) => ListOf(w, b) = Free /\ KindOf(w) = "PAGE"
           /\ \A w : ~IsRun(w) /\ w.tag # "cut" => ListOf(w, b) = Null
           /\ \A w : w.tag # "cut" => KindOf(w) = "PAGE"
           /\ Free # Null /\ KindIn(Free) = "PAGE"
<1>1. Free # Null
  BY RefsApart
<1>2. \A w : IsRun(w) => w.tag # "cut"
  BY DEF IsRun
<1> QED
  BY <1>1, <1>2 DEF ListOf, KindOf, KindIn

\* Two runs or blocks share no page, and what ends one starts none.
LEMMA SpansApart ==
    ASSUME NEW s \in [Pages -> Words], Tiled(s), NEW p \in Pages, Spans(s[p]),
           NEW x \in Pages, Spans(s[x]), x # p
    PROVE  /\ x + s[x].n <= p \/ p + s[p].n <= x
           /\ s[x].n > 1 => /\ x + s[x].n - 1 \in Pages
                            /\ Inner(s[x + s[x].n - 1])
                            /\ x + s[x].n - 1 \notin p .. p + s[p].n - 1
<1>1. p \in Nat /\ x \in Nat /\ s[p] \in Words /\ s[x] \in Words
  BY RefsApart
<1>2. ~Inner(s[p]) /\ ~Inner(s[x])
  BY <1>1, WordKinds
<1>3. /\ s[p].n \in Nat \ {0} /\ \A q \in Pages : ~Inner(s[q]) /\ p < q => p + s[p].n <= q
  BY SpanOf
<1>4. /\ s[x].n \in Nat \ {0} /\ \A q \in Pages : ~Inner(s[q]) /\ x < q => x + s[x].n <= q
      /\ \A q \in x + 1 .. x + s[x].n - 1 :
            q \in Pages /\ s[q] = Further(s[x]) /\ Inner(s[q])
  BY SpanOf
<1>5. x < p \/ p < x
  BY <1>1
<1>6. x + s[x].n <= p \/ p + s[p].n <= x
  BY <1>2, <1>3, <1>4, <1>5
<1>7. ASSUME s[x].n > 1
      PROVE  /\ x + s[x].n - 1 \in Pages
             /\ Inner(s[x + s[x].n - 1])
             /\ x + s[x].n - 1 \notin p .. p + s[p].n - 1
  <2>1. x + s[x].n - 1 \in x + 1 .. x + s[x].n - 1
    BY <1>1, <1>4, <1>7
  <2>2. x + s[x].n - 1 \notin p .. p + s[p].n - 1
    BY <1>1, <1>3, <1>4, <1>6, <1>7
  <2> QED
    BY <1>4, <2>1, <2>2
<1> QED
  BY <1>6, <1>7

\* The words after a run gave its first pages away.
LEMMA CarvedAt ==
    ASSUME NEW s \in [Pages -> Words], Tiled(s), NEW p \in Pages, IsRun(s[p]),
           NEW n \in 1 .. s[p].n
    PROVE  /\ CarvedOf(s, p, n)[p] = Start(n)
           /\ \A y \in p .. p + n - 1 : y \in Pages /\ ~IsRun(CarvedOf(s, p, n)[y])
                                        /\ CarvedOf(s, p, n)[y].tag \in {"start", "busy"}
           /\ \A y \in p + 1 .. p + n - 1 : CarvedOf(s, p, n)[y] = Busy
           /\ s[p].n > n => /\ p + n \in Pages /\ Inner(s[p + n])
                            /\ CarvedOf(s, p, n)[p + n] = Run(s[p].n - n)
                            /\ IsRun(CarvedOf(s, p, n)[p + n])
           /\ \A y \in Pages : /\ y \notin p .. p + n - 1
                               /\ ~(y = p + n /\ s[p].n > n)
                               => CarvedOf(s, p, n)[y] = s[y]
<1> DEFINE r == s[p].n
           s2 == CarvedOf(s, p, n)
<1>1. s[p] \in Words /\ p \in Nat
  BY RefsApart
<1>2. Spans(s[p])
  BY <1>1, WordKinds
<1>3. /\ r \in Nat \ {0} /\ p + r <= NPages
      /\ \A q \in p + 1 .. p + r - 1 : q \in Pages /\ s[q] = Further(s[p]) /\ Inner(s[q])
  BY <1>2, SpanOf
<1>4. n \in Nat \ {0} /\ n <= r
  BY <1>3
<1>5. s2[p] = Start(n)
  BY DEF CarvedOf
<1>6. ASSUME NEW y \in p + 1 .. p + n - 1 PROVE y \in Pages /\ s2[y] = Busy
  <2>1. y \in p + 1 .. p + r - 1 /\ y # p
    BY <1>1, <1>3, <1>4
  <2> QED
    BY <1>3, <2>1 DEF CarvedOf
<1>7. ASSUME NEW y \in p .. p + n - 1
      PROVE y \in Pages /\ ~IsRun(s2[y]) /\ s2[y].tag \in {"start", "busy"}
  <2>1. y = p \/ y \in p + 1 .. p + n - 1
    BY <1>1, <1>4
  <2>2. ~IsRun(Start(n)) /\ ~IsRun(Busy) /\ Start(n).tag = "start" /\ Busy.tag = "busy"
    BY DEF IsRun, Start, Busy
  <2> HIDE DEF s2
  <2> QED
    BY <1>5, <1>6, <2>1, <2>2
<1>8. ASSUME r > n
      PROVE p + n \in Pages /\ Inner(s[p + n]) /\ s2[p + n] = Run(r - n) /\ IsRun(s2[p + n])
  <2>1. p + n \in p + 1 .. p + r - 1 /\ p + n # p /\ p + n \notin p + 1 .. p + n - 1
    BY <1>1, <1>3, <1>4, <1>8
  <2>2. p + n \in Pages /\ Inner(s[p + n])
    BY <1>3, <2>1
  <2>3. s2[p + n] = Run(r - n)
    BY <1>8, <2>1, <2>2 DEF CarvedOf
  <2>4. r - n \in Nat \ {0}
    BY <1>3, <1>4, <1>8
  <2> QED
    BY <2>2, <2>3, <2>4, WordKinds
<1>9. ASSUME NEW y \in Pages, y \notin p .. p + n - 1, ~(y = p + n /\ r > n)
      PROVE s2[y] = s[y]
  <2>1. y # p /\ y \notin p + 1 .. p + n - 1
    BY <1>1, <1>4, <1>9
  <2> QED
    BY <1>9, <2>1 DEF CarvedOf
<1> HIDE DEF s2, r
<1>10. r > n => p + n \in Pages /\ Inner(s[p + n]) /\ s2[p + n] = Run(r - n) /\ IsRun(s2[p + n])
  BY <1>8
<1>11. \A y \in Pages : y \notin p .. p + n - 1 /\ ~(y = p + n /\ r > n) => s2[y] = s[y]
  BY <1>9
<1> QED
  BY <1>5, <1>6, <1>7, <1>10, <1>11 DEF s2, r

\* The pages of B are not in the lists, whose words are s; heads are as in nx.
Detached(nx, gnx, gpv, s, bs, rk, B) ==
    /\ Linked(gnx, gpv, Own(s, bs, Null), rk)
    /\ \A y \in Pages \ B : /\ gnx[y] = Null <=> ListOf(s[y], bs[y]) = Null
                            /\ gpv[y].type = KindOf(s[y])
    /\ Tails(s, gpv, Null)
    /\ \A r \in Heads \ {Free} : gnx[r] = nx[r]

\* A run is taken out whole.
LEMMA TakeWhole ==
    ASSUME NEW nx, NEW pv, NEW s, NEW pf, NEW bs, NEW rk,
           FitOf(nx, pv, s, pf, bs, rk, Null),
           NEW p \in Pages, IsRun(s[p])
    PROVE  Detached(nx, [nx EXCEPT ![pv[p].ref] = nx[p]], PrevSet(pv, nx[p], pv[p]),
                    CarvedOf(s, p, s[p].n), bs, rk, p .. p + s[p].n - 1)
<1> DEFINE n == s[p].n
           B == p .. p + n - 1
           own == Own(s, bs, Null)
           own2 == [own EXCEPT ![p] = Null]
           s2 == CarvedOf(s, p, n)
           gnx == [nx EXCEPT ![pv[p].ref] = nx[p]]
           gpv == PrevSet(pv, nx[p], pv[p])
<1>1. /\ s \in [Pages -> Words] /\ own \in Owners /\ Tiled(s)
      /\ Linked(nx, pv, own, rk)
  BY FitTypes
<1>2. /\ s[p] \in Words /\ p \in Nat /\ Spans(s[p]) /\ n \in Nat \ {0} /\ n \in 1 .. n
      /\ p # Null /\ p \in B
  <2>1. s[p] \in Words /\ p \in Nat /\ p # Null
    BY <1>1, RefsApart
  <2>2. Spans(s[p]) /\ n \in Nat \ {0}
    BY <2>1, WordKinds
  <2> QED
    BY <2>1, <2>2
<1>3. /\ \A y \in B : y \in Pages /\ ~IsRun(s2[y]) /\ s2[y].tag \in {"start", "busy"}
      /\ \A y \in Pages : y \notin B => s2[y] = s[y]
  <2>1. /\ \A y \in p .. p + n - 1 : y \in Pages /\ ~IsRun(CarvedOf(s, p, n)[y])
                                        /\ CarvedOf(s, p, n)[y].tag \in {"start", "busy"}
        /\ \A y \in Pages : /\ y \notin p .. p + n - 1
                               /\ ~(y = p + n /\ s[p].n > n)
                               => CarvedOf(s, p, n)[y] = s[y]
    BY <1>1, <1>2, CarvedAt
  <2>2. ~(s[p].n > n)
    BY <1>2
  <2> QED
    BY <2>1, <2>2
<1>4. /\ \A y \in Pages : own[y] = ListOf(s[y], bs[y])
      /\ own[p] = Free /\ own[p] # Null
      /\ \A y \in B : y # p => own[y] = Null
  <2>1. \A y \in Pages : y # Null
    BY RefsApart
  <2>2. \A y \in Pages : own[y] = ListOf(s[y], bs[y])
    BY <2>1, OwnAt
  <2>3. own[p] = Free /\ own[p] # Null
    BY <2>2, ListsOfWords
  <2>4. ASSUME NEW y \in B, y # p PROVE own[y] = Null
    <3>1. y \in p + 1 .. p + n - 1
      BY <1>2, <2>4
    <3>2. y \in Pages /\ Inner(s[y])
      BY <1>1, <1>2, <3>1, SpanOf
    <3>3. ~IsRun(s[y]) /\ s[y].tag # "cut"
      BY <1>1, <3>2, WordKinds
    <3> QED
      BY <2>2, <3>2, <3>3, ListsOfWords
  <2> QED
    BY <2>2, <2>3, <2>4
<1> HIDE DEF n, s2, own, gnx, gpv
<1>5. Linked(gnx, gpv, own2, rk)
  BY <1>1, <1>4, LinkedUnlink DEF gnx, gpv
<1>6. own2 \in Owners
  BY <1>5 DEF Linked, LinkedTypes
<1>7. \A y \in Pages : own2[y] = IF y = Null THEN Null ELSE ListOf(s2[y], bs[y])
  <2>1. own \in [Pages \cup Heads -> Heads \cup {Null}]
    BY <1>1 DEF Owners
  <2> SUFFICES ASSUME NEW y \in Pages PROVE own2[y] = ListOf(s2[y], bs[y])
    BY RefsApart
  <2>2. CASE y \in B
    <3>1. ~IsRun(s2[y]) /\ s2[y].tag # "cut"
      BY <1>3, <2>2
    <3>2. ListOf(s2[y], bs[y]) = Null
      BY <3>1, ListsOfWords
    <3>3. own2[y] = Null
      BY <1>4, <2>1, <2>2
    <3> QED
      BY <3>2, <3>3
  <2>3. CASE y \notin B
    <3>1. y # p /\ s2[y] = s[y]
      BY <1>2, <1>3, <2>3
    <3> QED
      BY <1>4, <2>1, <3>1
  <2> QED
    BY <2>2, <2>3
<1>8. Own(s2, bs, Null) = own2
  <2> HIDE DEF own2
  <2> QED
    BY <1>6, <1>7, OwnIs
<1>9. Quiet(nx, pv, own, gnx, gpv, {p}, Free)
  BY <1>1, <1>4, UnlinkQuiet DEF gnx, gpv
<1>10. \A y \in Pages \ B : /\ gnx[y] = Null <=> ListOf(s2[y], bs[y]) = Null
                            /\ gpv[y].type = KindOf(s2[y])
  <2> SUFFICES ASSUME NEW y \in Pages \ B
               PROVE  /\ gnx[y] = Null <=> ListOf(s2[y], bs[y]) = Null
                      /\ gpv[y].type = KindOf(s2[y])
    OBVIOUS
  <2>1. y # p /\ s2[y] = s[y] /\ y # Null
    BY <1>2, <1>3, RefsApart
  <2>2. nx[y] = Null <=> ListOf(s[y], bs[y]) = Null
    BY <2>1 DEF FitOf
  <2>3. pv[y].type = KindOf(s[y])
    BY <2>1 DEF FitOf
  <2>4. (gnx[y] = Null <=> nx[y] = Null) /\ gpv[y].type = pv[y].type
    BY <1>9, <2>1 DEF Quiet
  <2> QED
    BY <2>1, <2>2, <2>3, <2>4
<1>11. Tails(s2, gpv, Null)
  <2> SUFFICES ASSUME NEW x \in Pages, IsRun(s2[x]), s2[x].n > 1, x + s2[x].n < NPages
               PROVE  gpv[x + s2[x].n - 1] = Ptr(x, "PAGE")
    BY DEF Tails
  <2>1. x \notin B /\ s2[x] = s[x] /\ x # p /\ s[x] \in Words
    BY <1>1, <1>2, <1>3
  <2>2. Spans(s[x]) /\ x # Null
    BY <2>1, WordKinds, RefsApart
  <2> DEFINE e == x + s[x].n - 1
  <2>3. e \in Pages /\ Inner(s[e]) /\ e \notin B
    BY <1>1, <1>2, <2>1, <2>2, SpansApart DEF n
  <2>4. pv[e] = Ptr(x, "PAGE")
    BY <2>1, <2>2 DEF Tails, FitOf
  <2> HIDE DEF e
  <2>5. ~IsRun(s[e]) /\ s[e].tag # "cut" /\ e # p
    BY <1>1, <1>2, <2>3, WordKinds
  <2>6. own[e] = Null
    BY <1>4, <2>3, <2>5, ListsOfWords
  <2>7. gpv[e] = pv[e]
    BY <1>9, <2>3, <2>5, <2>6 DEF Quiet
  <2> QED
    BY <2>1, <2>4, <2>7 DEF e
<1>12. \A r \in Heads \ {Free} : gnx[r] = nx[r]
  BY <1>9 DEF Quiet
<1>13. Linked(gnx, gpv, Own(s2, bs, Null), rk)
  BY <1>5, <1>8
<1>14. Detached(nx, gnx, gpv, s2, bs, rk, B)
  BY <1>10, <1>11, <1>12, <1>13 DEF Detached
<1> QED
  BY <1>14 DEF n, s2, gnx, gpv

\* The first pages of a run are taken out: the rest takes its place.
LEMMA TakePart ==
    ASSUME NEW nx, NEW pv, NEW s, NEW pf, NEW bs, NEW rk,
           FitOf(nx, pv, s, pf, bs, rk, Null),
           NEW p \in Pages, IsRun(s[p]), NEW n \in Nat \ {0}, n < s[p].n,
           NEW pv1, pv1 = [pv EXCEPT ![p + s[p].n - 1] = Ptr(p + n, "PAGE")]
    PROVE  Detached(nx, [[nx EXCEPT ![p + n] = nx[p]] EXCEPT ![pv[p].ref] = p + n],
                    PrevSet([pv1 EXCEPT ![p + n] = pv[p]], nx[p], Ptr(p + n, "PAGE")),
                    CarvedOf(s, p, n), bs, [rk EXCEPT ![p + n] = rk[p]], p .. p + n - 1)
<1> DEFINE r == s[p].n
           q == p + n
           z == p + r - 1
           B == p .. p + n - 1
           own == Own(s, bs, Null)
           own2 == [own EXCEPT ![p] = Null, ![q] = own[p]]
           s2 == CarvedOf(s, p, n)
           gnx == [[nx EXCEPT ![q] = nx[p]] EXCEPT ![pv[p].ref] = q]
           gpv == PrevSet([pv1 EXCEPT ![q] = pv[p]], nx[p], Ptr(q, "PAGE"))
           rk2 == [rk EXCEPT ![q] = rk[p]]
<1>1. /\ s \in [Pages -> Words] /\ own \in Owners /\ Tiled(s)
      /\ Linked(nx, pv, own, rk) /\ nx \in [Pages \cup Heads -> Refs]
      /\ pv \in [Pages -> Ptrs]
  BY FitTypes
<1>2. /\ s[p] \in Words /\ p \in Nat /\ Spans(s[p]) /\ r \in Nat \ {0} /\ n \in 1 .. r
      /\ p # Null /\ p \in B /\ q \notin B /\ q # p /\ p < NPages
  <2>1. s[p] \in Words /\ p \in Nat /\ p # Null /\ p < NPages
    BY <1>1, RefsApart
  <2>2. Spans(s[p]) /\ r \in Nat \ {0}
    BY <2>1, WordKinds
  <2> QED
    BY <2>1, <2>2
<1>3. /\ \A y \in B : y \in Pages /\ ~IsRun(s2[y]) /\ s2[y].tag \in {"start", "busy"}
      /\ \A y \in Pages : y \notin B /\ y # q => s2[y] = s[y]
      /\ q \in Pages /\ s2[q] = Run(r - n) /\ IsRun(s2[q]) /\ Inner(s[q])
  <2>1. /\ \A y \in p .. p + n - 1 : y \in Pages /\ ~IsRun(CarvedOf(s, p, n)[y])
                                     /\ CarvedOf(s, p, n)[y].tag \in {"start", "busy"}
        /\ s[p].n > n => /\ p + n \in Pages /\ Inner(s[p + n])
                         /\ CarvedOf(s, p, n)[p + n] = Run(s[p].n - n)
                         /\ IsRun(CarvedOf(s, p, n)[p + n])
        /\ \A y \in Pages : /\ y \notin p .. p + n - 1
                            /\ ~(y = p + n /\ s[p].n > n)
                            => CarvedOf(s, p, n)[y] = s[y]
    BY <1>1, <1>2, CarvedAt
  <2>2. s[p].n > n
    BY <1>2
  <2> QED
    BY <2>1, <2>2
<1>4. /\ \A y \in Pages : own[y] = ListOf(s[y], bs[y])
      /\ own[p] = Free /\ own[p] # Null
      /\ \A y \in p + 1 .. p + r - 1 : y \in Pages /\ own[y] = Null /\ Inner(s[y])
      /\ \A y \in Pages : Inner(s[y]) => own[y] = Null
  <2>1. \A y \in Pages : y # Null
    BY RefsApart
  <2>2. \A y \in Pages : own[y] = ListOf(s[y], bs[y])
    BY <2>1, OwnAt
  <2>3. own[p] = Free /\ own[p] # Null
    BY <2>2, ListsOfWords
  <2>4. ASSUME NEW y \in Pages, Inner(s[y]) PROVE own[y] = Null
    <3>3. ~IsRun(s[y]) /\ s[y].tag # "cut"
      BY <1>1, <2>4, WordKinds
    <3> QED
      BY <2>2, <3>3, ListsOfWords
  <2>5. \A y \in p + 1 .. p + r - 1 : y \in Pages /\ Inner(s[y])
    BY <1>1, <1>2, SpanOf
  <2> QED
    BY <2>2, <2>3, <2>4, <2>5
<1>5. z \in Pages /\ own[z] = Null /\ z # p /\ z \notin B /\ Inner(s[z])
  <2>1. z \in p + 1 .. p + r - 1 /\ z # p /\ z \notin B
    BY <1>2
  <2> HIDE DEF z
  <2> QED
    BY <1>4, <2>1
<1> HIDE DEF r, z, q, own, s2
<1>6. pv1 = [pv EXCEPT ![z] = Ptr(q, "PAGE")]
  BY DEF r, z, q
<1>7. /\ pv1 \in [Pages -> Ptrs] /\ pv1[p] = pv[p] /\ pv1[z] = Ptr(q, "PAGE")
      /\ \A y \in Pages : y # z => pv1[y] = pv[y]
  <2>1. Ptr(q, "PAGE") \in Ptrs
    BY <1>3, WordsTyped DEF Refs, Kinds
  <2> QED
    BY <1>1, <1>5, <1>6, <2>1
<1>8. Linked(nx, pv1, own, rk)
  <2>1. \A y \in Pages : own[y] # Null => pv1[y] = pv[y]
    BY <1>5, <1>7
  <2> QED
    BY <1>1, <1>7, <2>1, LinkedSame
<1>9. own[q] = Null
  BY <1>3, <1>4
<1>10. KindIn(own[p]) = "PAGE"
  BY <1>4, ListsOfWords
<1>11. /\ gnx = [[nx EXCEPT ![q] = nx[p]] EXCEPT ![pv1[p].ref] = q]
       /\ gpv = PrevSet([pv1 EXCEPT ![q] = pv1[p]], nx[p], Ptr(q, KindIn(own[p])))
  BY <1>7, <1>10
<1> HIDE DEF gnx, gpv
<1>12. Linked(gnx, gpv, own2, rk2)
  <2>1. Linked([[nx EXCEPT ![q] = nx[p]] EXCEPT ![pv1[p].ref] = q],
               PrevSet([pv1 EXCEPT ![q] = pv1[p]], nx[p], Ptr(q, KindIn(own[p]))),
               [own EXCEPT ![p] = Null, ![q] = own[p]],
               [rk EXCEPT ![q] = rk[p]])
    BY <1>3, <1>4, <1>8, <1>9, LinkedReplace
  <2> QED
    BY <1>11, <2>1
<1>13. Quiet(nx, pv1, own, gnx, gpv, {p, q}, Free)
  <2>1. Quiet(nx, pv1, own, [[nx EXCEPT ![q] = nx[p]] EXCEPT ![pv1[p].ref] = q],
              PrevSet([pv1 EXCEPT ![q] = pv1[p]], nx[p], Ptr(q, KindIn(own[p]))),
              {p, q}, own[p])
    BY <1>3, <1>4, <1>8, <1>9, ReplaceQuiet
  <2> QED
    BY <1>4, <1>11, <2>1
<1> HIDE DEF rk2
<1>14. own2 \in Owners
  BY <1>12 DEF Linked, LinkedTypes
<1>15. \A y \in Pages : own2[y] = IF y = Null THEN Null ELSE ListOf(s2[y], bs[y])
  <2>1. own \in [Pages \cup Heads -> Heads \cup {Null}]
    BY <1>1 DEF Owners
  <2> SUFFICES ASSUME NEW y \in Pages PROVE own2[y] = ListOf(s2[y], bs[y])
    BY RefsApart
  <2>2. CASE y \in B
    <3>1. ~IsRun(s2[y]) /\ s2[y].tag # "cut"
      BY <1>3, <2>2
    <3>2. ListOf(s2[y], bs[y]) = Null
      BY <3>1, ListsOfWords
    <3>3. y # p => y \in p + 1 .. p + r - 1
      BY <1>2, <2>2 DEF r
    <3>4. y # q /\ (y # p => own[y] = Null)
      BY <1>2, <1>4, <2>2, <3>3
    <3>5. own2[y] = Null
      BY <1>2, <2>1, <3>4
    <3> QED
      BY <3>2, <3>5
  <2>3. CASE y = q
    <3>1. ListOf(s2[q], bs[q]) = Free
      BY <1>3, ListsOfWords
    <3> QED
      BY <1>4, <2>1, <2>3, <3>1
  <2>4. CASE y \notin B /\ y # q
    <3>1. y # p /\ s2[y] = s[y]
      BY <1>2, <1>3, <2>4
    <3> QED
      BY <1>4, <2>1, <2>4, <3>1
  <2> QED
    BY <2>2, <2>3, <2>4
<1>16. Own(s2, bs, Null) = own2
  <2> HIDE DEF own2
  <2> QED
    BY <1>14, <1>15, OwnIs
<1> HIDE DEF own2
<1>17. ASSUME NEW y \in Pages \ B
       PROVE  /\ gnx[y] = Null <=> ListOf(s2[y], bs[y]) = Null
              /\ gpv[y].type = KindOf(s2[y])
  <2>1. CASE y = q
    <3>1. own2[q] = Free
      BY <1>3, <1>16, OwnAt, ListsOfWords, RefsApart
    <3>2. gnx[q] \in Pages \cup Heads /\ gpv[q].type = KindIn(own2[q])
      BY <1>3, <1>12, <3>1, ListsOfWords, LinksOf
    <3>3. gnx[q] # Null
      BY <3>2, RefsApart
    <3>4. gpv[q].type = "PAGE"
      BY <3>1, <3>2, ListsOfWords
    <3> QED
      BY <1>3, <2>1, <3>3, <3>4, ListsOfWords
  <2>2. CASE y # q
    <3>1. y # p /\ s2[y] = s[y] /\ y # Null
      BY <1>2, <1>3, <2>2, RefsApart
    <3>2. nx[y] = Null <=> ListOf(s[y], bs[y]) = Null
      BY <3>1 DEF FitOf
    <3>3. pv[y].type = KindOf(s[y])
      BY <3>1 DEF FitOf
    <3>4. (gnx[y] = Null <=> nx[y] = Null) /\ gpv[y].type = pv1[y].type
      BY <1>13, <2>2, <3>1 DEF Quiet
    <3>5. pv1[y].type = pv[y].type
      <4>1. CASE y = z
        <5>1. s[y].tag # "cut"
          BY <1>1, <1>5, <4>1, WordKinds
        <5>2. KindOf(s[y]) = "PAGE"
          BY <5>1, ListsOfWords
        <5> QED
          BY <1>7, <3>3, <4>1, <5>2 DEF Ptr
      <4>2. CASE y # z
        BY <1>7, <4>2
      <4> QED
        BY <4>1, <4>2
    <3> QED
      BY <3>1, <3>2, <3>3, <3>4, <3>5
  <2> QED
    BY <2>1, <2>2
<1>18. Tails(s2, gpv, Null)
  <2> SUFFICES ASSUME NEW x \in Pages, IsRun(s2[x]), s2[x].n > 1, x + s2[x].n < NPages
               PROVE  gpv[x + s2[x].n - 1] = Ptr(x, "PAGE")
    BY DEF Tails
  <2>1. CASE x = q
    <3>1. s2[x].n = r - n /\ r - n > 1
      BY <1>2, <1>3, <2>1 DEF Run
    <3>2. x + s2[x].n - 1 = z /\ z # q
      BY <1>2, <2>1, <3>1 DEF z, q
    <3>3. gpv[z] = pv1[z]
      BY <1>5, <1>13, <3>2 DEF Quiet
    <3> QED
      BY <1>7, <2>1, <3>2, <3>3
  <2>2. CASE x # q
    <3>1. x \notin B /\ s2[x] = s[x] /\ x # p /\ s[x] \in Words
      BY <1>1, <1>2, <1>3, <2>2
    <3>2. Spans(s[x]) /\ x # Null
      BY <3>1, WordKinds, RefsApart
    <3> DEFINE e == x + s[x].n - 1
    <3>3. e \in Pages /\ Inner(s[e]) /\ e \notin p .. p + r - 1
      BY <1>1, <1>2, <3>1, <3>2, SpansApart DEF r
    <3>4. pv[e] = Ptr(x, "PAGE")
      BY <3>1, <3>2 DEF Tails, FitOf
    <3> HIDE DEF e
    <3>5. e # p /\ e # q /\ e # z
      <4>1. p \in p .. p + r - 1 /\ q \in p .. p + r - 1 /\ z \in p .. p + r - 1
        BY <1>2 DEF r, q, z
      <4> QED
        BY <3>3, <4>1
    <3>6. own[e] = Null
      BY <1>4, <3>3
    <3>7. gpv[e] = pv1[e] /\ pv1[e] = pv[e]
      BY <1>7, <1>13, <3>3, <3>5, <3>6 DEF Quiet
    <3> QED
      BY <3>1, <3>4, <3>7 DEF e
  <2> QED
    BY <2>1, <2>2
<1>19. \A y \in Heads \ {Free} : gnx[y] = nx[y]
  BY <1>13 DEF Quiet
<1>20. Linked(gnx, gpv, Own(s2, bs, Null), rk2)
  BY <1>12, <1>16
<1>21. Detached(nx, gnx, gpv, s2, bs, rk2, B)
  BY <1>17, <1>18, <1>19, <1>20 DEF Detached
<1> QED
  BY <1>21 DEF q, s2, gnx, gpv, rk2

\* The pages of a block are in no list.
Blank(nx, B) == [r \in DOMAIN nx |-> IF r \in B THEN Null ELSE nx[r]]
BlankPrev(pv, B) == [r \in Pages |-> IF r \in B THEN NoPrev ELSE pv[r]]

BlockTaken(nx, gnx, gpv, s, bs, rk, p, n) ==
    /\ p \in Pages /\ n \in Nat /\ s \in [Pages -> Words] /\ Tiled(s) /\ s[p] = Start(n)
    /\ \A y \in p .. p + n - 1 : /\ y \in Pages /\ ~IsRun(s[y])
                                 /\ s[y].tag \in {"start", "busy"}
    /\ Detached(nx, gnx, gpv, s, bs, rk, p .. p + n - 1)

LEMMA BlankFit ==
    ASSUME NEW nx, NEW gnx, NEW gpv, NEW s, NEW bs, NEW rk, NEW p, NEW n,
           BlockTaken(nx, gnx, gpv, s, bs, rk, p, n)
    PROVE  /\ FitOf(Blank(gnx, p .. p + n - 1), BlankPrev(gpv, p .. p + n - 1), s,
                    FreePageCount(s), bs, rk, Null)
           /\ \A r \in Heads \ {Free} : Blank(gnx, p .. p + n - 1)[r] = nx[r]
           /\ \A y \in p .. p + n - 1 : Blank(gnx, p .. p + n - 1)[y] = Null
<1> DEFINE B == p .. p + n - 1
           own == Own(s, bs, Null)
           nx2 == Blank(gnx, B)
           pv2 == BlankPrev(gpv, B)
<1>0. /\ Detached(nx, gnx, gpv, s, bs, rk, p .. p + n - 1)
      /\ p \in Pages /\ n \in Nat /\ s \in [Pages -> Words] /\ Tiled(s) /\ s[p] = Start(n)
      /\ \A y \in p .. p + n - 1 : /\ y \in Pages /\ ~IsRun(s[y])
                                   /\ s[y].tag \in {"start", "busy"}
  BY DEF BlockTaken
<1> USE <1>0
<1>1. Linked(gnx, gpv, own, rk)
  BY DEF Detached
<1>2. gnx \in [Pages \cup Heads -> Refs] /\ gpv \in [Pages -> Ptrs]
  BY <1>1 DEF Linked, LinkedTypes
<1>3. B \subseteq Pages /\ Null \in Refs /\ NoPrev \in Ptrs
  BY RefsApart, WordsTyped
<1> HIDE DEF B
<1>4. nx2 \in [Pages \cup Heads -> Refs] /\ pv2 \in [Pages -> Ptrs]
  BY <1>2, <1>3 DEF Blank, BlankPrev
<1>5. /\ \A r \in Pages \cup Heads : nx2[r] = IF r \in B THEN Null ELSE gnx[r]
      /\ \A r \in Pages : pv2[r] = IF r \in B THEN NoPrev ELSE gpv[r]
  BY <1>2 DEF Blank, BlankPrev
<1>6. \A y \in B : ListOf(s[y], bs[y]) = Null /\ KindOf(s[y]) = "PAGE"
  <2> SUFFICES ASSUME NEW y \in B PROVE ListOf(s[y], bs[y]) = Null /\ KindOf(s[y]) = "PAGE"
    OBVIOUS
  <2>1. ~IsRun(s[y]) /\ s[y].tag # "cut"
    BY DEF B
  <2> QED
    BY <2>1, ListsOfWords
<1>7. \A y \in B : own[y] = Null
  <2>1. \A y \in Pages : y # Null
    BY RefsApart
  <2> QED
    BY <1>3, <1>6, <2>1, OwnAt
<1> HIDE DEF own, nx2, pv2
<1>8. Linked(nx2, pv2, own, rk)
  <2>1. \A r \in Pages \cup Heads : own[r] # Null => nx2[r] = gnx[r]
    BY <1>5, <1>7
  <2>2. \A r \in Pages : own[r] # Null => pv2[r] = gpv[r]
    BY <1>5, <1>7
  <2> QED
    BY <1>1, <1>4, <2>1, <2>2, LinkedSame
<1>9. \A y \in Pages \ {Null} : /\ nx2[y] = Null <=> ListOf(s[y], bs[y]) = Null
                                /\ pv2[y].type = KindOf(s[y])
  <2> SUFFICES ASSUME NEW y \in Pages
               PROVE  /\ nx2[y] = Null <=> ListOf(s[y], bs[y]) = Null
                      /\ pv2[y].type = KindOf(s[y])
    OBVIOUS
  <2>1. CASE y \in B
    BY <1>5, <1>6, <2>1, WordsTyped
  <2>2. CASE y \notin B
    BY <1>5, <2>2 DEF Detached, B
  <2> QED
    BY <2>1, <2>2
<1>10. Tails(s, pv2, Null)
  <2> SUFFICES ASSUME NEW x \in Pages, IsRun(s[x]), s[x].n > 1, x + s[x].n < NPages
               PROVE  pv2[x + s[x].n - 1] = Ptr(x, "PAGE")
    BY DEF Tails
  <2>1. gpv[x + s[x].n - 1] = Ptr(x, "PAGE")
    BY RefsApart DEF Tails, Detached
  <2>2. s[p].n = n /\ s[p] \in Words /\ s[p].tag = "start" /\ s[x] \in Words
    BY WordsTyped
  <2>3. Spans(s[x]) /\ x # p /\ n > 0
    <3>1. s[x].tag = "run"
      BY DEF IsRun
    <3>2. Spans(s[p]) \/ Inner(s[p]) \/ s[p].tag = "cut"
      BY DEF Tiled
    <3>3. ~Inner(s[p])
      BY <2>2, WordsTyped DEF Inner
    <3> QED
      BY <2>2, <3>1, <3>2, <3>3, WordKinds DEF Spans
  <2>4. Spans(s[p])
    BY <2>2, <2>3 DEF Spans
  <2>5. x + s[x].n - 1 \in Pages /\ x + s[x].n - 1 \notin p .. p + s[p].n - 1
    BY <2>3, <2>4, SpansApart
  <2>6. x + s[x].n - 1 \notin B
    BY <2>2, <2>5 DEF B
  <2> QED
    BY <1>5, <2>1, <2>5, <2>6
<1>11. FitOf(nx2, pv2, s, FreePageCount(s), bs, rk, Null)
  BY <1>8, <1>9, <1>10 DEF FitOf, own
<1>12. \A r \in Heads \ {Free} : nx2[r] = nx[r]
  <2>1. \A r \in Heads : r \notin B
    BY <1>3, RefsApart
  <2> QED
    BY <1>5, <2>1 DEF Detached
<1> QED
  BY <1>3, <1>5, <1>11, <1>12 DEF nx2, pv2, B

\* What SplitRun sets.
SplitNext(nx, pv, p, n) == [[nx EXCEPT ![p + n] = nx[p]] EXCEPT ![pv[p].ref] = p + n]
SplitPrev(nx, pv, s, p, n) ==
    PrevSet([[pv EXCEPT ![p + s[p].n - 1] = Ptr(p + n, "PAGE")] EXCEPT ![p + n] = pv[p]],
            nx[p], Ptr(p + n, "PAGE"))
SplitSlab(s, p, n) == [s EXCEPT ![p + n] = Run(s[p].n - n)]

LEMMA SplitParts ==
    ASSUME NEW nx, NEW pv, NEW s, NEW pf, NEW p, NEW n
    PROVE  SplitRun(Parts(nx, pv, s, pf), p, n) =
             Parts(SplitNext(nx, pv, p, n), SplitPrev(nx, pv, s, p, n), SplitSlab(s, p, n), pf)
<1> DEFINE pv1 == [pv EXCEPT ![p + s[p].n - 1] = Ptr(p + n, "PAGE")]
<1> DEFINE h == Parts(nx, pv, s, pf)
           q == p + n
           z == p + s[p].n - 1
           m == s[p].n - n
           nx2 == [[nx EXCEPT ![q] = nx[p]] EXCEPT ![pv[p].ref] = q]
           pv2 == [pv1 EXCEPT ![q] = pv[p]]
           s2 == [s EXCEPT ![q] = Run(m)]
           marked == [h EXCEPT !.prev[z] = Ptr(q, "PAGE"), !.slab[q] = Run(m),
                               !.next[q] = h.next[p]]
           linked == [marked EXCEPT !.prev[q] = h.prev[p], !.next[h.prev[p].ref] = q]
<1>1. h.slab[p].n = s[p].n /\ h.next[p] = nx[p] /\ h.prev[p] = pv[p]
  BY DEF Parts
<1> DEFINE nx1 == [nx EXCEPT ![q] = nx[p]]
           x == pv[p]
           v == nx[p]
           m1 == [h EXCEPT !.prev[z] = Ptr(q, "PAGE")]
           m2 == [m1 EXCEPT !.slab[q] = Run(m)]
           m3 == [m2 EXCEPT !.next[q] = v]
           l1 == [m3 EXCEPT !.prev[q] = x]
           l2 == [l1 EXCEPT !.next[x.ref] = q]
<1>2. linked = l2
  <2>1. marked = m3
    <3> HIDE DEF h
    <3> QED
      BY <1>1
  <2> HIDE DEF marked, m3
  <2>2. linked = [m3 EXCEPT !.prev[q] = h.prev[p], !.next[h.prev[p].ref] = q]
    BY <2>1
  <2> HIDE DEF linked, h
  <2> QED
    BY <1>1, <2>2
<1>3. linked = Parts(nx2, pv2, s2, pf)
  <2>1. m1 = Parts(nx, pv1, s, pf)
    BY DEF Parts
  <2> HIDE DEF m1
  <2>2. m2 = Parts(nx, pv1, s2, pf)
    BY <2>1 DEF Parts
  <2> HIDE DEF m2, s2, v
  <2>3. m3 = Parts([nx EXCEPT ![q] = v], pv1, s2, pf)
    BY <2>2 DEF Parts
  <2> HIDE DEF m3, x, nx1, q
  <2>4. l1 = Parts(nx1, [pv1 EXCEPT ![q] = x], s2, pf)
    BY <2>3 DEF Parts, nx1, v
  <2> HIDE DEF l1, pv2
  <2>5. l2 = Parts([nx1 EXCEPT ![x.ref] = q], pv2, s2, pf)
    BY <2>4 DEF Parts, pv2, x
  <2> HIDE DEF l2, linked
  <2> QED
    BY <1>2, <2>5 DEF nx1, x
<1>4. SplitRun(h, p, n) = SetPrev(linked, nx[p], Ptr(q, "PAGE"))
  <2> HIDE DEF h
  <2> QED
    BY <1>1 DEF SplitRun
<1> HIDE DEF linked, nx2, pv2, s2, h, q, l1, l2, m1, m2, m3
<1>5. SetPrev(linked, nx[p], Ptr(q, "PAGE")) =
        Parts(nx2, PrevSet(pv2, nx[p], Ptr(q, "PAGE")), s2, pf)
  BY <1>3, SetPrevParts
<1> QED
  BY <1>4, <1>5 DEF nx2, pv2, s2, h, q, SplitNext, SplitPrev, SplitSlab

\* dl_slab_alloc_pages takes n pages out of free run p.
LEMMA TakeRunFit ==
    ASSUME NEW h, NEW bs, NEW rk, Fit(h, bs, rk, Null),
           NEW p \in Pages, IsRun(h.slab[p]), NEW n \in Nat \ {0}, n <= h.slab[p].n
    PROVE  \E rk2 : /\ Fit(TakeRun(h, p, n), bs, rk2, Null)
                    /\ TakeRun(h, p, n).slab = CarvedOf(h.slab, p, n)
                    /\ TakeRun(h, p, n).next[p] = Null
                    /\ \A r \in Heads \ {Free} : TakeRun(h, p, n).next[r] = h.next[r]
<1> DEFINE nx == h.next
           pv == h.prev
           s == h.slab
           pf == h.pfree
           B == p .. p + n - 1
           g == IF h.slab[p].n > n THEN SplitRun(h, p, n) ELSE Unlink(h, p)
           s2 == CarvedOf(s, p, n)
           t == TakeRun(h, p, n)
<1>1. FitOf(nx, pv, s, pf, bs, rk, Null) /\ h = Parts(nx, pv, s, pf)
  BY FitIsOf
<1> HIDE DEF nx, pv, s, pf
<1>2. s \in [Pages -> Words] /\ Tiled(s) /\ pf \in Nat /\ IsRun(s[p]) /\ n <= s[p].n
  BY <1>1, FitTypes DEF s
<1>3. n \in 1 .. s[p].n /\ s[p].n \in Nat /\ p \in Nat
  BY <1>2, WordsTyped, RefsApart
<1>4. /\ s2[p] = Start(n)
      /\ \A y \in B : y \in Pages /\ ~IsRun(s2[y]) /\ s2[y].tag \in {"start", "busy"}
      /\ \A y \in p + 1 .. p + n - 1 : s2[y] = Busy
      /\ s[p].n > n => s2[p + n] = Run(s[p].n - n)
      /\ \A y \in Pages : y \notin B /\ ~(y = p + n /\ s[p].n > n) => s2[y] = s[y]
  BY <1>2, <1>3, CarvedAt
<1>5. s2 \in [Pages -> Words] /\ Tiled(s2)
  BY <1>2, <1>3, CarvedTiled
<1>6. FreePageCount(s2) = pf - n
  BY <1>1, <1>2, <1>3, CarvedCount DEF FitOf
<1>7. \E gnx, gpv, gs, rk2 :
        /\ g = Parts(gnx, gpv, gs, pf)
        /\ \A y \in Pages : y \notin B => gs[y] = s2[y]
        /\ Detached(nx, gnx, gpv, s2, bs, rk2, B)
  <2>1. CASE s[p].n > n
    <3> DEFINE gnx == SplitNext(nx, pv, p, n)
               gpv == SplitPrev(nx, pv, s, p, n)
               gs == SplitSlab(s, p, n)
               rk2 == [rk EXCEPT ![p + n] = rk[p]]
    <3>1. g = SplitRun(h, p, n)
      BY <2>1 DEF s
    <3>2. SplitRun(Parts(nx, pv, s, pf), p, n) = Parts(gnx, gpv, gs, pf)
      BY SplitParts
    <3>3. n < s[p].n
      BY <1>3, <2>1
    <3>4. Detached(nx, gnx, gpv, s2, bs, rk2, B)
      <4> DEFINE pv1 == [pv EXCEPT ![p + s[p].n - 1] = Ptr(p + n, "PAGE")]
      <4>1. pv1 = [pv EXCEPT ![p + s[p].n - 1] = Ptr(p + n, "PAGE")]
        OBVIOUS
      <4> HIDE DEF pv1
      <4>2. Detached(nx, [[nx EXCEPT ![p + n] = nx[p]] EXCEPT ![pv[p].ref] = p + n],
                    PrevSet([pv1 EXCEPT ![p + n] = pv[p]], nx[p], Ptr(p + n, "PAGE")),
                    CarvedOf(s, p, n), bs, [rk EXCEPT ![p + n] = rk[p]], p .. p + n - 1)
        BY <1>1, <1>2, <3>3, <4>1, TakePart
      <4> QED
        BY <4>2 DEF pv1, SplitNext, SplitPrev
    <3>5. \A y \in Pages : y \notin B => gs[y] = s2[y]
      BY <1>2, <1>4, <2>1 DEF SplitSlab
    <3> HIDE DEF gnx, gpv, gs, rk2, g, s2
    <3> QED
      BY <1>1, <3>1, <3>2, <3>4, <3>5
  <2>2. CASE ~(s[p].n > n)
    <3>1. n = s[p].n
      BY <1>3, <2>2
    <3>2. g = Unlink(h, p)
      BY <2>2 DEF s
    <3> DEFINE gnx == [nx EXCEPT ![pv[p].ref] = nx[p]]
               gpv == PrevSet(pv, nx[p], pv[p])
    <3>3. Unlink(Parts(nx, pv, s, pf), p) = Parts(gnx, gpv, s, pf)
      BY UnlinkParts
    <3>4. Detached(nx, gnx, gpv, s2, bs, rk, B)
      <4>1. Detached(nx, [nx EXCEPT ![pv[p].ref] = nx[p]], PrevSet(pv, nx[p], pv[p]),
                    CarvedOf(s, p, s[p].n), bs, rk, p .. p + s[p].n - 1)
        BY <1>1, <1>2, TakeWhole
      <4> QED
        BY <3>1, <4>1
    <3>5. \A y \in Pages : y \notin B => s[y] = s2[y]
      BY <1>4, <2>2
    <3> HIDE DEF gnx, gpv, g, s2
    <3> QED
      BY <1>1, <3>2, <3>3, <3>4, <3>5
  <2> QED
    BY <2>1, <2>2
<1>8. PICK gnx, gpv, gs, rk2 :
        /\ g = Parts(gnx, gpv, gs, pf)
        /\ \A y \in Pages : y \notin B => gs[y] = s2[y]
        /\ Detached(nx, gnx, gpv, s2, bs, rk2, B)
  BY <1>7
<1> DEFINE nx2 == Blank(gnx, B)
           pv2 == BlankPrev(gpv, B)
<1>9. /\ FitOf(nx2, pv2, s2, FreePageCount(s2), bs, rk2, Null)
      /\ \A r \in Heads \ {Free} : nx2[r] = nx[r]
      /\ \A y \in B : nx2[y] = Null
  <2> HIDE DEF s2, nx2, pv2
  <2>1. n \in Nat /\ Detached(nx, gnx, gpv, s2, bs, rk2, p .. p + n - 1)
    BY <1>8
  <2>2. \A y \in p .. p + n - 1 : /\ y \in Pages /\ ~IsRun(s2[y])
                                  /\ s2[y].tag \in {"start", "busy"}
    BY <1>4
  <2>3. s2[p] = Start(n)
    BY <1>4
  <2>4. /\ FitOf(Blank(gnx, p .. p + n - 1), BlankPrev(gpv, p .. p + n - 1), s2,
                    FreePageCount(s2), bs, rk2, Null)
        /\ \A r \in Heads \ {Free} : Blank(gnx, p .. p + n - 1)[r] = nx[r]
        /\ \A y \in p .. p + n - 1 : Blank(gnx, p .. p + n - 1)[y] = Null
    <3>1. BlockTaken(nx, gnx, gpv, s2, bs, rk2, p, n)
      BY <1>5, <2>1, <2>2, <2>3 DEF BlockTaken
    <3> QED
      BY <3>1, BlankFit
  <2> QED
    BY <2>4 DEF nx2, pv2
<1>10. g.next = gnx /\ g.prev = gpv /\ g.slab = gs /\ g.pfree = pf
  BY <1>8 DEF Parts
<1> HIDE DEF g
<1>11. t = [next |-> [r \in DOMAIN g.next |-> IF r \in B THEN Null ELSE g.next[r]],
            prev |-> [r \in Pages |-> IF r \in B THEN NoPrev ELSE g.prev[r]],
            slab |-> [r \in Pages |-> IF r = p THEN Start(n)
                                      ELSE IF r \in B THEN Busy ELSE g.slab[r]],
            pfree |-> g.pfree - n]
  BY DEF TakeRun, g
<1>12. [r \in Pages |-> IF r = p THEN Start(n) ELSE IF r \in B THEN Busy ELSE gs[r]] = s2
  <2> SUFFICES ASSUME NEW y \in Pages
               PROVE  s2[y] = IF y = p THEN Start(n) ELSE IF y \in B THEN Busy ELSE gs[y]
    <3> HIDE DEF s2
    <3>1. s2 = [y \in Pages |-> s2[y]]
      BY <1>5
    <3> QED
      BY <3>1
  <2>1. y \in B /\ y # p => y \in p + 1 .. p + n - 1
    BY <1>3
  <2> HIDE DEF s2
  <2> QED
    BY <1>3, <1>4, <1>8, <2>1
<1> HIDE DEF t, s2, B
<1>13. t = Parts(nx2, pv2, s2, FreePageCount(s2))
  BY <1>6, <1>10, <1>11, <1>12 DEF Parts, Blank, BlankPrev
<1> HIDE DEF nx2, pv2
<1>14. Fit(t, bs, rk2, Null)
  BY <1>9, <1>13, OfIsFit
<1>15. t.slab = s2 /\ t.next = nx2
  BY <1>13 DEF Parts
<1>16. t.next[p] = Null /\ \A r \in Heads \ {Free} : t.next[r] = nx[r]
  <2>1. p \in B
    BY <1>3 DEF B
  <2> QED
    BY <1>9, <1>15, <2>1
<1> QED
  BY <1>14, <1>15, <1>16 DEF t, s2, nx, s

LEMMA CarvedApart ==
    ASSUME NEW s \in [Pages -> Words], Tiled(s), Apart(s), NEW p \in Pages, IsRun(s[p]),
           NEW n \in 1 .. s[p].n
    PROVE  Apart(CarvedOf(s, p, n))
<1> DEFINE s2 == CarvedOf(s, p, n)
           r == s[p].n
           B == p .. p + n - 1
<1>1. /\ \A y \in B : ~IsRun(s2[y]) /\ s2[y].tag \in {"start", "busy"}
      /\ r > n => s2[p + n] = Run(r - n)
      /\ \A y \in Pages : y \notin B /\ ~(y = p + n /\ r > n) => s2[y] = s[y]
  BY CarvedAt
<1>2. s[p] \in Words /\ r \in Nat /\ p \in Nat /\ p + r <= NPages /\ n \in Nat \ {0} /\ n <= r
      /\ \A y \in p + 1 .. p + r - 1 : s[y] = Run(0)
  <2>1. s[p] \in Words /\ r \in Nat /\ p \in Nat /\ Spans(s[p]) /\ s[p].tag = "run"
    BY WordKinds, WordsTyped, RefsApart
  <2>2. p + r <= NPages /\ \A y \in p + 1 .. p + r - 1 : s[y] = Further(s[p])
    BY <2>1, SpanOf
  <2> QED
    BY <2>1, <2>2 DEF Further
<1> HIDE DEF s2, r
<1>3. ASSUME NEW y \in Pages, s2[y].tag = "run" PROVE s[y].tag = "run" /\ y \notin B
  <2>1. y \notin B
    BY <1>1, <1>3
  <2>2. CASE y = p + n /\ r > n
    <3>1. y \in p + 1 .. p + r - 1
      BY <1>2, <2>2
    <3>2. s[y] = Run(0)
      BY <1>2, <3>1
    <3> QED
      BY <2>1, <3>2 DEF Run
  <2>3. CASE ~(y = p + n /\ r > n)
    BY <1>1, <1>3, <2>1, <2>3
  <2> QED
    BY <2>2, <2>3
<1>4. ASSUME NEW x \in Pages, IsRun(s2[x]), x + s2[x].n < NPages
      PROVE  s2[x + s2[x].n].tag # "run"
  <2>1. x \notin B /\ x \in Nat
    BY <1>1, <1>4, RefsApart
  <2>2. CASE x = p + n /\ r > n
    <3>1. x + s2[x].n = p + r
      BY <1>1, <1>2, <2>2 DEF Run
    <3>2. p + r < NPages /\ p + r \in Pages
      BY <1>2, <1>4, <3>1, SlabAssumption DEF Pages
    <3>3. s[p + r].tag # "run"
      BY <3>2 DEF Apart, r
    <3> QED
      BY <1>3, <3>1, <3>2, <3>3
  <2>3. CASE ~(x = p + n /\ r > n)
    <3>1. s2[x] = s[x]
      BY <1>1, <2>1, <2>3
    <3>2. s[x + s[x].n].tag # "run"
      BY <1>4, <3>1 DEF Apart
    <3>3. s[x].n \in Nat
      BY WordsTyped
    <3>4. x + s[x].n \in Pages
      BY SMTT(30), <1>4, <2>1, <3>1, <3>3, SlabAssumption DEF Pages
    <3> QED
      BY <1>3, <3>1, <3>2, <3>4
  <2> QED
    BY <2>2, <2>3
<1> QED
  BY <1>4 DEF Apart, s2

-------------------------------------------------------------------------------
(* Pages become free.                                                        *)

\* What Cleared sets.
LEMMA ClearedParts ==
    ASSUME NEW nx, NEW pv, NEW s, NEW pf, NEW p, NEW n, NEW nx1, NEW pv1,
           nx1 = Blank(nx, p + 1 .. p + n - 1), pv1 = BlankPrev(pv, p + 1 .. p + n - 1)
    PROVE  Cleared(Parts(nx, pv, s, pf), p, n) =
             IF nx[p] # Null THEN Unlink(Parts(nx1, pv1, FreedOf(s, p, n), pf + n), p)
             ELSE Parts(nx1, pv1, FreedOf(s, p, n), pf + n)
<1> DEFINE h == Parts(nx, pv, s, pf)
           rest == p + 1 .. p + n - 1
           s2 == [r \in Pages |-> IF r = p THEN Run(n)
                                  ELSE IF r \in rest THEN Run(0) ELSE s[r]]
           nxb == [r \in DOMAIN nx |-> IF r \in rest THEN Null ELSE nx[r]]
           pvb == [r \in Pages |-> IF r \in rest THEN NoPrev ELSE pv[r]]
           g == [h EXCEPT !.pfree = @ + n,
                       !.slab = [r \in Pages |-> IF r = p THEN Run(n)
                                  ELSE IF r \in rest THEN Run(0) ELSE @[r]],
                       !.next = [r \in DOMAIN @ |-> IF r \in rest THEN Null ELSE @[r]],
                       !.prev = [r \in Pages |-> IF r \in rest THEN NoPrev ELSE @[r]]]
<1>1. h.next = nx /\ h.prev = pv /\ h.slab = s /\ h.pfree = pf
  BY DEF Parts
<1>2. g = [h EXCEPT !.pfree = h.pfree + n,
                    !.slab = [r \in Pages |-> IF r = p THEN Run(n)
                                  ELSE IF r \in rest THEN Run(0) ELSE h.slab[r]],
                    !.next = [r \in DOMAIN h.next |-> IF r \in rest THEN Null ELSE h.next[r]],
                    !.prev = [r \in Pages |-> IF r \in rest THEN NoPrev ELSE h.prev[r]]]
  BY DEF Parts
<1>3. g = Parts(nxb, pvb, s2, pf + n)
  <2>1. g = [h EXCEPT !.pfree = pf + n, !.slab = s2, !.next = nxb, !.prev = pvb]
    <3> HIDE DEF g, h, rest
    <3> QED
      BY <1>1, <1>2
  <2> HIDE DEF g, nxb, pvb, s2, rest
  <2> QED
    BY <2>1 DEF Parts
<1>4. Cleared(h, p, n) = IF nx[p] # Null THEN Unlink(g, p) ELSE g
  <2> HIDE DEF h
  <2> QED
    BY <1>1 DEF Cleared
<1>5. s2 = FreedOf(s, p, n)
  BY DEF FreedOf
<1>6. nx1 = nxb /\ pv1 = pvb
  BY DEF Blank, BlankPrev
<1> HIDE DEF g, h, nxb, pvb, s2
<1>7. Cleared(h, p, n) =
        IF nx[p] # Null THEN Unlink(Parts(nx1, pv1, FreedOf(s, p, n), pf + n), p)
        ELSE Parts(nx1, pv1, FreedOf(s, p, n), pf + n)
  BY <1>3, <1>4, <1>5, <1>6
<1> QED
  BY <1>7 DEF h

\* The words after pages were freed.
LEMMA FreedAt ==
    ASSUME NEW s \in [Pages -> Words], Tiled(s), NEW p \in Pages, NEW n, Used(s, p, n)
    PROVE  /\ FreedOf(s, p, n)[p] = Run(n) /\ IsRun(FreedOf(s, p, n)[p])
           /\ \A y \in p + 1 .. p + n - 1 : y \in Pages /\ FreedOf(s, p, n)[y] = Run(0)
                                            /\ s[y] = Busy
           /\ \A y \in Pages : y \notin p .. p + n - 1 => FreedOf(s, p, n)[y] = s[y]
<1>1. /\ n \in Nat \ {0} /\ \A q \in p + 1 .. p + n - 1 : q \in Pages /\ s[q] = Busy
  BY UsedSpan
<1>2. p \in Nat
  BY RefsApart
<1>3. FreedOf(s, p, n)[p] = Run(n)
  BY DEF FreedOf
<1>4. \A y \in p + 1 .. p + n - 1 : y # p /\ (y \in Pages => FreedOf(s, p, n)[y] = Run(0))
  BY <1>2 DEF FreedOf
<1>5. ASSUME NEW y \in Pages, y \notin p .. p + n - 1 PROVE FreedOf(s, p, n)[y] = s[y]
  <2>1. y # p /\ y \notin p + 1 .. p + n - 1
    BY <1>1, <1>2, <1>5
  <2> QED
    BY <2>1 DEF FreedOf
<1> QED
  BY <1>1, <1>3, <1>4, <1>5, WordKinds

\* Links that change on unlisted pages of B only.
LEMMA BlankedSame ==
    ASSUME NEW nx, NEW pv, NEW own, NEW rk, NEW B,
           Linked(nx, pv, own, rk), B \subseteq Pages, \A y \in B : own[y] = Null
    PROVE  /\ Linked(Blank(nx, B), BlankPrev(pv, B), own, rk)
           /\ \A r \in Pages \cup Heads : Blank(nx, B)[r] = IF r \in B THEN Null ELSE nx[r]
           /\ \A r \in Pages : BlankPrev(pv, B)[r] = IF r \in B THEN NoPrev ELSE pv[r]
<1>1. nx \in [Pages \cup Heads -> Refs] /\ pv \in [Pages -> Ptrs]
  BY DEF Linked, LinkedTypes
<1> DEFINE nx2 == Blank(nx, B)
           pv2 == BlankPrev(pv, B)
<1>2. nx2 \in [Pages \cup Heads -> Refs] /\ pv2 \in [Pages -> Ptrs]
  BY <1>1, RefsApart, WordsTyped DEF Blank, BlankPrev
<1>3. /\ \A r \in Pages \cup Heads : nx2[r] = IF r \in B THEN Null ELSE nx[r]
      /\ \A r \in Pages : pv2[r] = IF r \in B THEN NoPrev ELSE pv[r]
  BY <1>1 DEF Blank, BlankPrev
<1> HIDE DEF nx2, pv2
<1>4. /\ \A r \in Pages \cup Heads : own[r] # Null => nx2[r] = nx[r]
      /\ \A r \in Pages : own[r] # Null => pv2[r] = pv[r]
  BY <1>3
<1>5. Linked(nx2, pv2, own, rk)
  BY <1>2, <1>4, LinkedSame
<1> QED
  BY <1>3, <1>5 DEF nx2, pv2

\* The first part of dl_slab_free_pages makes a run of the pages, in no list yet.
LEMMA ClearedFit ==
    ASSUME NEW h, NEW bs, NEW rk, Fit(h, bs, rk, Null), bs \in [Pages -> SUBSET Nat],
           NEW p \in Pages, NEW n, Used(h.slab, p, n)
    PROVE  /\ Fit(Cleared(h, p, n), [bs EXCEPT ![p] = {}], rk, p)
           /\ Cleared(h, p, n).slab = FreedOf(h.slab, p, n)
           /\ \A i \in Slots : ListOf(h.slab[p], bs[p]) # SlotHead(i) =>
                 Cleared(h, p, n).next[SlotHead(i)] = h.next[SlotHead(i)]
<1> DEFINE nx == h.next
           pv == h.prev
           s == h.slab
           pf == h.pfree
           rest == p + 1 .. p + n - 1
           own == Own(s, bs, Null)
           own2 == [own EXCEPT ![p] = Null]
           bs2 == [bs EXCEPT ![p] = {}]
           s2 == FreedOf(s, p, n)
           g == Cleared(h, p, n)
<1>1. FitOf(nx, pv, s, pf, bs, rk, Null) /\ h = Parts(nx, pv, s, pf)
  BY FitIsOf
<1>2. Used(s, p, n)
  OBVIOUS
<1> HIDE DEF nx, pv, s, pf
<1>3. /\ nx \in [Pages \cup Heads -> Refs] /\ pv \in [Pages -> Ptrs]
      /\ s \in [Pages -> Words] /\ Tiled(s) /\ pf \in Int
      /\ own \in Owners /\ Linked(nx, pv, own, rk)
  BY <1>1, FitTypes
<1>4. /\ n \in Nat \ {0} /\ p \in Nat /\ ~Inner(s[p]) /\ ~IsRun(s[p]) /\ p # Null /\ p \notin rest
  BY <1>2, <1>3, UsedSpan, RefsApart
<1>5. /\ s2[p] = Run(n) /\ IsRun(s2[p])
      /\ \A y \in rest : y \in Pages /\ s2[y] = Run(0) /\ s[y] = Busy
      /\ \A y \in Pages : y \notin p .. p + n - 1 => s2[y] = s[y]
  BY <1>2, <1>3, FreedAt
<1>6. s2 \in [Pages -> Words] /\ Tiled(s2) /\ FreePageCount(s2) = FreePageCount(s) + n
  BY <1>2, <1>3, FreedTiled, FreedCount
<1>7. \A y \in Pages : y = p \/ y \in rest \/ y \notin p .. p + n - 1
  BY <1>4, RefsApart
<1> DEFINE nx1 == Blank(nx, p + 1 .. p + n - 1)
           pv1 == BlankPrev(pv, p + 1 .. p + n - 1)
<1>0. nx1 = Blank(nx, p + 1 .. p + n - 1) /\ pv1 = BlankPrev(pv, p + 1 .. p + n - 1)
  OBVIOUS
<1> HIDE DEF nx1, pv1
<1>8. Cleared(Parts(nx, pv, s, pf), p, n) =
        IF nx[p] # Null THEN Unlink(Parts(nx1, pv1, FreedOf(s, p, n), pf + n), p)
        ELSE Parts(nx1, pv1, FreedOf(s, p, n), pf + n)
  BY <1>0, ClearedParts
<1> HIDE DEF rest, own, s2
<1>9. /\ \A y \in Pages : own[y] = ListOf(s[y], bs[y])
      /\ \A r \in Heads : own[r] = r
  BY OwnAt, RefsApart DEF own
<1>10. \A y \in rest : own[y] = Null
  <2> SUFFICES ASSUME NEW y \in rest PROVE own[y] = Null
    OBVIOUS
  <2>1. y \in Pages /\ s[y] = Busy
    BY <1>5
  <2>2. ~IsRun(s[y]) /\ s[y].tag # "cut"
    BY <2>1 DEF IsRun, Busy
  <2> QED
    BY <1>9, <2>1, <2>2, ListsOfWords
<1>11. /\ Linked(nx1, pv1, own, rk)
       /\ \A r \in Pages \cup Heads : nx1[r] = IF r \in rest THEN Null ELSE nx[r]
       /\ \A r \in Pages : pv1[r] = IF r \in rest THEN NoPrev ELSE pv[r]
  <2>1. rest \subseteq Pages
    BY <1>5
  <2>2. nx1 = Blank(nx, rest) /\ pv1 = BlankPrev(pv, rest)
    BY <1>0 DEF rest
  <2> QED
    BY <1>3, <1>10, <2>1, <2>2, BlankedSame
<1>12. /\ nx1[p] = nx[p] /\ pv1[p] = pv[p]
       /\ nx[p] = Null <=> own[p] = Null
  <2>1. nx[p] = Null <=> ListOf(s[p], bs[p]) = Null
    BY <1>1, <1>4 DEF FitOf
  <2> QED
    BY <1>4, <1>9, <1>11, <2>1
<1>13. \E gnx, gpv :
         /\ g = Parts(gnx, gpv, s2, pf + n)
         /\ Linked(gnx, gpv, own2, rk)
         /\ \A y \in Pages \ {p} : /\ gnx[y] = Null <=> nx1[y] = Null
                                   /\ gpv[y].type = pv1[y].type
                                   /\ own[y] = Null => gpv[y] = pv1[y]
         /\ \A r \in Heads : r # own[p] => gnx[r] = nx1[r]
  <2>1. CASE own[p] = Null
    <3>1. own2 = own
      <4>1. own \in [Pages \cup Heads -> Heads \cup {Null}]
        BY <1>3 DEF Owners
      <4> QED
        BY <2>1, <4>1
    <3>2. g = Parts(nx1, pv1, s2, pf + n)
      BY <1>1, <1>8, <1>12, <2>1 DEF s2
    <3> HIDE DEF own2, g
    <3> QED
      BY <1>11, <3>1, <3>2
  <2>2. CASE own[p] # Null
    <3>1. g = Unlink(Parts(nx1, pv1, s2, pf + n), p)
      BY <1>1, <1>8, <1>12, <2>2 DEF s2
    <3> DEFINE gnx == [nx1 EXCEPT ![pv1[p].ref] = nx1[p]]
               gpv == PrevSet(pv1, nx1[p], pv1[p])
    <3>2. Unlink(Parts(nx1, pv1, s2, pf + n), p) = Parts(gnx, gpv, s2, pf + n)
      <4> DEFINE m == pf + n
      <4> HIDE DEF m
      <4>1. Unlink(Parts(nx1, pv1, s2, m), p) =
             Parts([nx1 EXCEPT ![pv1[p].ref] = nx1[p]], PrevSet(pv1, nx1[p], pv1[p]), s2, m)
        BY ONLY UnlinkParts
      <4> QED
        BY <4>1 DEF m
    <3>3. Linked(gnx, gpv, own2, rk)
      BY <1>11, <2>2, LinkedUnlink
    <3>4. Quiet(nx1, pv1, own, gnx, gpv, {p}, own[p])
      BY <1>11, <2>2, UnlinkQuiet
    <3> HIDE DEF gnx, gpv, own2, g
    <3>5. /\ \A y \in Pages \ {p} : /\ gnx[y] = Null <=> nx1[y] = Null
                                    /\ gpv[y].type = pv1[y].type
                                    /\ own[y] = Null => gpv[y] = pv1[y]
          /\ \A r \in Heads : r # own[p] => gnx[r] = nx1[r]
      BY <3>4 DEF Quiet
    <3> QED
      BY <3>1, <3>2, <3>3, <3>5
  <2> QED
    BY <2>1, <2>2
<1>14. PICK gnx, gpv :
         /\ g = Parts(gnx, gpv, s2, pf + n)
         /\ Linked(gnx, gpv, own2, rk)
         /\ \A y \in Pages \ {p} : /\ gnx[y] = Null <=> nx1[y] = Null
                                   /\ gpv[y].type = pv1[y].type
                                   /\ own[y] = Null => gpv[y] = pv1[y]
         /\ \A r \in Heads : r # own[p] => gnx[r] = nx1[r]
  BY <1>13
<1> HIDE DEF g
<1>15. Own(s2, bs2, p) = own2
  <2>1. own2 \in Owners
    BY <1>14 DEF Linked, LinkedTypes
  <2>2. own \in [Pages \cup Heads -> Heads \cup {Null}]
    BY <1>3 DEF Owners
  <2>3. ASSUME NEW y \in Pages PROVE own2[y] = IF y = p THEN Null ELSE ListOf(s2[y], bs2[y])
    <3>1. CASE y = p
      BY <2>2, <3>1
    <3>2. CASE y # p /\ y \in rest
      <4>1. ListOf(s2[y], bs2[y]) = Null
        <5>1. ~IsRun(s2[y]) /\ s2[y].tag # "cut"
          BY <1>5, <3>2, WordKinds, WordsTyped
        <5> QED
          BY <5>1, ListsOfWords
      <4> QED
        BY <1>10, <2>2, <3>2, <4>1
    <3>3. CASE y # p /\ y \notin rest
      <4>1. s2[y] = s[y] /\ bs2[y] = bs[y]
        BY <1>5, <1>7, <3>3
      <4> QED
        BY <1>9, <2>2, <3>3, <4>1
    <3> QED
      BY <3>1, <3>2, <3>3
  <2> HIDE DEF own2, bs2
  <2> QED
    BY <2>1, <2>3, OwnIs
<1>16. ASSUME NEW y \in Pages \ {p}
       PROVE  /\ gnx[y] = Null <=> ListOf(s2[y], bs2[y]) = Null
              /\ gpv[y].type = KindOf(s2[y])
  <2>1. (gnx[y] = Null <=> nx1[y] = Null) /\ gpv[y].type = pv1[y].type
    BY <1>14
  <2>2. CASE y \in rest
    <3>1. ~IsRun(s2[y]) /\ s2[y].tag # "cut"
      BY <1>5, <2>2, WordKinds, WordsTyped
    <3>2. ListOf(s2[y], bs2[y]) = Null /\ KindOf(s2[y]) = "PAGE"
      BY <3>1, ListsOfWords
    <3> QED
      BY <1>11, <2>1, <2>2, <3>2, WordsTyped
  <2>3. CASE y \notin rest
    <3>1. s2[y] = s[y] /\ bs2[y] = bs[y] /\ y # Null
      BY <1>5, <1>7, <2>3, RefsApart
    <3>2. (nx[y] = Null <=> ListOf(s[y], bs[y]) = Null) /\ pv[y].type = KindOf(s[y])
      BY <1>1, <3>1 DEF FitOf
    <3> QED
      BY <1>11, <2>1, <2>3, <3>1, <3>2
  <2> QED
    BY <2>2, <2>3
<1>17. Tails(s2, gpv, p)
  <2> SUFFICES ASSUME NEW x \in Pages \ {p}, IsRun(s2[x]), s2[x].n > 1, x + s2[x].n < NPages
               PROVE  gpv[x + s2[x].n - 1] = Ptr(x, "PAGE")
    BY DEF Tails
  <2>1. x \notin rest
    BY <1>5, WordKinds
  <2>2. s2[x] = s[x] /\ s[x] \in Words /\ x \in Nat /\ x # Null
    BY <1>3, <1>5, <1>7, <2>1, RefsApart
  <2>3. Spans(s[x]) /\ s[x].tag = "run" /\ s[x].n \in Nat
    BY <2>2, WordKinds, WordsTyped
  <2> DEFINE e == x + s[x].n - 1
  <2>4. e \in Pages /\ s[e] = Run(0)
    <3>1. \A q \in x + 1 .. x + s[x].n - 1 : q \in Pages /\ s[q] = Further(s[x])
      BY <1>3, <2>3, SpanOf
    <3>2. e \in x + 1 .. x + s[x].n - 1
      BY <2>2, <2>3
    <3> QED
      BY <2>3, <3>1, <3>2 DEF Further
  <2>5. pv[e] = Ptr(x, "PAGE")
    BY <1>1, <2>2 DEF FitOf, Tails
  <2> HIDE DEF e
  <2>6. e # p /\ e \notin rest
    <3>1. Inner(Run(0)) /\ Run(0) # Busy
      BY WordKinds DEF Run, Busy
    <3> QED
      BY <1>4, <1>5, <2>4, <3>1
  <2>7. own[e] = Null
    <3>1. ~IsRun(Run(0)) /\ Run(0).tag = "run"
      BY WordKinds DEF Run
    <3>2. ListOf(s[e], bs[e]) = Null
      BY <2>4, <3>1, ListsOfWords
    <3> QED
      BY <1>9, <2>4, <3>2
  <2>8. gpv[e] = pv1[e] /\ pv1[e] = pv[e]
    BY <1>11, <1>14, <2>4, <2>6, <2>7
  <2> QED
    BY <2>2, <2>5, <2>8 DEF e
<1>18. FitOf(gnx, gpv, s2, pf + n, bs2, rk, p)
  <2>1. pf = FreePageCount(s)
    BY <1>1 DEF FitOf
  <2>2. Linked(gnx, gpv, Own(s2, bs2, p), rk)
    BY <1>14, <1>15
  <2> HIDE DEF bs2, own2
  <2> QED
    BY <1>5, <1>6, <1>16, <1>17, <2>1, <2>2 DEF FitOf
<1>19. Fit(g, bs2, rk, p)
  <2> HIDE DEF bs2
  <2> DEFINE m == pf + n
  <2>1. FitOf(gnx, gpv, s2, m, bs2, rk, p)
    BY <1>18
  <2> HIDE DEF m
  <2>2. Fit(Parts(gnx, gpv, s2, m), bs2, rk, p)
    BY <2>1, OfIsFit
  <2> QED
    BY <1>14, <2>2 DEF m
<1>20. g.slab = s2 /\ g.next = gnx
  BY <1>14 DEF Parts
<1>21. \A i \in Slots : ListOf(s[p], bs[p]) # SlotHead(i) => g.next[SlotHead(i)] = nx[SlotHead(i)]
  <2> SUFFICES ASSUME NEW i \in Slots, ListOf(s[p], bs[p]) # SlotHead(i)
               PROVE  gnx[SlotHead(i)] = nx[SlotHead(i)]
    BY <1>20
  <2>1. SlotHead(i) \in Heads /\ SlotHead(i) # own[p]
    BY <1>9, RefsApart
  <2>2. SlotHead(i) \notin rest
    BY <1>5, <2>1, RefsApart
  <2> QED
    BY <1>11, <1>14, <2>1, <2>2
<1> QED
  BY <1>19, <1>20, <1>21 DEF g, s2, s, nx

\* What Forget sets.
LEMMA ForgetParts ==
    ASSUME NEW nx, NEW pv, NEW s, NEW pf, NEW y
    PROVE  Forget(Parts(nx, pv, s, pf), y) =
             Parts([nx EXCEPT ![y] = Null], [pv EXCEPT ![y] = NoPrev],
                   [s EXCEPT ![y] = Run(0)], pf)
<1> DEFINE h == Parts(nx, pv, s, pf)
           s2 == [s EXCEPT ![y] = Run(0)]
           nx2 == [nx EXCEPT ![y] = Null]
           pv2 == [pv EXCEPT ![y] = NoPrev]
           h1 == [h EXCEPT !.slab[y] = Run(0)]
           h2 == [h1 EXCEPT !.next[y] = Null]
           h3 == [h2 EXCEPT !.prev[y] = NoPrev]
<1>1. Forget(h, y) = h3
  <2> HIDE DEF h
  <2> QED
    BY DEF Forget
<1>2. h1 = Parts(nx, pv, s2, pf)
  BY DEF Parts
<1> HIDE DEF h1, s2
<1>3. h2 = Parts(nx2, pv, s2, pf)
  BY <1>2 DEF Parts
<1> HIDE DEF h2, nx2
<1>4. h3 = Parts(nx2, pv2, s2, pf)
  BY <1>3 DEF Parts
<1> HIDE DEF h3
<1> QED
  BY <1>1, <1>4 DEF s2, nx2

\* Run l leaves the free list and merges with run f, which is in no list.
Merging(h, bs, rk, f, l, x, y) ==
    /\ Fit(h, bs, rk, f) /\ x \in Pages /\ y \in Pages
    /\ IsRun(h.slab[x]) /\ IsRun(h.slab[y]) /\ y = x + h.slab[x].n
    /\ (f = x /\ l = y) \/ (f = y /\ l = x)

Merge(h, l, x, y, w) == Forget([Unlink(h, l) EXCEPT !.slab[x] = w], y)

LEMMA MergeFit ==
    ASSUME NEW h, NEW bs, NEW rk, NEW f, NEW l, NEW x, NEW y, Merging(h, bs, rk, f, l, x, y),
           NEW w, w = Run(h.slab[x].n + h.slab[y].n)
    PROVE  /\ Fit(Merge(h, l, x, y, w), bs, rk, x)
           /\ Merge(h, l, x, y, w).slab = JoinedOf(h.slab, x, y)
           /\ \A r \in Heads \ {Free} : Merge(h, l, x, y, w).next[r] = h.next[r]
<1> DEFINE nx == h.next
           pv == h.prev
           s == h.slab
           pf == h.pfree
           own == Own(s, bs, f)
           own2 == [own EXCEPT ![l] = Null]
           s2 == JoinedOf(s, x, y)
           g == Merge(h, l, x, y, w)
           nx1 == [nx EXCEPT ![pv[l].ref] = nx[l]]
           pv1 == PrevSet(pv, nx[l], pv[l])
           nx2 == [nx1 EXCEPT ![y] = Null]
           pv2 == [pv1 EXCEPT ![y] = NoPrev]
<1>1. Fit(h, bs, rk, f)
  BY DEF Merging
<1>2. FitOf(nx, pv, s, pf, bs, rk, f) /\ h = Parts(nx, pv, s, pf)
  BY <1>1, FitIsOf
<1>3. /\ x \in Pages /\ y \in Pages /\ IsRun(s[x]) /\ IsRun(s[y]) /\ y = x + s[x].n
      /\ (f = x /\ l = y) \/ (f = y /\ l = x)
      /\ w = Run(s[x].n + s[y].n)
  BY DEF Merging
<1> HIDE DEF nx, pv, s, pf
<1>4. /\ nx \in [Pages \cup Heads -> Refs] /\ pv \in [Pages -> Ptrs]
      /\ s \in [Pages -> Words] /\ Tiled(s) /\ pf \in Int
      /\ own \in Owners /\ Linked(nx, pv, own, rk)
  BY <1>2, FitTypes
<1>5. s[x].n \in Nat \ {0} /\ s[y].n \in Nat \ {0} /\ x \in Nat /\ x # y /\ x # Null /\ y # Null
  BY <1>3, <1>4, WordKinds, RefsApart
<1>6. s2 \in [Pages -> Words] /\ Tiled(s2)
  BY <1>3, <1>4, JoinedTiled
<1>7. /\ s2[x] = w /\ s2[y] = Run(0) /\ IsRun(w) /\ w.tag = "run"
      /\ \A z \in Pages : z # x /\ z # y => s2[z] = s[z]
      /\ s2 = [[s EXCEPT ![x] = w] EXCEPT ![y] = Run(0)]
  <2>1. s[x].n + s[y].n \in Nat \ {0}
    BY <1>5
  <2>2. IsRun(w) /\ w.tag = "run"
    BY SMTT(30), <1>3, <2>1, WordKinds DEF IsRun
  <2> QED
    BY <1>3, <1>4, <1>5, <2>2 DEF JoinedOf
<1>8. FreePageCount(s2) = FreePageCount(s)
  <2>1. s[x].tag = "run" /\ s[y].tag = "run" /\ Run(0).tag = "run"
    BY <1>3 DEF IsRun, Run
  <2> HIDE DEF s2
  <2>2. \A q \in Pages : s2[q].tag = "run" <=> s[q].tag = "run"
    BY <1>7, <2>1
  <2> QED
    BY <2>2, SameCount
<1> HIDE DEF own, s2
<1>9. /\ \A z \in Pages : own[z] = IF z = f THEN Null ELSE ListOf(s[z], bs[z])
      /\ \A r \in Heads : own[r] = r
  BY OwnAt DEF own
<1>10. l \in Pages /\ l # f /\ own[l] = Free /\ own[l] # Null /\ own[f] = Null /\ f \in Pages
  BY <1>3, <1>5, <1>9, ListsOfWords
<1>11. Linked(nx1, pv1, own2, rk)
  BY <1>4, <1>10, LinkedUnlink
<1>12. Quiet(nx, pv, own, nx1, pv1, {l}, Free)
  BY <1>4, <1>10, UnlinkQuiet
<1> HIDE DEF nx1, pv1
<1>13. /\ own2 \in Owners
       /\ nx1 \in [Pages \cup Heads -> Refs] /\ pv1 \in [Pages -> Ptrs]
  BY <1>11 DEF Linked, LinkedTypes
<1>14. /\ own2[l] = Null /\ \A z \in Pages \cup Heads : z # l => own2[z] = own[z]
  <2>1. own \in [Pages \cup Heads -> Heads \cup {Null}]
    BY <1>4 DEF Owners
  <2> QED
    BY <1>10, <2>1
<1>15. own2[y] = Null
  BY <1>3, <1>10, <1>14
<1>16. /\ nx2 \in [Pages \cup Heads -> Refs] /\ pv2 \in [Pages -> Ptrs]
       /\ nx2[y] = Null /\ pv2[y] = NoPrev
       /\ \A z \in Pages \cup Heads : z # y => nx2[z] = nx1[z]
       /\ \A z \in Pages : z # y => pv2[z] = pv1[z]
  BY <1>3, <1>13, RefsApart, WordsTyped
<1> HIDE DEF nx2, pv2, own2
<1>17. Linked(nx2, pv2, own2, rk)
  <2>1. /\ \A z \in Pages \cup Heads : own2[z] # Null => nx2[z] = nx1[z]
        /\ \A z \in Pages : own2[z] # Null => pv2[z] = pv1[z]
    BY <1>15, <1>16
  <2> QED
    BY <1>11, <1>16, <2>1, LinkedSame
<1>18. Own(s2, bs, x) = own2
  <2>1. ASSUME NEW z \in Pages PROVE own2[z] = IF z = x THEN Null ELSE ListOf(s2[z], bs[z])
    <3>1. CASE z = x
      BY <1>3, <1>10, <1>14, <3>1
    <3>2. CASE z = y
      <4>1. ~IsRun(Run(0)) /\ Run(0).tag = "run"
        BY WordKinds DEF Run
      <4>2. ListOf(s2[z], bs[z]) = Null
        BY <1>7, <3>2, <4>1, ListsOfWords
      <4> QED
        BY <1>15, <3>2, <4>2
    <3>3. CASE z # x /\ z # y
      BY <1>3, <1>7, <1>9, <1>14, <3>3
    <3> QED
      BY <3>1, <3>2, <3>3
  <2> QED
    BY <1>13, <2>1, OwnIs
<1>19. ASSUME NEW z \in Pages \ {x}
       PROVE  /\ nx2[z] = Null <=> ListOf(s2[z], bs[z]) = Null
              /\ pv2[z].type = KindOf(s2[z])
  <2>1. CASE z = y
    <3>1. ~IsRun(Run(0)) /\ Run(0).tag = "run"
      BY WordKinds DEF Run
    <3>2. ListOf(s2[z], bs[z]) = Null /\ KindOf(s2[z]) = "PAGE"
      BY <1>7, <2>1, <3>1, ListsOfWords
    <3> QED
      BY <1>16, <2>1, <3>2, WordsTyped
  <2>2. CASE z # y
    <3>1. z # l /\ z # f /\ s2[z] = s[z]
      BY <1>3, <1>7, <2>2
    <3>2. (nx[z] = Null <=> ListOf(s[z], bs[z]) = Null) /\ pv[z].type = KindOf(s[z])
      BY <1>2, <3>1 DEF FitOf
    <3>3. (nx1[z] = Null <=> nx[z] = Null) /\ pv1[z].type = pv[z].type
      BY <1>12, <3>1 DEF Quiet
    <3> QED
      BY <1>16, <2>2, <3>1, <3>2, <3>3
  <2> QED
    BY <2>1, <2>2
<1>20. Tails(s2, pv2, x)
  <2> SUFFICES ASSUME NEW z \in Pages \ {x}, IsRun(s2[z]), s2[z].n > 1, z + s2[z].n < NPages
               PROVE  pv2[z + s2[z].n - 1] = Ptr(z, "PAGE")
    BY DEF Tails
  <2>1. z # y
    BY <1>7, WordKinds
  <2>2. s2[z] = s[z] /\ s[z] \in Words /\ z # f
    BY <1>3, <1>4, <1>7, <2>1
  <2>3. Spans(s[z]) /\ Spans(s[x])
    BY <1>3, <1>4, <2>2, WordKinds
  <2> DEFINE e == z + s[z].n - 1
  <2>4. e \in Pages /\ Inner(s[e])
    BY <1>3, <1>4, <2>2, <2>3, SpansApart
  <2>5. pv[e] = Ptr(z, "PAGE")
    BY <1>2, <2>2 DEF FitOf, Tails
  <2> HIDE DEF e
  <2>6. ~IsRun(s[e]) /\ s[e].tag # "cut"
    BY <1>4, <2>4, WordKinds
  <2>7. e # x /\ e # y /\ e # l /\ own[e] = Null
    BY <1>3, <1>9, <2>4, <2>6, ListsOfWords
  <2>8. pv2[e] = pv[e]
    BY <1>12, <1>16, <2>4, <2>7 DEF Quiet
  <2> QED
    BY <2>2, <2>5, <2>8 DEF e
<1>21. FitOf(nx2, pv2, s2, pf, bs, rk, x)
  <2>1. pf = FreePageCount(s2)
    BY <1>2, <1>8 DEF FitOf
  <2>2. Linked(nx2, pv2, Own(s2, bs, x), rk)
    BY <1>17, <1>18
  <2> QED
    BY <1>3, <1>6, <1>7, <1>19, <1>20, <2>1, <2>2 DEF FitOf
<1>22. g = Parts(nx2, pv2, s2, pf)
  <2>1. Unlink(Parts(nx, pv, s, pf), l) = Parts(nx1, pv1, s, pf)
    BY ONLY UnlinkParts DEF nx1, pv1
  <2>2. Unlink(h, l) = Parts(nx1, pv1, s, pf)
    BY <1>2, <2>1
  <2>3. g = Forget([Parts(nx1, pv1, s, pf) EXCEPT !.slab[x] = w], y)
    BY ONLY <2>2 DEF Merge
  <2> DEFINE s1 == [s EXCEPT ![x] = w]
  <2>4. [Parts(nx1, pv1, s, pf) EXCEPT !.slab[x] = w] = Parts(nx1, pv1, s1, pf)
    BY DEF Parts
  <2> HIDE DEF s1
  <2>5. Forget(Parts(nx1, pv1, s1, pf), y) =
             Parts([nx1 EXCEPT ![y] = Null], [pv1 EXCEPT ![y] = NoPrev],
                   [s1 EXCEPT ![y] = Run(0)], pf)
    BY ONLY ForgetParts
  <2>6. g = Forget(Parts(nx1, pv1, s1, pf), y)
    BY ONLY <2>3, <2>4
  <2> HIDE DEF g
  <2> QED
    BY <1>7, <2>5, <2>6 DEF nx2, pv2, s1
<1> HIDE DEF g
<1>23. Fit(g, bs, rk, x)
  BY <1>21, <1>22, OfIsFit
<1>24. g.slab = s2 /\ g.next = nx2
  BY <1>22 DEF Parts
<1>25. \A r \in Heads \ {Free} : nx2[r] = nx[r]
  BY <1>3, <1>12, <1>16, RefsApart DEF Quiet
<1> QED
  BY <1>23, <1>24, <1>25 DEF g, s2, s, nx

\* Behind a run or block begins a run, a block or a cut page.
LEMMA AfterSpan ==
    ASSUME NEW s \in [Pages -> Words], Tiled(s), NEW p \in Pages, Spans(s[p]),
           p + s[p].n < NPages
    PROVE  p + s[p].n \in Pages /\ ~Inner(s[p + s[p].n])
<1> DEFINE z == p + s[p].n
<1>1. s[p].n \in Nat \ {0} /\ p \in Nat /\ s[p] \in Words
  BY SpanOf, RefsApart
<1>2. z \in Pages
  BY <1>1, SlabAssumption DEF Pages
<1>3. ASSUME Inner(s[z]) PROVE FALSE
  <2>1. PICK x \in Pages : Spans(s[x]) /\ x < z /\ z < x + s[x].n
    BY <1>2, <1>3 DEF Tiled
  <2>2. x # p
    BY <1>1, <2>1
  <2>3. x + s[x].n <= p \/ p + s[p].n <= x
    BY <2>1, <2>2, SpansApart
  <2>4. x \in Nat /\ s[x].n \in Nat
    BY <2>1, SpanOf, RefsApart
  <2> QED
    BY <1>1, <2>1, <2>3, <2>4
<1> QED
  BY <1>2, <1>3

\* No free page follows a run, but for those that end where p begins; but for
\* p as well.
ApartTo(s, p) ==
    \A x \in Pages : IsRun(s[x]) /\ x + s[x].n < NPages /\ x + s[x].n # p =>
        s[x + s[x].n].tag # "run"
ApartBut(s, p) ==
    \A x \in Pages \ {p} : IsRun(s[x]) /\ x + s[x].n < NPages /\ x + s[x].n # p =>
        s[x + s[x].n].tag # "run"

LEMMA FreedApart ==
    ASSUME NEW s \in [Pages -> Words], Tiled(s), Apart(s), NEW p \in Pages, NEW n, Used(s, p, n)
    PROVE  ApartBut(FreedOf(s, p, n), p)
<1> DEFINE s2 == FreedOf(s, p, n)
<1>1. /\ \A y \in p + 1 .. p + n - 1 : y \in Pages /\ s2[y] = Run(0) /\ s[y] = Busy
      /\ \A y \in Pages : y \notin p .. p + n - 1 => s2[y] = s[y]
  BY FreedAt
<1>2. n \in Nat \ {0} /\ p \in Nat
  BY UsedSpan, RefsApart
<1> HIDE DEF s2
<1>3. \A y \in Pages : y = p \/ y \in p + 1 .. p + n - 1 \/ s2[y] = s[y]
  <2> SUFFICES ASSUME NEW y \in Pages, y # p, y \notin p + 1 .. p + n - 1 PROVE s2[y] = s[y]
    OBVIOUS
  <2>1. y \notin p .. p + n - 1
    BY <1>2
  <2> QED
    BY <1>1, <2>1
<1>4. ASSUME NEW x \in Pages \ {p}, IsRun(s2[x]), x + s2[x].n < NPages, x + s2[x].n # p
      PROVE  s2[x + s2[x].n].tag # "run"
  <2>1. s2[x] = s[x]
    BY <1>1, <1>3, <1>4, WordKinds
  <2>2. s[x + s[x].n].tag # "run"
    BY <1>4, <2>1 DEF Apart
  <2>3. s[x] \in Words /\ Spans(s[x])
    BY <1>4, <2>1, WordKinds
  <2>4. x + s[x].n \in Pages /\ ~Inner(s[x + s[x].n])
    BY <1>4, <2>1, <2>3, AfterSpan
  <2>5. x + s[x].n \notin p + 1 .. p + n - 1
    BY <1>1, <2>4 DEF Inner
  <2> QED
    BY <1>3, <1>4, <2>1, <2>2, <2>4, <2>5
<1> QED
  BY <1>4 DEF ApartBut, s2

\* The run that follows is merged.
LEMMA JoinNextFit ==
    ASSUME NEW h, NEW bs, NEW rk, NEW p, Fit(h, bs, rk, p), p # Null, ApartBut(h.slab, p)
    PROVE  /\ Fit(JoinNext(h, p), bs, rk, p)
           /\ ApartTo(JoinNext(h, p).slab, p)
           /\ \A y \in Pages : \/ JoinNext(h, p).slab[y] = h.slab[y]
                               \/ h.slab[y].tag = "run" /\ JoinNext(h, p).slab[y].tag = "run"
<1> DEFINE s == h.slab
           j == p + s[p].n
           g == JoinNext(h, p)
<1>1. FitOf(h.next, h.prev, s, h.pfree, bs, rk, p)
  BY FitIsOf
<1>2. s \in [Pages -> Words] /\ Tiled(s) /\ p \in Pages /\ IsRun(s[p])
  BY <1>1, FitTypes DEF FitOf
<1> HIDE DEF s
<1>3. /\ s[p] \in Words /\ p \in Nat /\ Spans(s[p]) /\ s[p].n \in Nat \ {0} /\ j # p
  BY <1>2, WordKinds, RefsApart
<1>4. j < NPages => j \in Pages /\ ~Inner(s[j]) /\ j # Null
  BY <1>2, <1>3, AfterSpan, RefsApart
<1>5. CASE j < NPages /\ IsFreeRun(h, j)
  <2>1. IsRun(s[j])
    <3>1. /\ h.next[j] = Null <=> ListOf(s[j], bs[j]) = Null
          /\ h.prev[j].type = KindOf(s[j])
      BY <1>1, <1>3, <1>4, <1>5 DEF FitOf
    <3>2. ListOf(s[j], bs[j]) # Null /\ KindOf(s[j]) = "PAGE"
      BY <1>5, <3>1 DEF IsFreeRun
    <3>3. s[j].tag # "cut"
      BY <3>2, KindsApart
    <3> QED
      BY <3>2, <3>3, ListsOfWords
  <2> DEFINE w == Run(s[p].n + s[j].n)
  <2>2. Unlink(h, j).slab = s
    BY DEF Unlink, SetPrev, s
  <2>3. g = Merge(h, j, p, j, w)
    <3>1. g = Forget([Unlink(h, j) EXCEPT !.slab[p] = Run(Unlink(h, j).slab[p].n + h.slab[j].n)], j)
      BY <1>5 DEF JoinNext, s
    <3> QED
      BY <2>2, <3>1 DEF Merge, s
  <2>4. Merging(h, bs, rk, p, j, p, j)
    BY <1>2, <1>4, <1>5, <2>1 DEF Merging, s
  <2>5. w = Run(h.slab[p].n + h.slab[j].n)
    BY DEF s
  <2> HIDE DEF w, g, j
  <2>6. Fit(g, bs, rk, p) /\ g.slab = JoinedOf(s, p, j)
    BY <2>3, <2>4, <2>5, MergeFit DEF s
  <2> DEFINE s2 == JoinedOf(s, p, j)
  <2>7. /\ s2[p] = w /\ s2[j] = Run(0)
        /\ \A y \in Pages : y # p /\ y # j => s2[y] = s[y]
    BY <1>2, <1>3, <1>4, <1>5, <2>5 DEF JoinedOf, s
  <2>8. s[p].tag = "run" /\ s[j].tag = "run" /\ w.tag = "run" /\ Run(0).tag = "run"
    BY <1>2, <2>1 DEF IsRun, Run, w
  <2> HIDE DEF s2
  <2>9. \A y \in Pages : s2[y] = s[y] \/ (s[y].tag = "run" /\ s2[y].tag = "run")
    BY <2>7, <2>8
  <2>10. ApartTo(s2, p)
    <3> SUFFICES ASSUME NEW x \in Pages, IsRun(s2[x]), x + s2[x].n < NPages, x + s2[x].n # p
                 PROVE  s2[x + s2[x].n].tag # "run"
      BY DEF ApartTo
    <3>1. s[j] \in Words /\ s[j].n \in Nat \ {0}
      BY <1>2, <1>4, <1>5, <2>1, WordKinds DEF j
    <3>2. w.n = s[p].n + s[j].n
      BY DEF w, Run
    <3>3. CASE x = p
      <4>1. x + s2[x].n = j + s[j].n
        BY <1>3, <2>7, <3>1, <3>2, <3>3 DEF j
      <4>2. j + s[j].n # p /\ j # p /\ j \in Pages
        BY <1>3, <1>4, <1>5, <3>1 DEF j
      <4>3. s[j + s[j].n].tag # "run"
        BY <2>1, <4>1, <4>2 DEF ApartBut, s
      <4>4. j + s[j].n \in Pages
        BY <1>2, <2>1, <3>1, <4>1, <4>2, AfterSpan, WordKinds
      <4> QED
        BY <2>9, <4>1, <4>3, <4>4
    <3>4. CASE x # p
      <4>1. x # j /\ s2[x] = s[x]
        BY <2>7, <3>4, WordKinds
      <4>2. s[x + s[x].n].tag # "run"
        BY <3>4, <4>1 DEF ApartBut, s
      <4>3. x + s[x].n \in Pages
        BY <1>2, <4>1, AfterSpan, WordKinds
      <4> QED
        BY <2>9, <4>1, <4>2, <4>3
    <3> QED
      BY <3>3, <3>4
  <2> QED
    BY <2>6, <2>9, <2>10 DEF g, s, s2
<1>6. CASE ~(j < NPages /\ IsFreeRun(h, j))
  <2>1. g = h
    BY <1>6 DEF JoinNext, s
  <2>2. ASSUME j < NPages PROVE s[j].tag # "run"
    <3> SUFFICES ASSUME s[j].tag = "run" PROVE FALSE
      OBVIOUS
    <3>1. Spans(s[j])
      BY <1>2, <1>4, <2>2 DEF Tiled
    <3>2. s[j] \in Words /\ IsRun(s[j])
      BY <1>2, <1>4, <2>2, <3>1, WordKinds
    <3>3. /\ h.next[j] = Null <=> ListOf(s[j], bs[j]) = Null
          /\ h.prev[j].type = KindOf(s[j])
      BY <1>1, <1>3, <1>4, <2>2 DEF FitOf
    <3>4. IsFreeRun(h, j)
      BY <3>2, <3>3, ListsOfWords DEF IsFreeRun
    <3> QED
      BY <1>6, <2>2, <3>4
  <2>3. ApartTo(s, p)
    BY <2>2 DEF ApartTo, ApartBut, s
  <2> HIDE DEF g
  <2> QED
    BY <2>1, <2>3 DEF s, g
<1> QED
  BY <1>5, <1>6

\* RunBefore finds the run that ends where p begins, if there is one.
LEMMA RunBeforeFinds ==
    ASSUME NEW h, NEW bs, NEW rk, NEW p, Fit(h, bs, rk, p), p # Null
    PROVE  \/ /\ RunBefore(h, p) = p
              /\ \A x \in Pages : IsRun(h.slab[x]) => x + h.slab[x].n # p
           \/ /\ RunBefore(h, p) \in Pages /\ RunBefore(h, p) # p
              /\ IsRun(h.slab[RunBefore(h, p)])
              /\ RunBefore(h, p) + h.slab[RunBefore(h, p)].n = p
<1> DEFINE s == h.slab
           nx == h.next
           pv == h.prev
           j == RunBefore(h, p)
           b == p - 1
<1>1. FitOf(nx, pv, s, h.pfree, bs, rk, p)
  BY FitIsOf
<1> HIDE DEF s, nx, pv
<1>2. s \in [Pages -> Words] /\ Tiled(s) /\ p \in Pages /\ IsRun(s[p])
  BY <1>1, FitTypes DEF FitOf
<1>3. /\ s[p] \in Words /\ p \in Nat /\ p < NPages /\ ~Inner(s[p])
      /\ \A x \in Pages : x \in Nat /\ x # Null
  BY <1>2, WordKinds, RefsApart
<1>4. p # 0 => b \in Pages /\ b # p /\ b \in Nat
  BY <1>3, SlabAssumption DEF Pages
<1>5. ASSUME NEW x \in Pages, IsRun(s[x])
      PROVE  /\ Spans(s[x]) /\ s[x].n \in Nat \ {0} /\ s[x].tag = "run"
             /\ x < p => x + s[x].n <= p
             /\ \A q \in x + 1 .. x + s[x].n - 1 : q \in Pages /\ s[q] = Run(0)
  <2>1. s[x] \in Words
    BY <1>2
  <2>2. Spans(s[x]) /\ s[x].tag = "run"
    BY <1>5, <2>1, WordKinds
  <2>3. /\ s[x].n \in Nat \ {0}
        /\ \A q \in x + 1 .. x + s[x].n - 1 : q \in Pages /\ s[q] = Further(s[x])
        /\ \A q \in Pages : ~Inner(s[q]) /\ x < q => x + s[x].n <= q
    BY <1>2, <2>2, SpanOf
  <2> QED
    BY <1>2, <1>3, <2>2, <2>3 DEF Further
<1>6. ASSUME NEW x \in Pages, IsRun(s[x]), x + s[x].n = p
      PROVE  /\ p # 0 /\ x # p /\ s[b].tag = "run"
             /\ x = b \/ (s[b] = Run(0) /\ s[x].n > 1)
  <2>1. s[x].n \in Nat \ {0} /\ x \in Nat /\ s[x].tag = "run"
    BY <1>3, <1>5, <1>6
  <2>2. p # 0 /\ x # p
    BY <1>6, <2>1
  <2>3. x = b \/ (b \in x + 1 .. x + s[x].n - 1 /\ s[x].n > 1)
    BY <1>3, <1>6, <2>1
  <2>4. Run(0).tag = "run"
    BY DEF Run
  <2> QED
    BY <1>5, <1>6, <2>1, <2>2, <2>3, <2>4
<1>7. p # 0 => /\ pv[b].type = KindOf(s[b])
               /\ nx[b] = Null <=> ListOf(s[b], bs[b]) = Null
  BY <1>1, <1>4 DEF FitOf
<1>8. CASE p = 0 \/ pv[b].type # "PAGE"
  <2>1. j = p
    BY <1>8 DEF RunBefore, pv
  <2>2. ASSUME NEW x \in Pages, IsRun(s[x]), x + s[x].n = p PROVE FALSE
    <3>1. p # 0 /\ s[b].tag = "run"
      BY <1>6, <2>2
    <3>2. s[b].tag # "cut"
      BY <3>1
    <3> QED
      BY <1>7, <1>8, <3>1, <3>2, ListsOfWords
  <2> QED
    BY <2>1, <2>2 DEF s
<1>9. CASE p # 0 /\ pv[b].type = "PAGE" /\ s[b] = Run(0)
  <2>0. b \in Pages /\ Inner(s[b])
    BY <1>4, <1>9, WordKinds
  <2>1. PICK x \in Pages : Spans(s[x]) /\ x < b /\ b < x + s[x].n
    <3> HIDE DEF b
    <3> QED
      BY <1>2, <2>0 DEF Tiled
  <2>2. s[x] \in Words /\ x \in Nat /\ s[x].n \in Nat
    BY <1>2, <1>3, WordsTyped
  <2>3. s[b] = Further(s[x])
    <3>1. b \in x + 1 .. x + s[x].n - 1
      BY <1>4, <1>9, <2>1, <2>2
    <3> QED
      BY <1>2, <2>1, <3>1, SpanOf
  <2>4. s[x].tag = "run"
    BY <1>9, <2>3 DEF Further, Run, Busy
  <2>5. IsRun(s[x])
    BY <2>1, <2>2, <2>4, WordKinds
  <2>6. x + s[x].n = p /\ s[x].n > 1 /\ x # p
    <3>1. x < p
      BY <1>3, <2>1, <2>2
    <3>2. x + s[x].n <= p
      BY <1>5, <2>5, <3>1
    <3> QED
      BY <1>3, <2>1, <2>2, <3>1, <3>2
  <2>7. pv[b] = Ptr(x, "PAGE")
    <3>1. Tails(s, pv, p)
      BY <1>1 DEF FitOf
    <3>2. x + s[x].n - 1 = b /\ x + s[x].n < NPages
      BY <1>3, <2>2, <2>6
    <3>3. pv[x + s[x].n - 1] = Ptr(x, "PAGE")
      BY <2>5, <2>6, <3>1, <3>2 DEF Tails
    <3> QED
      BY <3>2, <3>3
  <2>8. nx[x] # Null
    BY <1>1, <2>5, <2>6, ListsOfWords DEF FitOf
  <2>9. pv[b].ref = x
    BY <2>7 DEF Ptr
  <2>10. j = x
    BY <1>9, <2>8, <2>9 DEF RunBefore, s, pv, nx
  <2> QED
    BY <2>5, <2>6, <2>10 DEF s
<1>10. CASE p # 0 /\ pv[b].type = "PAGE" /\ s[b] # Run(0) /\ nx[b] # Null
  <2>1. j = b
    BY <1>10 DEF RunBefore, s, pv, nx
  <2>2. IsRun(s[b])
    <3>1. s[b].tag # "cut"
      BY <1>7, <1>10, KindsApart
    <3> QED
      BY <1>7, <1>10, <3>1, ListsOfWords
  <2>3. b + s[b].n = p
    <3>1. s[b].n \in Nat \ {0} /\ (b < p => b + s[b].n <= p)
      BY <1>4, <1>5, <1>10, <2>2
    <3> QED
      BY <1>3, <1>4, <1>10, <3>1
  <2> QED
    BY <1>4, <1>10, <2>1, <2>2, <2>3 DEF s
<1>11. CASE p # 0 /\ pv[b].type = "PAGE" /\ s[b] # Run(0) /\ nx[b] = Null
  <2>1. j = p
    BY <1>11 DEF RunBefore, s, pv, nx
  <2>2. ASSUME NEW x \in Pages, IsRun(s[x]), x + s[x].n = p PROVE FALSE
    <3>1. x = b
      BY <1>6, <1>11, <2>2
    <3> QED
      BY <1>7, <1>11, <2>2, <3>1, ListsOfWords
  <2> QED
    BY <2>1, <2>2 DEF s
<1> QED
  BY <1>8, <1>9, <1>10, <1>11

\* The run before is merged.
LEMMA JoinPreviousFit ==
    ASSUME NEW h, NEW bs, NEW rk, NEW p, Fit(h, bs, rk, p), p # Null, ApartTo(h.slab, p)
    PROVE  /\ Fit(JoinPrevious(h, p), bs, rk, RunBefore(h, p))
           /\ RunBefore(h, p) # Null
           /\ Apart(JoinPrevious(h, p).slab)
           /\ \A y \in Pages : \/ JoinPrevious(h, p).slab[y] = h.slab[y]
                               \/ /\ h.slab[y].tag = "run"
                                  /\ JoinPrevious(h, p).slab[y].tag = "run"
<1> DEFINE s == h.slab
           j == RunBefore(h, p)
           g == JoinPrevious(h, p)
<1>1. FitOf(h.next, h.prev, s, h.pfree, bs, rk, p)
  BY FitIsOf
<1>2. s \in [Pages -> Words] /\ Tiled(s) /\ p \in Pages /\ IsRun(s[p])
  BY <1>1, FitTypes DEF FitOf
<1> HIDE DEF s
<1>3. CASE j = p /\ \A x \in Pages : IsRun(s[x]) => x + s[x].n # p
  <2>1. g = h
    BY <1>3 DEF JoinPrevious
  <2>2. Apart(s)
    BY <1>3 DEF Apart, ApartTo, s
  <2> QED
    BY <1>3, <2>1, <2>2 DEF s
<1>4. CASE j \in Pages /\ j # p /\ IsRun(s[j]) /\ j + s[j].n = p
  <2> HIDE DEF j, g
  <2> DEFINE w == Run(s[j].n + s[p].n)
             s2 == JoinedOf(s, j, p)
  <2>1. Unlink(h, j).slab = s
    BY DEF Unlink, SetPrev, s
  <2>2. g = Merge(h, j, j, p, w)
    <3>1. g = Forget([Unlink(h, j) EXCEPT !.slab[j] = Run(Unlink(h, j).slab[j].n + h.slab[p].n)], p)
      BY <1>4 DEF JoinPrevious, g, j
    <3> QED
      BY <2>1, <3>1 DEF Merge, s
  <2>3. Merging(h, bs, rk, p, j, j, p)
    BY <1>2, <1>4 DEF Merging, s
  <2>4. w = Run(h.slab[j].n + h.slab[p].n)
    BY DEF s
  <2> HIDE DEF w
  <2>5. Fit(g, bs, rk, j) /\ g.slab = s2
    BY <2>2, <2>3, <2>4, MergeFit DEF s
  <2>6. /\ s2[j] = w /\ s2[p] = Run(0)
        /\ \A y \in Pages : y # p /\ y # j => s2[y] = s[y]
    BY <1>2, <1>4, <2>4 DEF JoinedOf, s
  <2>7. s[p].tag = "run" /\ s[j].tag = "run" /\ w.tag = "run" /\ Run(0).tag = "run"
    BY <1>2, <1>4 DEF IsRun, Run, w
  <2> HIDE DEF s2
  <2>8. \A y \in Pages : s2[y] = s[y] \/ (s[y].tag = "run" /\ s2[y].tag = "run")
    BY <2>6, <2>7
  <2>9. Apart(s2)
    <3> SUFFICES ASSUME NEW x \in Pages, IsRun(s2[x]), x + s2[x].n < NPages
                 PROVE  s2[x + s2[x].n].tag # "run"
      BY DEF Apart
    <3>1. /\ s[p] \in Words /\ s[p].n \in Nat \ {0} /\ s[j] \in Words /\ s[j].n \in Nat \ {0}
          /\ p \in Nat /\ j \in Nat /\ Spans(s[p]) /\ Spans(s[j])
      BY <1>2, <1>4, WordKinds, RefsApart
    <3>2. w.n = s[j].n + s[p].n
      BY DEF w, Run
    <3>3. CASE x = j
      <4>1. x + s2[x].n = p + s[p].n /\ p + s[p].n # p
        BY <1>4, <2>6, <3>1, <3>2, <3>3
      <4>2. s[p + s[p].n].tag # "run"
        BY <1>2, <4>1 DEF ApartTo, s
      <4>3. p + s[p].n \in Pages
        BY <1>2, <3>1, <4>1, AfterSpan
      <4> QED
        BY <2>8, <4>1, <4>2, <4>3
    <3>4. CASE x # j
      <4>1. x # p /\ s2[x] = s[x] /\ s[x] \in Words
        BY <1>2, <2>6, <3>4, WordKinds
      <4>2. Spans(s[x]) /\ s[x].n \in Nat \ {0} /\ x \in Nat
        BY <4>1, WordKinds, RefsApart
      <4>3. x + s[x].n <= j \/ j + s[j].n <= x
        BY <1>2, <1>4, <3>1, <3>4, <4>2, SpansApart
      <4>4. x + s[x].n # p
        BY <1>4, <3>1, <4>2, <4>3
      <4>5. s[x + s[x].n].tag # "run"
        BY <4>1, <4>4 DEF ApartTo, s
      <4>6. x + s[x].n \in Pages
        BY <1>2, <4>1, <4>2, AfterSpan
      <4> QED
        BY <2>8, <4>1, <4>5, <4>6
    <3> QED
      BY <3>3, <3>4
  <2>10. j # Null
    BY <1>4, RefsApart
  <2> QED
    BY <2>5, <2>8, <2>9, <2>10 DEF g, s, j
<1>5. \/ j = p /\ \A x \in Pages : IsRun(s[x]) => x + s[x].n # p
      \/ j \in Pages /\ j # p /\ IsRun(s[j]) /\ j + s[j].n = p
  BY RunBeforeFinds DEF s
<1> HIDE DEF g, j
<1> QED
  BY <1>3, <1>4, <1>5 DEF g, j

\* The last page of the run learns where its first page is.
Tagged(h, p) ==
    IF h.slab[p].n > 1
    THEN [h EXCEPT !.prev[p + h.slab[p].n - 1] = Ptr(p, "PAGE")] ELSE h

LEMMA TaggedFit ==
    ASSUME NEW h, NEW bs, NEW rk, NEW p, Fit(h, bs, rk, p), p # Null
    PROVE  /\ Fit(Tagged(h, p), bs, rk, p)
           /\ Tagged(h, p).slab = h.slab
           /\ Tails(h.slab, Tagged(h, p).prev, Null)
<1> DEFINE nx == h.next
           pv == h.prev
           s == h.slab
           pf == h.pfree
           g == Tagged(h, p)
           z == p + s[p].n - 1
           own == Own(s, bs, p)
<1>1. FitOf(nx, pv, s, pf, bs, rk, p) /\ h = Parts(nx, pv, s, pf)
  BY FitIsOf
<1> HIDE DEF nx, pv, s, pf
<1>2. /\ nx \in [Pages \cup Heads -> Refs] /\ pv \in [Pages -> Ptrs]
      /\ s \in [Pages -> Words] /\ Tiled(s)
      /\ Linked(nx, pv, own, rk) /\ p \in Pages /\ IsRun(s[p]) /\ Tails(s, pv, p)
  <2>1. p \in Pages /\ IsRun(s[p]) /\ Tails(s, pv, p)
    BY <1>1 DEF FitOf
  <2> QED
    BY <1>1, <2>1, FitTypes
<1>3. s[p].n \in Nat \ {0} /\ p \in Nat /\ Spans(s[p])
  BY <1>2, WordKinds, RefsApart
<1>4. CASE s[p].n > 1
  <2> DEFINE pv2 == [pv EXCEPT ![z] = Ptr(p, "PAGE")]
  <2>1. z \in Pages /\ Inner(s[z]) /\ z # p
    <3>1. z \in p + 1 .. p + s[p].n - 1 /\ z # p
      BY <1>3, <1>4
    <3> QED
      BY <1>2, <1>3, <3>1, SpanOf
  <2> HIDE DEF z
  <2>2. /\ pv2 \in [Pages -> Ptrs] /\ pv2[z] = Ptr(p, "PAGE")
        /\ \A y \in Pages : y # z => pv2[y] = pv[y]
    BY <1>2, <2>1, WordsTyped DEF Refs, Kinds
  <2>3. ~IsRun(s[z]) /\ s[z].tag # "cut"
    BY <1>2, <2>1, WordKinds
  <2>4. own[z] = Null
    BY <2>1, <2>3, OwnAt, ListsOfWords
  <2> HIDE DEF pv2, own
  <2>5. Linked(nx, pv2, own, rk)
    <3>1. /\ \A r \in Pages \cup Heads : own[r] # Null => nx[r] = nx[r]
          /\ \A r \in Pages : own[r] # Null => pv2[r] = pv[r]
      BY <2>2, <2>4
    <3> QED
      BY <1>2, <2>2, <3>1, LinkedSame
  <2>6. ASSUME NEW x \in Pages, IsRun(s[x]), s[x].n > 1, x + s[x].n < NPages
        PROVE  pv2[x + s[x].n - 1] = Ptr(x, "PAGE")
    <3>1. CASE x = p
      BY <2>2, <3>1 DEF z
    <3>2. CASE x # p
      <4>1. Spans(s[x])
        BY <1>2, <2>6, WordKinds
      <4> DEFINE e == x + s[x].n - 1
      <4>2. e \in Pages /\ e \notin p .. p + s[p].n - 1
        BY <1>2, <1>3, <2>6, <3>2, <4>1, SpansApart
      <4>3. pv[e] = Ptr(x, "PAGE")
        BY <1>2, <2>6, <3>2 DEF Tails
      <4> HIDE DEF e
      <4>4. z \in p .. p + s[p].n - 1
        BY <1>3 DEF z
      <4>5. pv2[e] = pv[e]
        BY <2>2, <4>2, <4>4
      <4> QED
        BY <4>3, <4>5 DEF e
    <3> QED
      BY <3>1, <3>2
  <2>7. Tails(s, pv2, p) /\ Tails(s, pv2, Null)
    BY <2>6 DEF Tails
  <2>8. \A y \in Pages \ {p} : pv2[y].type = KindOf(s[y])
    <3> SUFFICES ASSUME NEW y \in Pages \ {p} PROVE pv2[y].type = KindOf(s[y])
      OBVIOUS
    <3>1. CASE y = z
      BY <2>2, <2>3, <3>1, ListsOfWords DEF Ptr
    <3>2. CASE y # z
      BY <1>1, <2>2, <3>2 DEF FitOf
    <3> QED
      BY <3>1, <3>2
  <2>9. FitOf(nx, pv2, s, pf, bs, rk, p)
    BY <1>1, <2>5, <2>7, <2>8 DEF FitOf, own
  <2>10. g = Parts(nx, pv2, s, pf)
    <3>1. h.slab[p].n > 1 /\ p + h.slab[p].n - 1 = z
      BY <1>4 DEF s, z
    <3>2. g = [h EXCEPT !.prev[z] = Ptr(p, "PAGE")]
      BY <3>1 DEF Tagged
    <3> HIDE DEF g
    <3>3. g = [Parts(nx, pv, s, pf) EXCEPT !.prev[z] = Ptr(p, "PAGE")]
      BY ONLY <1>1, <3>2
    <3> QED
      BY <3>3 DEF Parts, pv2
  <2> HIDE DEF g
  <2>11. Fit(g, bs, rk, p)
    BY <2>9, <2>10, OfIsFit
  <2>12. g.slab = s /\ g.prev = pv2
    BY <2>10 DEF Parts
  <2> QED
    BY <2>7, <2>11, <2>12 DEF g, s
<1>5. CASE ~(s[p].n > 1)
  <2>1. g = h
    BY <1>5 DEF Tagged, s
  <2>2. Tails(s, pv, Null)
    BY <1>2, <1>5 DEF Tails
  <2> QED
    BY <2>1, <2>2 DEF s, pv
<1> QED
  BY <1>4, <1>5

\* A run that is in no list is put in front of the free list.
LEMMA PushFreeFit ==
    ASSUME NEW h, NEW bs, NEW rk, NEW p, Fit(h, bs, rk, p), p # Null, Tails(h.slab, h.prev, Null)
    PROVE  /\ \E rk2 : Fit(Push(h, Free, p, "PAGE"), bs, rk2, Null)
           /\ Push(h, Free, p, "PAGE").slab = h.slab
<1> DEFINE nx == h.next
           pv == h.prev
           s == h.slab
           pf == h.pfree
           g == Push(h, Free, p, "PAGE")
           own == Own(s, bs, p)
           own2 == [own EXCEPT ![p] = Free]
           nx2 == [nx EXCEPT ![p] = nx[Free], ![Free] = p]
           pv2 == [PrevSet(pv, nx[Free], Ptr(p, "PAGE")) EXCEPT ![p] = Ptr(Free, "PAGE")]
           rk2 == [rk EXCEPT ![p] = rk[Free], ![Free] = rk[Free] + 1]
<1>1. FitOf(nx, pv, s, pf, bs, rk, p) /\ h = Parts(nx, pv, s, pf) /\ Tails(s, pv, Null)
  BY FitIsOf
<1> HIDE DEF nx, pv, s, pf
<1>2. /\ s \in [Pages -> Words] /\ Tiled(s) /\ own \in Owners
      /\ Linked(nx, pv, own, rk) /\ p \in Pages /\ IsRun(s[p])
  BY <1>1, FitTypes DEF FitOf
<1>3. Free \in Heads /\ KindIn(Free) = "PAGE" /\ Free # Null
  BY RefsApart, ListsOfWords
<1>4. own[p] = Null /\ \A y \in Pages : y # p => own[y] = ListOf(s[y], bs[y])
  BY <1>2, OwnAt
<1>5. Linked(nx2, pv2, own2, rk2)
  <2>1. Linked([nx EXCEPT ![p] = nx[Free], ![Free] = p],
                  [PrevSet(pv, nx[Free], Ptr(p, KindIn(Free))) EXCEPT
                      ![p] = Ptr(Free, KindIn(Free))],
                  [own EXCEPT ![p] = Free],
                  [rk EXCEPT ![p] = rk[Free], ![Free] = rk[Free] + 1])
    BY <1>2, <1>3, <1>4, LinkedPush
  <2> QED
    BY <1>3, <2>1
<1>6. Quiet(nx, pv, own, nx2, pv2, {p}, Free)
  <2>1. Quiet(nx, pv, own, [nx EXCEPT ![p] = nx[Free], ![Free] = p],
                  [PrevSet(pv, nx[Free], Ptr(p, KindIn(Free))) EXCEPT
                      ![p] = Ptr(Free, KindIn(Free))], {p}, Free)
    BY <1>2, <1>3, <1>4, PushQuiet
  <2> QED
    BY <1>3, <2>1
<1>7. g = Parts(nx2, pv2, s, pf)
  <2> HIDE DEF g
  <2>1. Push(Parts(nx, pv, s, pf), Free, p, "PAGE") =
             Parts(PushNext(nx, Free, p), PushPrev(nx, pv, Free, p, "PAGE"), s, pf)
    BY ONLY PushParts
  <2> QED
    BY <1>1, <2>1 DEF g, PushNext, PushPrev
<1> HIDE DEF nx2, pv2, rk2, own, g
<1>8. own2 \in Owners
  BY <1>5 DEF Linked, LinkedTypes
<1>9. \A y \in Pages : own2[y] = ListOf(s[y], bs[y])
  <2>1. own \in [Pages \cup Heads -> Heads \cup {Null}]
    BY <1>2 DEF Owners
  <2>2. ListOf(s[p], bs[p]) = Free
    BY <1>2, ListsOfWords
  <2> QED
    BY <1>2, <1>4, <2>1, <2>2
<1> HIDE DEF own2
<1>10. Own(s, bs, Null) = own2
  <2>1. \A y \in Pages : own2[y] = IF y = Null THEN Null ELSE ListOf(s[y], bs[y])
    BY <1>9, RefsApart
  <2> QED
    BY <1>8, <2>1, OwnIs
<1>11. ASSUME NEW y \in Pages \ {Null}
       PROVE  /\ nx2[y] = Null <=> ListOf(s[y], bs[y]) = Null
              /\ pv2[y].type = KindOf(s[y])
  <2>1. CASE y = p
    <3>1. own2[p] = Free /\ KindOf(s[p]) = "PAGE" /\ ListOf(s[p], bs[p]) = Free
      BY <1>2, <1>9, ListsOfWords
    <3>2. nx2[p] \in Pages \cup Heads /\ pv2[p].type = KindIn(own2[p])
      BY <1>2, <1>3, <1>5, <3>1, LinksOf
    <3>3. nx2[p] # Null
      BY <3>2, RefsApart
    <3> QED
      BY <1>3, <2>1, <3>1, <3>2, <3>3
  <2>2. CASE y # p
    <3>1. (nx[y] = Null <=> ListOf(s[y], bs[y]) = Null) /\ pv[y].type = KindOf(s[y])
      BY <1>1, <2>2 DEF FitOf
    <3> QED
      BY <1>6, <2>2, <3>1 DEF Quiet
  <2> QED
    BY <2>1, <2>2
<1>12. Tails(s, pv2, Null)
  <2> SUFFICES ASSUME NEW x \in Pages, IsRun(s[x]), s[x].n > 1, x + s[x].n < NPages
               PROVE  pv2[x + s[x].n - 1] = Ptr(x, "PAGE")
    BY DEF Tails
  <2>1. s[x] \in Words /\ Spans(s[x]) /\ s[x].n \in Nat /\ x \in Nat
    BY <1>2, WordKinds, RefsApart
  <2> DEFINE e == x + s[x].n - 1
  <2>2. e \in Pages /\ Inner(s[e])
    <3>1. e \in x + 1 .. x + s[x].n - 1
      BY <2>1
    <3> QED
      BY <1>2, <2>1, <3>1, SpanOf
  <2>3. pv[e] = Ptr(x, "PAGE")
    BY <1>1, RefsApart DEF Tails
  <2> HIDE DEF e
  <2>4. ~IsRun(s[e]) /\ s[e].tag # "cut"
    BY <1>2, <2>2, WordKinds
  <2>5. e # p /\ own[e] = Null
    BY <1>2, <1>4, <2>2, <2>4, ListsOfWords
  <2>6. pv2[e] = pv[e]
    BY <1>6, <2>2, <2>5 DEF Quiet
  <2> QED
    BY <2>3, <2>6 DEF e
<1>13. FitOf(nx2, pv2, s, pf, bs, rk2, Null)
  <2>1. Linked(nx2, pv2, Own(s, bs, Null), rk2)
    BY <1>5, <1>10
  <2> QED
    BY <1>1, <1>11, <1>12, <2>1 DEF FitOf
<1>14. Fit(g, bs, rk2, Null)
  BY <1>7, <1>13, OfIsFit
<1>15. g.slab = s
  BY <1>7 DEF Parts
<1> QED
  BY <1>14, <1>15 DEF g, s

\* What freeing n pages from p on does to the words: they and no others become
\* free, other free pages stay free, all else is the same.
WordsFreed(s, s2, p, n) ==
    /\ \A y \in Pages : y \in p .. p + n - 1 => s2[y].tag = "run"
    /\ \A y \in Pages : y \notin p .. p + n - 1 =>
          s2[y] = s[y] \/ (s[y].tag = "run" /\ s2[y].tag = "run")

\* dl_slab_free_pages.
LEMMA FreePagesFit ==
    ASSUME NEW h, NEW bs, NEW rk, Fit(h, bs, rk, Null), Apart(h.slab),
           bs \in [Pages -> SUBSET Nat],
           NEW p \in Pages, NEW n, Used(h.slab, p, n)
    PROVE  /\ \E rk2 : Fit(FreePages(h, p, n), [bs EXCEPT ![p] = {}], rk2, Null)
           /\ Apart(FreePages(h, p, n).slab)
           /\ WordsFreed(h.slab, FreePages(h, p, n).slab, p, n)
<1> DEFINE c == Cleared(h, p, n)
           bs2 == [bs EXCEPT ![p] = {}]
           s == h.slab
           s1 == FreedOf(s, p, n)
           g == JoinNext(c, p)
           j == RunBefore(g, p)
           k == JoinPrevious(g, p)
           t == Tagged(k, j)
           f == Push(t, Free, j, "PAGE")
<1>1. s \in [Pages -> Words] /\ Tiled(s) /\ p # Null
  BY FitIsOf, FitTypes, RefsApart
<1>2. Fit(c, bs2, rk, p) /\ c.slab = s1
  BY ClearedFit
<1>3. ApartBut(s1, p)
  <2>1. Apart(s) /\ Used(s, p, n)
    OBVIOUS
  <2> HIDE DEF s
  <2> QED
    BY <1>1, <2>1, FreedApart
<1> HIDE DEF bs2, s1, c
<1>4. /\ Fit(g, bs2, rk, p) /\ ApartTo(g.slab, p)
      /\ \A y \in Pages : g.slab[y] = s1[y] \/ (s1[y].tag = "run" /\ g.slab[y].tag = "run")
  <2>1. ApartBut(c.slab, p)
    BY <1>2, <1>3
  <2>2. /\ Fit(JoinNext(c, p), bs2, rk, p)
        /\ ApartTo(JoinNext(c, p).slab, p)
        /\ \A y \in Pages : \/ JoinNext(c, p).slab[y] = c.slab[y]
                            \/ c.slab[y].tag = "run" /\ JoinNext(c, p).slab[y].tag = "run"
    BY <1>1, <1>2, <2>1, JoinNextFit
  <2> QED
    BY <1>2, <2>2
<1> HIDE DEF g
<1>5. /\ Fit(k, bs2, rk, j) /\ j # Null /\ Apart(k.slab)
      /\ \A y \in Pages : k.slab[y] = g.slab[y] \/ (g.slab[y].tag = "run" /\ k.slab[y].tag = "run")
  BY <1>1, <1>4, JoinPreviousFit
<1> HIDE DEF k, j
<1>6. Fit(t, bs2, rk, j) /\ t.slab = k.slab /\ Tails(k.slab, t.prev, Null)
  BY <1>5, TaggedFit
<1> HIDE DEF t
<1>7. (\E rk2 : Fit(f, bs2, rk2, Null)) /\ f.slab = t.slab
  BY <1>5, <1>6, PushFreeFit
<1>8. f = FreePages(h, p, n)
  BY DEF FreePages, Tagged, t, k, j, g, c
<1>9. WordsFreed(s, k.slab, p, n)
  <2>1. /\ IsRun(s1[p])
        /\ \A y \in p + 1 .. p + n - 1 : s1[y] = Run(0)
        /\ \A y \in Pages : y \notin p .. p + n - 1 => s1[y] = s[y]
    <3>1. Used(s, p, n)
      OBVIOUS
    <3> HIDE DEF s
    <3> QED
      BY <1>1, <3>1, FreedAt DEF s1
  <2>2. n \in Nat \ {0} /\ p \in Nat
    <3>1. Used(s, p, n)
      OBVIOUS
    <3> HIDE DEF s
    <3> QED
      BY <1>1, <3>1, UsedSpan, RefsApart
  <2> HIDE DEF s
  <2>3. ASSUME NEW y \in Pages, y \in p .. p + n - 1 PROVE k.slab[y].tag = "run"
    <3>1. y = p \/ y \in p + 1 .. p + n - 1
      BY <2>2, <2>3
    <3>2. s1[y].tag = "run"
      BY <2>1, <3>1 DEF IsRun, Run
    <3> QED
      BY <1>4, <1>5, <3>2
  <2>4. ASSUME NEW y \in Pages, y \notin p .. p + n - 1
        PROVE  k.slab[y] = s[y] \/ (s[y].tag = "run" /\ k.slab[y].tag = "run")
    BY <1>4, <1>5, <2>1, <2>4
  <2> QED
    BY <2>3, <2>4 DEF WordsFreed
<1> HIDE DEF f
<1> QED
  BY <1>5, <1>6, <1>7, <1>8, <1>9 DEF bs2, s

-------------------------------------------------------------------------------
(* What a walk along a list sees.                                            *)

Walked(nx, head, at) ==
    at = [k \in 0 .. NPages |->
             IF k = 0 THEN nx[head]
             ELSE IF at[k - 1] \in Pages THEN nx[at[k - 1]] ELSE at[k - 1]]

Along(nx, head, at, len) ==
    /\ at \in [0 .. NPages -> Refs] /\ len \in 0 .. NPages
    /\ at[0] = nx[head]
    /\ \A k \in 1 .. NPages : at[k] = IF at[k - 1] \in Pages THEN nx[at[k - 1]] ELSE at[k - 1]
    /\ \A k \in 0 .. NPages - 1 : at[k] \in Pages <=> k < len
    /\ List(nx, head) = [k \in 1 .. len |-> at[k - 1]]

LEMMA WalkExists ==
    ASSUME NEW nx \in [Pages \cup Heads -> Refs], NEW head \in Heads
    PROVE  \E at : Walked(nx, head, at) /\ at \in [0 .. NPages -> Refs]
<1> DEFINE b == nx[head]
           F == [x \in Refs \X Nat |-> IF x[1] \in Pages THEN nx[x[1]] ELSE x[1]]
<1>1. NPages \in Nat /\ b \in Refs
  BY SlabAssumption
<1>2. F \in [Refs \X Nat -> Refs]
  OBVIOUS
<1>3. \A x \in Refs, k \in Nat : F[<<x, k>>] = IF x \in Pages THEN nx[x] ELSE x
  OBVIOUS
<1> HIDE DEF F, b
<1>4. PICK g \in [0 .. NPages -> Refs] : Stepwise(g, b, F, NPages)
  BY <1>1, <1>2, StepsExist
<1>5. ASSUME NEW k \in 0 .. NPages
      PROVE  g[k] = IF k = 0 THEN nx[head]
                    ELSE IF g[k - 1] \in Pages THEN nx[g[k - 1]] ELSE g[k - 1]
  <2>1. CASE k = 0
    BY <1>4, <2>1 DEF Stepwise, b
  <2>2. CASE k # 0
    <3>1. k \in 1 .. NPages /\ k \in Nat /\ k - 1 \in 0 .. NPages
      BY <1>1, <2>2
    <3>2. g[k - 1] \in Refs
      BY <1>4, <3>1
    <3>3. g[k] = F[<<g[k - 1], k>>]
      BY <1>4, <3>1 DEF Stepwise
    <3> QED
      BY <1>3, <2>2, <3>1, <3>2, <3>3
  <2> QED
    BY <2>1, <2>2
<1>6. g = [k \in 0 .. NPages |-> g[k]]
  BY <1>4
<1>7. Walked(nx, head, g)
  BY <1>5, <1>6 DEF Walked
<1> QED
  BY <1>4, <1>7

LEMMA ListAlong ==
    ASSUME NEW nx \in [Pages \cup Heads -> Refs], NEW head \in Heads
    PROVE  \E at, len : Along(nx, head, at, len)
<1> DEFINE at == CHOOSE g : Walked(nx, head, g)
           D == {k \in 0 .. NPages - 1 : at[k] \in Pages}
           len == Cardinality(D)
<1>1. Walked(nx, head, at)
  BY WalkExists
<1>2. List(nx, head) = [k \in 1 .. len |-> at[k - 1]]
  BY DEF List, Walked
<1> HIDE DEF at
<1>3. NPages \in Nat \ {0}
  BY SlabAssumption
<1>4. \A k \in 0 .. NPages :
         at[k] = IF k = 0 THEN nx[head]
                 ELSE IF at[k - 1] \in Pages THEN nx[at[k - 1]] ELSE at[k - 1]
  BY <1>1 DEF Walked
<1>5. at[0] = nx[head]
  BY <1>3, <1>4
<1>6. \A k \in 1 .. NPages : at[k] = IF at[k - 1] \in Pages THEN nx[at[k - 1]] ELSE at[k - 1]
  <2> SUFFICES ASSUME NEW k \in 1 .. NPages
               PROVE at[k] = IF at[k - 1] \in Pages THEN nx[at[k - 1]] ELSE at[k - 1]
    OBVIOUS
  <2>1. k \in 0 .. NPages /\ k # 0
    BY <1>3
  <2> QED
    BY <1>4, <2>1
<1>7. \A k \in 0 .. NPages : at[k] \in Refs
  <2> DEFINE T == {k \in Nat : k <= NPages => at[k] \in Refs}
  <2>1. 0 \in T
    BY <1>5
  <2>2. ASSUME NEW k \in Nat, k \in T PROVE k + 1 \in T
    <3> SUFFICES ASSUME k + 1 <= NPages PROVE at[k + 1] \in Refs
      OBVIOUS
    <3>1. k + 1 \in 1 .. NPages /\ (k + 1) - 1 = k /\ at[k] \in Refs
      BY <1>3, <2>2
    <3> QED
      BY <1>6, <3>1
  <2> HIDE DEF T
  <2>3. \A k \in Nat : k \in T
    BY <2>1, <2>2, AllNaturals
  <2> QED
    BY <2>3 DEF T
<1>8. at \in [0 .. NPages -> Refs]
  <2>1. at = [k \in 0 .. NPages |->
             IF k = 0 THEN nx[head]
             ELSE IF at[k - 1] \in Pages THEN nx[at[k - 1]] ELSE at[k - 1]]
    BY <1>1 DEF Walked
  <2>2. DOMAIN at = 0 .. NPages
    BY <2>1
  <2>3. at = [k \in 0 .. NPages |-> at[k]]
    BY <2>1, <2>2
  <2> QED
    BY <1>7, <2>3
<1> DEFINE E == {k \in Nat : k = NPages \/ (k < NPages /\ at[k] \notin Pages)}
<1>9. E \subseteq Nat /\ E # {}
  <2>1. NPages \in E
    BY <1>3
  <2> QED
    BY <2>1
<1>10. PICK m \in E : \A y \in E : m <= y
  <2> HIDE DEF E
  <2> QED
    BY <1>9, LeastOf
<1>11. m \in 0 .. NPages
  BY <1>3, <1>10
<1>12. \A k \in 0 .. NPages - 1 : k < m => at[k] \in Pages
  <2> SUFFICES ASSUME NEW k \in 0 .. NPages - 1, k < m, at[k] \notin Pages PROVE FALSE
    OBVIOUS
  <2>1. k \in E
    BY <1>3
  <2> QED
    BY <1>10, <1>11, <2>1
<1>13. \A k \in 0 .. NPages - 1 : m <= k => at[k] \notin Pages
  <2> DEFINE T == {k \in Nat : m <= k /\ k <= NPages - 1 => at[k] \notin Pages}
  <2>1. 0 \in T
    <3> SUFFICES ASSUME m <= 0, 0 <= NPages - 1 PROVE at[0] \notin Pages
      OBVIOUS
    <3>1. m = 0 /\ m # NPages
      BY <1>3, <1>11
    <3> QED
      BY <1>10, <3>1
  <2>2. ASSUME NEW k \in Nat, k \in T PROVE k + 1 \in T
    <3> SUFFICES ASSUME m <= k + 1, k + 1 <= NPages - 1 PROVE at[k + 1] \notin Pages
      OBVIOUS
    <3>1. CASE m = k + 1
      <4>1. m # NPages
        BY <1>3, <3>1
      <4> QED
        BY <1>10, <3>1, <4>1
    <3>2. CASE m # k + 1
      <4>1. m <= k /\ k <= NPages - 1 /\ k + 1 \in 1 .. NPages /\ (k + 1) - 1 = k
        BY <1>3, <1>11, <3>2
      <4>2. at[k] \notin Pages
        BY <2>2, <4>1
      <4> QED
        BY <1>6, <4>1, <4>2
    <3> QED
      BY <3>1, <3>2
  <2> HIDE DEF T
  <2>3. \A k \in Nat : k \in T
    BY <2>1, <2>2, AllNaturals
  <2> QED
    BY <2>3 DEF T
<1>14. D = 0 .. m - 1
  <2>1. \A k \in 0 .. NPages - 1 : at[k] \in Pages <=> k < m
    BY <1>11, <1>12, <1>13
  <2>2. \A k : k \in 0 .. m - 1 <=> k \in 0 .. NPages - 1 /\ k < m
    BY <1>3, <1>11
  <2> QED
    BY <2>1, <2>2
<1> HIDE DEF D
<1>15. len = m
  <2>1. 0 \in Int /\ m - 1 \in Int
    BY <1>11
  <2>2. Cardinality(0 .. m - 1) = IF 0 > m - 1 THEN 0 ELSE (m - 1) - 0 + 1
    BY <2>1, FS_Interval
  <2> QED
    BY <1>11, <1>14, <2>2
<1> HIDE DEF len
<1>16. Along(nx, head, at, m)
  <2>1. \A k \in 0 .. NPages - 1 : at[k] \in Pages <=> k < m
    BY <1>11, <1>12, <1>13
  <2>2. List(nx, head) = [k \in 1 .. m |-> at[k - 1]]
    BY <1>2, <1>15
  <2> QED
    BY <1>5, <1>6, <1>8, <1>11, <2>1, <2>2 DEF Along
<1> QED
  BY <1>16

\* A walk stays among the members of the list.
LEMMA AlongMembers ==
    ASSUME NEW nx, NEW pv, NEW own, NEW rk, Linked(nx, pv, own, rk), NEW head \in Heads,
           NEW at, NEW len, Along(nx, head, at, len)
    PROVE  \A k \in 0 .. NPages : at[k] \in Pages \cup Heads /\ own[at[k]] = head
<1>1. own[head] = head /\ head # Null /\ NPages \in Nat
  BY RefsApart, SlabAssumption DEF Linked, LinkedTypes, Owners
<1>2. ASSUME NEW r \in Pages \cup Heads, own[r] = head
      PROVE  nx[r] \in Pages \cup Heads /\ own[nx[r]] = head
  BY <1>1, <1>2 DEF Linked
<1> DEFINE T == {k \in Nat : k <= NPages => at[k] \in Pages \cup Heads /\ own[at[k]] = head}
<1>3. 0 \in T
  BY <1>1, <1>2 DEF Along
<1>4. ASSUME NEW k \in Nat, k \in T PROVE k + 1 \in T
  <2> SUFFICES ASSUME k + 1 <= NPages
               PROVE  at[k + 1] \in Pages \cup Heads /\ own[at[k + 1]] = head
    OBVIOUS
  <2>1. k + 1 \in 1 .. NPages /\ (k + 1) - 1 = k /\ k <= NPages
    BY <1>1
  <2>2. at[k] \in Pages \cup Heads /\ own[at[k]] = head
    BY <1>4, <2>1
  <2>3. at[k + 1] = IF at[k] \in Pages THEN nx[at[k]] ELSE at[k]
    BY <2>1 DEF Along
  <2> QED
    BY <1>2, <2>2, <2>3
<1> HIDE DEF T
<1>5. \A k \in Nat : k \in T
  BY <1>3, <1>4, AllNaturals
<1> QED
  BY <1>1, <1>5 DEF T

\* What dl_slab_alloc_pages finds is a free run that is long enough.
LEMMA FirstFitFinds ==
    ASSUME NEW rk, Fit(Heap, bits, rk, Null), Chunked(slab, bits),
           NEW n \in Nat \ {0}, FirstFit(n) # Null
    PROVE  /\ FirstFit(n) \in Pages /\ IsRun(slab[FirstFit(n)]) /\ n <= slab[FirstFit(n)].n
<1> DEFINE own == Own(slab, bits, Null)
           runs == List(next, Free)
           fits == {k \in 1 .. Len(runs) : slab[runs[k]].n >= n}
           k0 == MinOf(fits)
<1>1. Heap.next = next /\ Heap.prev = prev /\ Heap.slab = slab
  BY DEF Heap
<1>2. FitOf(next, prev, slab, Heap.pfree, bits, rk, Null)
  BY <1>1, FitIsOf
<1>3. /\ next \in [Pages \cup Heads -> Refs] /\ Linked(next, prev, own, rk)
      /\ slab \in [Pages -> Words]
  BY <1>2, FitTypes
<1>4. PICK at, len : Along(next, Free, at, len)
  BY <1>3, ListAlong, RefsApart
<1>5. \A k \in 0 .. NPages : own[at[k]] = Free
  BY <1>3, <1>4, AlongMembers, RefsApart
<1> HIDE DEF own
<1>6. /\ runs = [k \in 1 .. len |-> at[k - 1]] /\ len \in 0 .. NPages
      /\ \A k \in 0 .. NPages - 1 : at[k] \in Pages <=> k < len
  BY <1>4 DEF Along
<1>7. Len(runs) = len
  BY <1>6
<1>8. fits # {} /\ FirstFit(n) = runs[k0]
  BY DEF FirstFit
<1>9. fits \subseteq Nat
  BY <1>6, <1>7
<1>10. k0 \in fits
  <2> HIDE DEF fits
  <2>1. \E x \in fits : \A y \in fits : x <= y
    BY <1>8, <1>9, LeastOf
  <2> QED
    BY <2>1 DEF MinOf
<1>11. k0 \in 1 .. len /\ slab[runs[k0]].n >= n
  BY <1>7, <1>10
<1> HIDE DEF k0, runs, fits
<1>12. k0 - 1 \in 0 .. NPages - 1 /\ k0 - 1 \in 0 .. NPages /\ k0 - 1 < len /\ runs[k0] = at[k0 - 1]
  BY <1>6, <1>11, SlabAssumption
<1> DEFINE p == runs[k0]
<1>13. p \in Pages /\ own[p] = Free
  BY <1>5, <1>6, <1>12
<1> HIDE DEF p
<1>14. ListOf(slab[p], bits[p]) = Free /\ slab[p] \in Words
  BY <1>3, <1>13, OwnAt, RefsApart DEF own
<1>15. IsRun(slab[p])
  <2> SUFFICES ASSUME ~IsRun(slab[p]) PROVE FALSE
    OBVIOUS
  <2>1. slab[p].tag = "cut" /\ SlotHead(slab[p].n - MinShift) = Free
    BY <1>14, RefsApart DEF ListOf
  <2>2. slab[p].n \in Shifts
    BY <1>13, <2>1 DEF Chunked, Shifts
  <2> QED
    BY <2>1, <2>2, RefsApart
<1>16. slab[p].n \in Nat
  BY <1>14, WordsTyped
<1> QED
  BY <1>8, <1>11, <1>13, <1>15, <1>16 DEF p

-------------------------------------------------------------------------------
(* The blocks of the callers.                                                *)

\* The same blocks are taken in s2 as in s, but for one more at address a.
Grows(s, bs, s2, bs2, a) ==
    /\ \A q \in Pages : s[q].tag = "cut" =>
          s2[q] = s[q] /\ \A c \in bs[q] \ Reserved(s[q].n) :
                             c \in bs2[q] /\ ChunkAt(q, c, s[q].n) # a
    /\ \A q \in Pages : s[q].tag = "start" => s2[q] = s[q] /\ q * PageSize # a
    /\ \A q \in Pages : s2[q].tag = "cut" =>
          \A c \in bs2[q] \ Reserved(s2[q].n) :
             ChunkAt(q, c, s2[q].n) = a \/ (s[q] = s2[q] /\ c \in bs[q])
    /\ \A q \in Pages : s2[q].tag = "start" => q * PageSize = a \/ s[q] = s2[q]

\* A block is handed out.
LEMMA LiveAdd ==
    ASSUME NEW s, NEW bs, NEW s2, NEW bs2, NEW lv, LiveExact(s, bs, lv),
           NEW x, Grows(s, bs, s2, bs2, x.at),
           NEW p \in Pages, Holds(s2, bs2, p, x),
           x \in [at : Nat, len : Nat, want : Nat], x.want <= x.len
    PROVE  /\ LiveExact(s2, bs2, lv \cup {x})
           /\ \A y \in lv : y.at # x.at
<1>1. ASSUME NEW y \in lv
      PROVE  y.at # x.at /\ \E q \in Pages : Holds(s2, bs2, q, y)
  <2>1. PICK q \in Pages : Holds(s, bs, q, y)
    BY DEF LiveExact
  <2>2. CASE s[q].tag = "cut" /\ y.len = TwoTo[s[q].n]
             /\ \E c \in bs[q] \ Reserved(s[q].n) : y.at = ChunkAt(q, c, s[q].n)
    <3>1. PICK c \in bs[q] \ Reserved(s[q].n) : y.at = ChunkAt(q, c, s[q].n)
      BY <2>2
    <3>2. s2[q] = s[q] /\ c \in bs2[q] /\ ChunkAt(q, c, s[q].n) # x.at
      BY <2>2, <3>1 DEF Grows
    <3>3. Holds(s2, bs2, q, y)
      BY <2>2, <3>1, <3>2 DEF Holds
    <3> QED
      BY <3>1, <3>2, <3>3
  <2>3. CASE s[q].tag = "start" /\ y.at = q * PageSize /\ y.len = s[q].n * PageSize
    <3>1. s2[q] = s[q] /\ q * PageSize # x.at
      BY <2>3 DEF Grows
    <3>2. Holds(s2, bs2, q, y)
      BY <2>3, <3>1 DEF Holds
    <3> QED
      BY <2>3, <3>1, <3>2
  <2> QED
    BY <2>1, <2>2, <2>3 DEF Holds
<1>2. ASSUME NEW q \in Pages, s2[q].tag = "cut", NEW c \in bs2[q] \ Reserved(s2[q].n)
      PROVE  \E y \in lv \cup {x} : y.at = ChunkAt(q, c, s2[q].n)
  <2>1. CASE ChunkAt(q, c, s2[q].n) = x.at
    BY <2>1
  <2>2. CASE s[q] = s2[q] /\ c \in bs[q]
    BY <1>2, <2>2 DEF LiveExact
  <2> QED
    BY <1>2, <2>1, <2>2 DEF Grows
<1>3. ASSUME NEW q \in Pages, s2[q].tag = "start"
      PROVE  \E y \in lv \cup {x} : y.at = q * PageSize
  <2>1. CASE q * PageSize = x.at
    BY <2>1
  <2>2. CASE s[q] = s2[q]
    BY <1>3, <2>2 DEF LiveExact
  <2> QED
    BY <1>3, <2>1, <2>2 DEF Grows
<1>4. IsFiniteSet(lv \cup {x}) /\ lv \cup {x} \subseteq [at : Nat, len : Nat, want : Nat]
  <2>1. IsFiniteSet(lv)
    BY DEF LiveExact
  <2>2. IsFiniteSet(lv \cup {x})
    BY <2>1, FS_AddElement
  <2> QED
    BY <2>2 DEF LiveExact
<1>5. \A y \in lv \cup {x} : y.want <= y.len /\ \E q \in Pages : Holds(s2, bs2, q, y)
  BY <1>1 DEF LiveExact
<1>6. \A y, z \in lv \cup {x} : y.at = z.at => y = z
  BY <1>1 DEF LiveExact
<1>7. LiveExact(s2, bs2, lv \cup {x})
  BY <1>2, <1>3, <1>4, <1>5, <1>6 DEF LiveExact
<1> QED
  BY <1>1, <1>7

\* A block is given back.
LEMMA LiveDrop ==
    ASSUME NEW s, NEW bs, NEW s2, NEW bs2, NEW lv, LiveExact(s2, bs2, lv),
           NEW a, Grows(s, bs, s2, bs2, a)
    PROVE  LiveExact(s, bs, {y \in lv : y.at # a})
<1> DEFINE lv0 == {y \in lv : y.at # a}
<1>1. ASSUME NEW y \in lv0 PROVE \E q \in Pages : Holds(s, bs, q, y)
  <2>1. PICK q \in Pages : Holds(s2, bs2, q, y)
    BY DEF LiveExact
  <2>2. CASE s2[q].tag = "cut" /\ y.len = TwoTo[s2[q].n]
             /\ \E c \in bs2[q] \ Reserved(s2[q].n) : y.at = ChunkAt(q, c, s2[q].n)
    <3>1. PICK c \in bs2[q] \ Reserved(s2[q].n) : y.at = ChunkAt(q, c, s2[q].n)
      BY <2>2
    <3>2. s2[q] = s[q] /\ c \in bs[q]
      BY <2>2, <3>1 DEF Grows
    <3>3. Holds(s, bs, q, y)
      BY <2>2, <3>1, <3>2 DEF Holds
    <3> QED
      BY <3>3
  <2>3. CASE s2[q].tag = "start" /\ y.at = q * PageSize /\ y.len = s2[q].n * PageSize
    <3>1. s2[q] = s[q]
      BY <2>3 DEF Grows
    <3>2. Holds(s, bs, q, y)
      BY <2>3, <3>1 DEF Holds
    <3> QED
      BY <3>2
  <2> QED
    BY <2>1, <2>2, <2>3 DEF Holds
<1>2. ASSUME NEW q \in Pages, s[q].tag = "cut", NEW c \in bs[q] \ Reserved(s[q].n)
      PROVE  \E y \in lv0 : y.at = ChunkAt(q, c, s[q].n)
  <2>1. s2[q] = s[q] /\ c \in bs2[q] /\ ChunkAt(q, c, s[q].n) # a
    BY <1>2 DEF Grows
  <2>2. PICK y \in lv : y.at = ChunkAt(q, c, s[q].n)
    BY <1>2, <2>1 DEF LiveExact
  <2> QED
    BY <2>1, <2>2
<1>3. ASSUME NEW q \in Pages, s[q].tag = "start"
      PROVE  \E y \in lv0 : y.at = q * PageSize
  <2>1. s2[q] = s[q] /\ q * PageSize # a
    BY <1>3 DEF Grows
  <2>2. PICK y \in lv : y.at = q * PageSize
    BY <1>3, <2>1 DEF LiveExact
  <2> QED
    BY <2>1, <2>2
<1>4. IsFiniteSet(lv0) /\ lv0 \subseteq [at : Nat, len : Nat, want : Nat]
  <2>1. IsFiniteSet(lv) /\ lv0 \subseteq lv
    BY DEF LiveExact
  <2>2. IsFiniteSet(lv0)
    BY <2>1, FS_Subset
  <2> QED
    BY <2>2 DEF LiveExact
<1>5. \A y \in lv0 : y.want <= y.len /\ \E q \in Pages : Holds(s, bs, q, y)
  BY <1>1 DEF LiveExact
<1>6. \A y, z \in lv0 : y.at = z.at => y = z
  BY DEF LiveExact
<1> HIDE DEF lv0
<1>7. LiveExact(s, bs, lv0)
  BY <1>2, <1>3, <1>4, <1>5, <1>6 DEF LiveExact
<1> QED
  BY <1>7 DEF lv0

\* A complete bitmap is one that may lack bits.
LEMMA ChunkedIsLoose ==
    ASSUME NEW s, NEW bs, Chunked(s, bs)
    PROVE  Loose(s, bs)
BY DEF Chunked, Loose

\* The page of a block is found from its address.
LEMMA PageOfHeld ==
    ASSUME NEW s \in [Pages -> Words], NEW bs, Loose(s, bs),
           NEW q \in Pages, NEW y, Holds(s, bs, q, y)
    PROVE  PageOf(y.at) = q /\ s[q].tag \in {"cut", "start"}
<1>1. CASE s[q].tag = "cut" /\ \E c \in bs[q] \ Reserved(s[q].n) : y.at = ChunkAt(q, c, s[q].n)
  <2>1. PICK c \in bs[q] : y.at = ChunkAt(q, c, s[q].n)
    BY <1>1
  <2>2. s[q].n \in Shifts /\ c \in Chunks(s[q].n)
    BY <1>1 DEF Loose, Shifts
  <2>3. PageOf(ChunkAt(q, c, s[q].n)) = q
    BY <2>2, ChunkPlace
  <2> QED
    BY <1>1, <2>1, <2>3
<1>2. CASE s[q].tag = "start" /\ y.at = q * PageSize
  BY <1>2, PageStart
<1> QED
  BY <1>1, <1>2 DEF Holds

\* How many blocks lie in the pages cut for a slot, after one more was handed out.
MoreBlocks(s, lv, s2, x, i) ==
    /\ Cardinality(BlocksIn(lv, CutFor(s, i))) \in Nat
    /\ Cardinality(BlocksIn(lv \cup {x}, CutFor(s2, i))) =
         Cardinality(BlocksIn(lv, CutFor(s, i)))
           + (IF PageOf(x.at) \in CutFor(s2, i) /\ x \notin lv THEN 1 ELSE 0)

LEMMA BlocksMore ==
    ASSUME NEW s \in [Pages -> Words], NEW bs, Chunked(s, bs), NEW s2, NEW bs2,
           NEW lv, LiveExact(s, bs, lv), NEW x, Grows(s, bs, s2, bs2, x.at), NEW i
    PROVE  MoreBlocks(s, lv, s2, x, i)
<1> DEFINE B == BlocksIn(lv, CutFor(s, i))
           B2 == BlocksIn(lv \cup {x}, CutFor(s2, i))
<1>1. ASSUME NEW y \in lv PROVE PageOf(y.at) \in CutFor(s2, i) <=> PageOf(y.at) \in CutFor(s, i)
  <2>1. PICK q \in Pages : Holds(s, bs, q, y)
    BY DEF LiveExact
  <2>2. PageOf(y.at) = q /\ s[q].tag \in {"cut", "start"}
    BY <2>1, PageOfHeld, ChunkedIsLoose
  <2>3. s2[q] = s[q]
    BY <2>2 DEF Grows
  <2> QED
    BY <2>2, <2>3 DEF CutFor
<1>2. IsFiniteSet(B)
  <2>1. IsFiniteSet(lv) /\ B \subseteq lv
    BY DEF LiveExact, BlocksIn
  <2> QED
    BY <2>1, FS_Subset
<1>3. Cardinality(B) \in Nat
  BY <1>2, FS_CardinalityType
<1>4. CASE PageOf(x.at) \in CutFor(s2, i) /\ x \notin lv
  <2>1. B2 = B \cup {x} /\ x \notin B
    BY <1>1, <1>4 DEF BlocksIn
  <2> HIDE DEF B, B2
  <2>2. Cardinality(B2) = Cardinality(B) + 1
    BY <1>2, <2>1, FS_AddElement
  <2> QED
    BY <1>3, <1>4, <2>2 DEF B, B2, MoreBlocks
<1>5. CASE ~(PageOf(x.at) \in CutFor(s2, i) /\ x \notin lv)
  <2>1. B2 = B
    BY <1>1, <1>5 DEF BlocksIn
  <2> HIDE DEF B, B2
  <2> QED
    BY <1>3, <1>5, <2>1 DEF B, B2, MoreBlocks
<1> QED
  BY <1>4, <1>5

\* How many pages are cut for a slot, after one more was.
LEMMA CutMore ==
    ASSUME NEW s, NEW s2, NEW i, NEW p \in Pages, p \notin CutFor(s, i),
           \A q \in Pages \ {p} : s2[q].tag = "cut" \/ s[q].tag = "cut" => s2[q] = s[q]
    PROVE  /\ Cardinality(CutFor(s, i)) \in Nat
           /\ Cardinality(CutFor(s2, i)) =
                Cardinality(CutFor(s, i)) + (IF p \in CutFor(s2, i) THEN 1 ELSE 0)
<1> DEFINE C == CutFor(s, i)
           C2 == CutFor(s2, i)
<1>1. IsFiniteSet(C) /\ Cardinality(C) \in Nat
  <2>1. C \subseteq Pages /\ C \cap (0 .. 0 + 0 - 1) = {} /\ 0 \in Nat
    BY DEF CutFor
  <2> HIDE DEF C
  <2> QED
    BY <2>1, CountMore
<1>2. CASE p \in C2
  <2>1. C2 = C \cup {p} /\ p \notin C
    BY <1>2 DEF CutFor
  <2> HIDE DEF C, C2
  <2>2. Cardinality(C2) = Cardinality(C) + 1
    BY <1>1, <2>1, FS_AddElement
  <2> QED
    BY <1>1, <1>2, <2>2 DEF C, C2
<1>3. CASE p \notin C2
  <2>1. C2 = C
    BY <1>3 DEF CutFor
  <2> HIDE DEF C, C2
  <2> QED
    BY <1>1, <1>3, <2>1 DEF C, C2
<1> QED
  BY <1>2, <1>3

\* Metadata and bitmaps that agree.
Shaped(h, bs) ==
    /\ \E rk : Fit(h, bs, rk, Null)
    /\ Apart(h.slab) /\ Chunked(h.slab, bs)

LayoutOf(h, bs, lv, us, tt) ==
    Shaped(h, bs) /\ LiveExact(h.slab, bs, lv) /\ Counted(h.slab, lv, us, tt)

\* What is taken in page p when only that page gets a block: the page was not
\* in use and holds the block at a alone, or one of its free chunks is at a.
PageTaken(s, bs, s2, bs2, p, a) ==
    \/ /\ s[p].tag \notin {"cut", "start"}
       /\ \/ s2[p].tag = "start" /\ a = p * PageSize
          \/ /\ s2[p].tag = "cut"
             /\ \E c \in Chunks(s2[p].n) : /\ a = ChunkAt(p, c, s2[p].n)
                                           /\ bs2[p] \ Reserved(s2[p].n) = {c}
    \/ /\ s[p].tag = "cut" /\ s2[p] = s[p]
       /\ \E c \in Chunks(s[p].n) : /\ a = ChunkAt(p, c, s[p].n) /\ c \notin bs[p]
                                    /\ bs2[p] = bs[p] \cup {c}

\* Pages other than p keep their blocks.
TakenAt(s, bs, s2, bs2, p, a) ==
    /\ Chunked(s, bs) /\ Chunked(s2, bs2) /\ p \in Pages
    /\ \A q \in Pages \ {p} :
          \/ s2[q] = s[q] /\ bs2[q] = bs[q]
          \/ s[q].tag \notin {"cut", "start"} /\ s2[q].tag \notin {"cut", "start"}
    /\ PageTaken(s, bs, s2, bs2, p, a)

\* Then exactly the block at a is more.
LEMMA GrowsAt ==
    ASSUME NEW s, NEW bs, NEW s2, NEW bs2, NEW p, NEW a, TakenAt(s, bs, s2, bs2, p, a)
    PROVE  Grows(s, bs, s2, bs2, a) /\ PageOf(a) = p
<1>1. /\ Chunked(s, bs) /\ Chunked(s2, bs2) /\ p \in Pages
      /\ PageTaken(s, bs, s2, bs2, p, a)
  BY DEF TakenAt
<1>2. ASSUME NEW q \in Pages \ {p}
      PROVE  \/ s2[q] = s[q] /\ bs2[q] = bs[q]
             \/ s[q].tag \notin {"cut", "start"} /\ s2[q].tag \notin {"cut", "start"}
  BY <1>2 DEF TakenAt
<1>3. ASSUME NEW q \in Pages, s[q].tag = "cut", NEW c \in bs[q]
      PROVE  s[q].n \in Shifts /\ c \in Chunks(s[q].n) /\ PageOf(ChunkAt(q, c, s[q].n)) = q
  <2>1. s[q].n \in Shifts /\ c \in Chunks(s[q].n)
    BY <1>1, <1>3 DEF Chunked, Shifts
  <2> QED
    BY <2>1, ChunkPlace
<1>4. ASSUME NEW q \in Pages, s2[q].tag = "cut", NEW c \in Chunks(s2[q].n)
      PROVE  s2[q].n \in Shifts /\ PageOf(ChunkAt(q, c, s2[q].n)) = q
  <2>1. s2[q].n \in Shifts
    BY <1>1, <1>4 DEF Chunked, Shifts
  <2> QED
    BY <2>1, ChunkPlace
<1>5. ASSUME NEW q \in Pages PROVE PageOf(q * PageSize) = q
  BY PageStart
<1>6. CASE s[p].tag \notin {"cut", "start"}
  <2>1. \/ s2[p].tag = "start" /\ a = p * PageSize
        \/ /\ s2[p].tag = "cut"
           /\ \E c \in Chunks(s2[p].n) : /\ a = ChunkAt(p, c, s2[p].n)
                                         /\ bs2[p] \ Reserved(s2[p].n) = {c}
    BY <1>1, <1>6 DEF PageTaken
  <2>2. PageOf(a) = p
    BY <1>1, <1>4, <1>5, <2>1
  <2>3. ASSUME NEW q \in Pages, s[q].tag = "cut"
        PROVE  s2[q] = s[q] /\ \A c \in bs[q] \ Reserved(s[q].n) :
                                  c \in bs2[q] /\ ChunkAt(q, c, s[q].n) # a
    <3>1. q # p /\ s2[q] = s[q] /\ bs2[q] = bs[q]
      BY <1>2, <1>6, <2>3
    <3> QED
      BY <1>3, <2>2, <2>3, <3>1
  <2>4. ASSUME NEW q \in Pages, s[q].tag = "start" PROVE s2[q] = s[q] /\ q * PageSize # a
    <3>1. q # p /\ s2[q] = s[q]
      BY <1>2, <1>6, <2>4
    <3> QED
      BY <1>5, <2>2, <3>1
  <2>5. ASSUME NEW q \in Pages, s2[q].tag = "cut", NEW c \in bs2[q] \ Reserved(s2[q].n)
        PROVE  ChunkAt(q, c, s2[q].n) = a \/ (s[q] = s2[q] /\ c \in bs[q])
    <3>1. CASE q = p
      BY <2>1, <2>5, <3>1
    <3>2. CASE q # p
      BY <1>2, <2>5, <3>2
    <3> QED
      BY <3>1, <3>2
  <2>6. ASSUME NEW q \in Pages, s2[q].tag = "start" PROVE q * PageSize = a \/ s[q] = s2[q]
    <3>1. CASE q = p
      BY <2>1, <2>6, <3>1
    <3>2. CASE q # p
      BY <1>2, <2>6, <3>2
    <3> QED
      BY <3>1, <3>2
  <2> QED
    BY <2>2, <2>3, <2>4, <2>5, <2>6 DEF Grows
<1>7. CASE s[p].tag = "cut"
  <2>1. s2[p] = s[p]
    BY <1>1, <1>7 DEF PageTaken
  <2>2. PICK c0 \in Chunks(s[p].n) : /\ a = ChunkAt(p, c0, s[p].n) /\ c0 \notin bs[p]
                                     /\ bs2[p] = bs[p] \cup {c0}
    BY <1>1, <1>7 DEF PageTaken
  <2>3. PageOf(a) = p /\ s[p].n \in Shifts
    BY <1>1, <1>4, <1>7, <2>1, <2>2
  <2>4. ASSUME NEW c \in bs[p] PROVE ChunkAt(p, c, s[p].n) # a
    <3>1. c \in Chunks(s[p].n) /\ c # c0
      BY <1>1, <1>3, <1>7, <2>2, <2>4
    <3>2. OffsetOf(ChunkAt(p, c, s[p].n)) \div TwoTo[s[p].n] = c
      BY <1>1, <2>3, <3>1, ChunkPlace
    <3>3. OffsetOf(ChunkAt(p, c0, s[p].n)) \div TwoTo[s[p].n] = c0
      BY <1>1, <2>2, <2>3, ChunkPlace
    <3> QED
      BY <2>2, <3>1, <3>2, <3>3
  <2>5. ASSUME NEW q \in Pages, s[q].tag = "cut"
        PROVE  s2[q] = s[q] /\ \A c \in bs[q] \ Reserved(s[q].n) :
                                  c \in bs2[q] /\ ChunkAt(q, c, s[q].n) # a
    <3>1. CASE q = p
      BY <2>1, <2>2, <2>4, <3>1
    <3>2. CASE q # p
      <4>1. s2[q] = s[q] /\ bs2[q] = bs[q]
        BY <1>2, <2>5, <3>2
      <4> QED
        BY <1>3, <2>3, <2>5, <3>2, <4>1
    <3> QED
      BY <3>1, <3>2
  <2>6. ASSUME NEW q \in Pages, s[q].tag = "start" PROVE s2[q] = s[q] /\ q * PageSize # a
    <3>1. q # p /\ s2[q] = s[q]
      BY <1>2, <1>7, <2>6
    <3> QED
      BY <1>5, <2>3, <3>1
  <2>7. ASSUME NEW q \in Pages, s2[q].tag = "cut", NEW c \in bs2[q] \ Reserved(s2[q].n)
        PROVE  ChunkAt(q, c, s2[q].n) = a \/ (s[q] = s2[q] /\ c \in bs[q])
    <3>1. CASE q = p
      BY <2>1, <2>2, <2>7, <3>1
    <3>2. CASE q # p
      BY <1>2, <2>7, <3>2
    <3> QED
      BY <3>1, <3>2
  <2>8. ASSUME NEW q \in Pages, s2[q].tag = "start" PROVE q * PageSize = a \/ s[q] = s2[q]
    <3>1. CASE q = p
      BY <2>1, <3>1
    <3>2. CASE q # p
      BY <1>2, <2>8, <3>2
    <3> QED
      BY <3>1, <3>2
  <2> QED
    BY <2>3, <2>5, <2>6, <2>7, <2>8 DEF Grows
<1> QED
  BY <1>1, <1>6, <1>7 DEF PageTaken

\* The pages cut for a slot are as many or one more.
LEMMA CutTaken ==
    ASSUME NEW s, NEW bs, NEW s2, NEW bs2, NEW p, NEW a, TakenAt(s, bs, s2, bs2, p, a), NEW i
    PROVE  /\ Cardinality(CutFor(s, i)) \in Nat
           /\ Cardinality(CutFor(s2, i)) =
                Cardinality(CutFor(s, i))
                  + (IF p \in CutFor(s2, i) /\ p \notin CutFor(s, i) THEN 1 ELSE 0)
<1>1. p \in Pages /\ PageTaken(s, bs, s2, bs2, p, a)
  BY DEF TakenAt
<1>2. \A q \in Pages \ {p} : s2[q].tag = "cut" \/ s[q].tag = "cut" => s2[q] = s[q]
  BY DEF TakenAt
<1>3. CASE p \notin CutFor(s, i)
  BY <1>1, <1>2, <1>3, CutMore
<1>4. CASE p \in CutFor(s, i)
  <2>1. s[p].tag = "cut" /\ s2[p] = s[p]
    BY <1>1, <1>4 DEF CutFor, PageTaken
  <2>2. CutFor(s2, i) = CutFor(s, i)
    BY <1>2, <2>1 DEF CutFor
  <2> DEFINE C == CutFor(s, i)
  <2>3. Cardinality(C) \in Nat
    <3>1. C \subseteq Pages /\ C \cap (0 .. 0 + 0 - 1) = {} /\ 0 \in Nat
      BY DEF CutFor
    <3> HIDE DEF C
    <3> QED
      BY <3>1, CountMore
  <2> HIDE DEF C
  <2>4. Cardinality(C) = Cardinality(C) + 0
    BY <2>3
  <2> QED
    BY <1>4, <2>2, <2>3, <2>4 DEF C
<1> QED
  BY <1>3, <1>4

\* The counters after a block in page p was taken.
CountsUp(s, s2, us, tt, us2, tt2, p) ==
    /\ us2 \in [Slots -> Int] /\ tt2 \in [Slots -> Int]
    /\ \A i \in Slots :
          /\ us2[i] = us[i] + (IF p \in CutFor(s2, i) THEN 1 ELSE 0)
          /\ tt2[i] = tt[i] + (IF p \in CutFor(s2, i) /\ p \notin CutFor(s, i)
                               THEN Capacity(i + MinShift) ELSE 0)

LEMMA CapacityType ==
    ASSUME NEW i \in Slots
    PROVE  Capacity(i + MinShift) \in Nat
<1>1. i + MinShift \in Shifts
  BY RefsApart
<1>2. BitmapChunks(i + MinShift) \in Nat /\ BitmapChunks(i + MinShift) + 1 < NChunks(i + MinShift)
  BY <1>1, BitmapFits
<1>3. i + MinShift \in 0 .. PageShift
  BY <1>1, SlabAssumption DEF Shifts
<1>4. NChunks(i + MinShift) \in Nat
  BY <1>3, PageOfChunks
<1> QED
  BY <1>2, <1>4 DEF Capacity

\* A block handed out keeps the layout.
LEMMA Handed ==
    ASSUME NEW h, NEW bs, NEW lv, NEW us, NEW tt, LayoutOf(h, bs, lv, us, tt),
           NEW h2, NEW bs2, Shaped(h2, bs2),
           NEW p, NEW x, TakenAt(h.slab, bs, h2.slab, bs2, p, x.at),
           Holds(h2.slab, bs2, p, x),
           x \in [at : Nat, len : Nat, want : Nat], x.want <= x.len,
           NEW us2, NEW tt2, CountsUp(h.slab, h2.slab, us, tt, us2, tt2, p)
    PROVE  LayoutOf(h2, bs2, lv \cup {x}, us2, tt2) /\ \A y \in lv : y.at # x.at
<1> DEFINE s == h.slab
           s2 == h2.slab
<1>1. /\ Chunked(s, bs) /\ LiveExact(s, bs, lv) /\ Counted(s, lv, us, tt)
      /\ \E rk : Fit(h, bs, rk, Null)
  BY DEF LayoutOf, Shaped
<1>2. s \in [Pages -> Words]
  BY <1>1, HeapParts DEF Fit
<1>3. TakenAt(s, bs, s2, bs2, p, x.at) /\ Holds(s2, bs2, p, x) /\ p \in Pages
  BY DEF TakenAt
<1>4. CountsUp(s, s2, us, tt, us2, tt2, p)
  OBVIOUS
<1> HIDE DEF s, s2
<1>5. Grows(s, bs, s2, bs2, x.at) /\ PageOf(x.at) = p
  BY <1>3, GrowsAt
<1>6. LiveExact(s2, bs2, lv \cup {x}) /\ \A y \in lv : y.at # x.at
  BY <1>1, <1>3, <1>5, LiveAdd
<1>7. ASSUME NEW i \in Slots
      PROVE  /\ tt2[i] = Cardinality(CutFor(s2, i)) * Capacity(i + MinShift)
             /\ us2[i] = Cardinality(BlocksIn(lv \cup {x}, CutFor(s2, i)))
  <2> DEFINE K == Cardinality(CutFor(s, i))
             K2 == Cardinality(CutFor(s2, i))
             C == Capacity(i + MinShift)
             B == Cardinality(BlocksIn(lv, CutFor(s, i)))
             B2 == Cardinality(BlocksIn(lv \cup {x}, CutFor(s2, i)))
  <2>1. /\ K \in Nat
        /\ K2 = K + (IF p \in CutFor(s2, i) /\ p \notin CutFor(s, i) THEN 1 ELSE 0)
    BY <1>3, CutTaken
  <2>2. C \in Nat
    BY CapacityType
  <2>3. tt[i] = K * C /\ us[i] = B
    BY <1>1 DEF Counted
  <2>4. x \notin lv
    BY <1>6
  <2>5. B \in Nat /\ B2 = B + (IF PageOf(x.at) \in CutFor(s2, i) /\ x \notin lv THEN 1 ELSE 0)
    <3>1. MoreBlocks(s, lv, s2, x, i)
      BY <1>1, <1>2, <1>5, BlocksMore
    <3> QED
      BY <3>1 DEF MoreBlocks
  <2> HIDE DEF K, K2, C, B, B2
  <2>6. us2[i] = B2
    BY <1>4, <1>5, <2>3, <2>4, <2>5 DEF CountsUp
  <2>7. tt2[i] = K2 * C
    <3>1. tt2[i] = tt[i] + (IF p \in CutFor(s2, i) /\ p \notin CutFor(s, i) THEN C ELSE 0)
      BY <1>4 DEF CountsUp, C
    <3>2. (K + 1) * C = K * C + C /\ K * C \in Nat
      BY <2>1, <2>2
    <3>3. CASE p \in CutFor(s2, i) /\ p \notin CutFor(s, i)
      <4>1. K2 = K + 1 /\ tt2[i] = K * C + C
        BY <2>1, <2>3, <3>1, <3>3
      <4> QED
        BY <3>2, <4>1
    <3>4. CASE ~(p \in CutFor(s2, i) /\ p \notin CutFor(s, i))
      <4>1. K2 = K /\ tt2[i] = K * C
        BY <2>1, <2>3, <3>1, <3>2, <3>4
      <4> QED
        BY <4>1
    <3> QED
      BY <3>3, <3>4
  <2> QED
    BY <2>6, <2>7 DEF K2, C, B2
<1>8. Counted(s2, lv \cup {x}, us2, tt2)
  BY <1>4, <1>7 DEF Counted, CountsUp
<1> QED
  BY <1>6, <1>8 DEF LayoutOf, s2

\* A block given back keeps the layout, and it was a caller's.
Without(lv, a) == {y \in lv : y.at # a}

Returning(h, bs, lv, us, tt, h2, bs2, us2, tt2, p, a) ==
    /\ LayoutOf(h, bs, lv, us, tt) /\ Shaped(h2, bs2)
    /\ TakenAt(h2.slab, bs2, h.slab, bs, p, a)
    /\ us2 \in [Slots -> Int] /\ tt2 \in [Slots -> Int]
    /\ CountsUp(h2.slab, h.slab, us2, tt2, us, tt, p)

LEMMA Returned ==
    ASSUME NEW h, NEW bs, NEW lv, NEW us, NEW tt, NEW h2, NEW bs2, NEW us2, NEW tt2,
           NEW p, NEW a, Returning(h, bs, lv, us, tt, h2, bs2, us2, tt2, p, a)
    PROVE  /\ LayoutOf(h2, bs2, Without(lv, a), us2, tt2)
           /\ \E x \in lv : x.at = a
<1>0. /\ LayoutOf(h, bs, lv, us, tt) /\ Shaped(h2, bs2)
      /\ TakenAt(h2.slab, bs2, h.slab, bs, p, a)
      /\ us2 \in [Slots -> Int] /\ tt2 \in [Slots -> Int]
      /\ CountsUp(h2.slab, h.slab, us2, tt2, us, tt, p)
  BY DEF Returning
<1> DEFINE s == h.slab
           s2 == h2.slab
           lv2 == Without(lv, a)
<1>1. Chunked(s, bs) /\ LiveExact(s, bs, lv) /\ Counted(s, lv, us, tt)
  BY <1>0 DEF LayoutOf, Shaped
<1>2. Chunked(s2, bs2) /\ s2 \in [Pages -> Words]
  BY <1>0, HeapParts DEF Shaped, Fit
<1>3. TakenAt(s2, bs2, s, bs, p, a) /\ PageTaken(s2, bs2, s, bs, p, a) /\ p \in Pages
  BY <1>0 DEF TakenAt
<1>4. CountsUp(s2, s, us2, tt2, us, tt, p)
  BY <1>0
<1> HIDE DEF s, s2
<1>5. Grows(s2, bs2, s, bs, a) /\ PageOf(a) = p
  BY <1>3, GrowsAt
<1>6. LiveExact(s2, bs2, lv2)
  BY <1>1, <1>5, LiveDrop DEF Without
<1>7. PICK x \in lv : x.at = a
  <2>1. CASE s[p].tag = "start" /\ a = p * PageSize
    BY <1>1, <1>3, <2>1 DEF LiveExact
  <2>2. CASE s[p].tag = "cut" /\ \E c \in bs[p] \ Reserved(s[p].n) : a = ChunkAt(p, c, s[p].n)
    BY <1>1, <1>3, <2>2 DEF LiveExact
  <2>3. CASE /\ s2[p].tag = "cut" /\ s[p] = s2[p]
             /\ \E c \in Chunks(s2[p].n) : /\ a = ChunkAt(p, c, s2[p].n) /\ c \notin bs2[p]
                                           /\ bs[p] = bs2[p] \cup {c}
    <3>1. Reserved(s2[p].n) \subseteq bs2[p]
      BY <1>2, <1>3, <2>3 DEF Chunked
    <3>2. \E c \in bs[p] \ Reserved(s[p].n) : a = ChunkAt(p, c, s[p].n)
      BY <2>3, <3>1
    <3> QED
      BY <2>2, <2>3, <3>2
  <2> QED
    BY <1>3, <2>1, <2>2, <2>3 DEF PageTaken
<1>8. lv = lv2 \cup {x} /\ x \notin lv2
  BY <1>1, <1>7 DEF LiveExact, Without
<1> HIDE DEF lv2
<1>9. ASSUME NEW i \in Slots
      PROVE  /\ tt2[i] = Cardinality(CutFor(s2, i)) * Capacity(i + MinShift)
             /\ us2[i] = Cardinality(BlocksIn(lv2, CutFor(s2, i)))
  <2> DEFINE K == Cardinality(CutFor(s, i))
             K2 == Cardinality(CutFor(s2, i))
             C == Capacity(i + MinShift)
             B == Cardinality(BlocksIn(lv, CutFor(s, i)))
             B2 == Cardinality(BlocksIn(lv2, CutFor(s2, i)))
  <2>1. /\ K2 \in Nat
        /\ K = K2 + (IF p \in CutFor(s, i) /\ p \notin CutFor(s2, i) THEN 1 ELSE 0)
    BY <1>3, CutTaken
  <2>2. C \in Nat
    BY CapacityType
  <2>3. tt[i] = K * C /\ us[i] = B
    BY <1>1 DEF Counted
  <2>4. Grows(s2, bs2, s, bs, x.at)
    BY <1>5, <1>7
  <2>5. /\ B2 \in Nat
        /\ Cardinality(BlocksIn(lv2 \cup {x}, CutFor(s, i))) =
             B2 + (IF PageOf(x.at) \in CutFor(s, i) /\ x \notin lv2 THEN 1 ELSE 0)
    <3>1. MoreBlocks(s2, lv2, s, x, i)
      BY <1>2, <1>6, <2>4, BlocksMore
    <3> QED
      BY <3>1 DEF MoreBlocks
  <2>6. B = B2 + (IF p \in CutFor(s, i) THEN 1 ELSE 0)
    BY <1>5, <1>7, <1>8, <2>5
  <2> HIDE DEF K, K2, C, B, B2
  <2>7. us2[i] \in Int /\ tt2[i] \in Int
    BY <1>0
  <2>8. us2[i] = B2
    <3>1. us[i] = us2[i] + (IF p \in CutFor(s, i) THEN 1 ELSE 0)
      BY <1>4 DEF CountsUp
    <3> QED
      BY <2>3, <2>5, <2>6, <2>7, <3>1
  <2>9. tt2[i] = K2 * C
    <3>1. tt[i] = tt2[i] + (IF p \in CutFor(s, i) /\ p \notin CutFor(s2, i) THEN C ELSE 0)
      BY <1>4 DEF CountsUp, C
    <3>2. (K2 + 1) * C = K2 * C + C /\ K2 * C \in Nat
      BY <2>1, <2>2
    <3>3. CASE p \in CutFor(s, i) /\ p \notin CutFor(s2, i)
      <4>1. K = K2 + 1 /\ tt[i] = tt2[i] + C
        BY <2>1, <3>1, <3>3
      <4>2. K2 * C + C = tt2[i] + C
        BY <2>3, <3>2, <4>1
      <4> QED
        BY <2>2, <2>7, <3>2, <4>2
    <3>4. CASE ~(p \in CutFor(s, i) /\ p \notin CutFor(s2, i))
      <4>1. K = K2 /\ tt[i] = tt2[i]
        BY <2>1, <2>7, <3>1, <3>4
      <4> QED
        BY <2>3, <4>1
    <3> QED
      BY <3>3, <3>4
  <2> QED
    BY <2>8, <2>9 DEF K2, C, B2
<1>10. Counted(s2, lv2, us2, tt2)
  BY <1>0, <1>9 DEF Counted
<1> QED
  BY <1>0, <1>6, <1>7, <1>10 DEF LayoutOf, s2, lv2

-------------------------------------------------------------------------------
(* dl_slab_alloc.                                                            *)

\* The invariant is about the pool's metadata and the callers' blocks.
LEMMA LayoutIs ==
    /\ Layout <=> LayoutOf(Heap, bits, live, used, total)
    /\ Heap.next = next /\ Heap.prev = prev /\ Heap.slab = slab /\ Heap.pfree = pfree
<1>1. Heap.next = next /\ Heap.prev = prev /\ Heap.slab = slab /\ Heap.pfree = pfree
  BY DEF Heap
<1>2. (\E rk \in [Pages \cup Heads -> Nat] : Fit(Heap, bits, rk, Null))
        <=> \E rk : Fit(Heap, bits, rk, Null)
  BY DEF Fit
<1> QED
  BY <1>1, <1>2 DEF Layout, LayoutOf, Shaped

\* Types that every layout has.
LEMMA LayoutTypes ==
    ASSUME NEW h, NEW bs, NEW lv, NEW us, NEW tt, LayoutOf(h, bs, lv, us, tt)
    PROVE  /\ h.next \in [Pages \cup Heads -> Refs] /\ h.prev \in [Pages -> Ptrs]
           /\ h.slab \in [Pages -> Words] /\ h.pfree \in Int /\ Tiled(h.slab)
           /\ Chunked(h.slab, bs) /\ Apart(h.slab) /\ bs \in [Pages -> SUBSET Nat]
           /\ us \in [Slots -> Int] /\ tt \in [Slots -> Int]
           /\ LiveExact(h.slab, bs, lv)
           /\ \E rk : Fit(h, bs, rk, Null)
<1>1. Shaped(h, bs) /\ us \in [Slots -> Int] /\ tt \in [Slots -> Int] /\ LiveExact(h.slab, bs, lv)
  BY DEF LayoutOf, Counted
<1>2. PICK rk : Fit(h, bs, rk, Null)
  BY <1>1 DEF Shaped
<1>3. h \in Heaps /\ Tiled(h.slab)
  BY <1>2 DEF Fit
<1>4. /\ h.next \in [Pages \cup Heads -> Refs] /\ h.prev \in [Pages -> Ptrs]
      /\ h.slab \in [Pages -> Words] /\ h.pfree \in Int
  BY <1>3, HeapParts
<1>5. Chunked(h.slab, bs) /\ Apart(h.slab) /\ bs \in [Pages -> SUBSET Nat]
  BY <1>1 DEF Shaped, Chunked
<1> QED
  BY <1>1, <1>2, <1>3, <1>4, <1>5

\* Words of pages that are not cut do not matter to the bitmaps.
LEMMA ChunkedSame ==
    ASSUME NEW s, NEW bs, Chunked(s, bs), NEW s2,
           \A q \in Pages : s2[q] = s[q] \/ (s2[q].tag # "cut" /\ s[q].tag # "cut")
    PROVE  Chunked(s2, bs)
<1>1. bs \in [Pages -> SUBSET Nat]
  BY DEF Chunked
<1>2. ASSUME NEW q \in Pages
      PROVE  IF s2[q].tag = "cut"
             THEN /\ s2[q].n \in MinShift .. PageShift - 1
                  /\ Reserved(s2[q].n) \subseteq bs[q] /\ bs[q] \subseteq Chunks(s2[q].n)
                  /\ bs[q] \ Reserved(s2[q].n) # {}
             ELSE bs[q] = {}
  <2>1. CASE s2[q] = s[q]
    BY <2>1 DEF Chunked
  <2>2. CASE s2[q].tag # "cut" /\ s[q].tag # "cut"
    BY <2>2 DEF Chunked
  <2> QED
    BY <2>1, <2>2
<1> QED
  BY <1>1, <1>2 DEF Chunked

\* Carving out a block changes no word of a page in use.
LEMMA CarvedWords ==
    ASSUME NEW s \in [Pages -> Words], Tiled(s), NEW p \in Pages, IsRun(s[p]),
           NEW n \in 1 .. s[p].n
    PROVE  /\ s[p].tag = "run" /\ CarvedOf(s, p, n)[p] = Start(n)
           /\ \A q \in Pages \ {p} :
                 \/ CarvedOf(s, p, n)[q] = s[q]
                 \/ /\ s[q].tag \notin {"cut", "start"}
                    /\ CarvedOf(s, p, n)[q].tag \notin {"cut", "start"}
<1> DEFINE s2 == CarvedOf(s, p, n)
<1>1. /\ s2[p] = Start(n)
      /\ \A y \in p + 1 .. p + n - 1 : s2[y] = Busy
      /\ s[p].n > n => /\ p + n \in Pages /\ Inner(s[p + n])
                       /\ IsRun(s2[p + n])
      /\ \A y \in Pages : /\ y \notin p .. p + n - 1
                          /\ ~(y = p + n /\ s[p].n > n)
                          => s2[y] = s[y]
  BY CarvedAt
<1>2. /\ s[p].n \in Nat \ {0} /\ p + s[p].n <= NPages /\ Spans(s[p]) /\ s[p].tag = "run"
      /\ \A q \in p + 1 .. p + s[p].n - 1 : q \in Pages /\ s[q] = Further(s[p]) /\ Inner(s[q])
  <2>1. Spans(s[p]) /\ s[p].tag = "run"
    BY DEF IsRun, Spans
  <2> QED
    BY <2>1, SpanOf
<1> HIDE DEF s2
<1>3. ASSUME NEW q \in Pages \ {p}
      PROVE  \/ s2[q] = s[q]
             \/ s[q].tag \notin {"cut", "start"} /\ s2[q].tag \notin {"cut", "start"}
  <2>0. p \in Nat /\ q \in Nat /\ n \in Nat
    BY <1>2, RefsApart
  <2>1. CASE q \in p + 1 .. p + n - 1
    <3>1. q \in p + 1 .. p + s[p].n - 1
      BY <1>2, <2>0, <2>1
    <3>2. Inner(s[q]) /\ s2[q] = Busy
      BY <1>1, <1>2, <2>1, <3>1
    <3> QED
      BY <3>2 DEF Inner, Run, Busy
  <2>2. CASE q = p + n /\ s[p].n > n
    <3>1. Inner(s[q]) /\ IsRun(s2[q])
      BY <1>1, <2>2
    <3> QED
      BY <3>1 DEF Inner, Run, Busy, IsRun
  <2>3. CASE q \notin p + 1 .. p + n - 1 /\ ~(q = p + n /\ s[p].n > n)
    <3>1. q \notin p .. p + n - 1
      BY <1>3, <2>0, <2>3
    <3> QED
      BY <1>1, <2>3, <3>1
  <2> QED
    BY <2>1, <2>2, <2>3
<1> QED
  BY <1>1, <1>2, <1>3 DEF s2

\* Nothing to add.
LEMMA CountsSame ==
    ASSUME NEW us \in [Slots -> Int], NEW tt \in [Slots -> Int], NEW s, NEW s2, NEW p,
           s2[p].tag # "cut"
    PROVE  CountsUp(s, s2, us, tt, us, tt, p)
<1>1. \A i \in Slots : p \notin CutFor(s2, i)
  BY DEF CutFor
<1> QED
  BY <1>1 DEF CountsUp

\* Whole pages are handed out.
LEMMA PagesHanded ==
    ASSUME Layout, NEW n \in Nat \ {0}, FirstFit(n) # Null,
           NEW size \in Nat, size <= n * PageSize,
           NEW p, p = FirstFit(n), NEW x, x = Block(p * PageSize, n * PageSize, size)
    PROVE  /\ LayoutOf(TakeRun(Heap, p, n), bits, live \cup {x}, used, total)
           /\ \A y \in live : y.at # x.at
<1> DEFINE h2 == TakeRun(Heap, p, n)
<1>1. LayoutOf(Heap, bits, live, used, total) /\ Heap.slab = slab
  BY LayoutIs
<1>2. PICK rk : Fit(Heap, bits, rk, Null)
  BY <1>1, LayoutTypes
<1>3. /\ slab \in [Pages -> Words] /\ Tiled(slab) /\ Chunked(slab, bits) /\ Apart(slab)
      /\ used \in [Slots -> Int] /\ total \in [Slots -> Int]
  BY <1>1, LayoutTypes
<1>4. p \in Pages /\ IsRun(slab[p]) /\ n <= slab[p].n
  BY <1>2, <1>3, FirstFitFinds
<1>5. n \in 1 .. slab[p].n
  <2>1. slab[p].n \in Nat
    BY <1>3, <1>4, WordsTyped
  <2> QED
    BY <1>4, <2>1
<1>6. PICK rk2 : Fit(h2, bits, rk2, Null) /\ h2.slab = CarvedOf(slab, p, n)
  BY <1>1, <1>2, <1>4, TakeRunFit
<1> DEFINE s2 == CarvedOf(slab, p, n)
<1>7. /\ slab[p].tag = "run" /\ s2[p] = Start(n)
      /\ \A q \in Pages \ {p} :
            s2[q] = slab[q] \/ (slab[q].tag \notin {"cut", "start"} /\ s2[q].tag \notin {"cut", "start"})
  BY <1>3, <1>4, <1>5, CarvedWords
<1>8. Apart(s2)
  BY <1>3, <1>4, <1>5, CarvedApart
<1> HIDE DEF s2, h2
<1>9. s2[p].tag = "start" /\ s2[p].n = n
  BY <1>7 DEF Start
<1>10. Chunked(s2, bits)
  <2>1. \A q \in Pages : s2[q] = slab[q] \/ (s2[q].tag # "cut" /\ slab[q].tag # "cut")
    BY <1>7, <1>9
  <2> QED
    BY <1>3, <2>1, ChunkedSame
<1>11. Shaped(h2, bits)
  BY <1>6, <1>8, <1>10 DEF Shaped, s2
<1>12. x.at = p * PageSize /\ x.len = n * PageSize /\ x.want = size
  BY DEF Block
<1>13. TakenAt(slab, bits, s2, bits, p, x.at)
  <2>1. PageTaken(slab, bits, s2, bits, p, x.at)
    BY <1>7, <1>9, <1>12 DEF PageTaken
  <2> QED
    BY <1>3, <1>4, <1>7, <1>10, <2>1 DEF TakenAt
<1>14. Holds(s2, bits, p, x)
  BY <1>9, <1>12 DEF Holds
<1>15. x \in [at : Nat, len : Nat, want : Nat] /\ x.want <= x.len
  <2>1. p * PageSize \in Nat
    BY <1>4, PageStart
  <2>2. PageSize \in Nat
    BY PageOfChunks, SlabAssumption
  <2>3. n * PageSize \in Nat
    BY <2>2
  <2> QED
    BY <1>12, <2>1, <2>3 DEF Block
<1>16. CountsUp(slab, s2, used, total, used, total, p)
  BY <1>3, <1>9, CountsSame
<1>17. h2.slab = s2
  BY <1>6 DEF s2
<1>18. LayoutOf(h2, bits, live \cup {x}, used, total) /\ \A y \in live : y.at # x.at
  <2>1. /\ TakenAt(Heap.slab, bits, h2.slab, bits, p, x.at)
        /\ Holds(h2.slab, bits, p, x)
        /\ CountsUp(Heap.slab, h2.slab, used, total, used, total, p)
    BY <1>1, <1>13, <1>14, <1>16, <1>17
  <2> QED
    BY ONLY <1>1, <1>11, <1>15, <2>1, Handed
<1> QED
  BY <1>18 DEF h2

-------------------------------------------------------------------------------
(* dl_slab_free of whole pages.                                              *)

\* Freeing pages changes no word of another page in use.
LEMMA FreedWords ==
    ASSUME NEW s \in [Pages -> Words], Tiled(s), NEW p \in Pages, NEW n, Used(s, p, n),
           NEW s2, WordsFreed(s, s2, p, n)
    PROVE  /\ s2[p].tag = "run"
           /\ \A q \in Pages \ {p} :
                 \/ s[q] = s2[q]
                 \/ s[q].tag \notin {"cut", "start"} /\ s2[q].tag \notin {"cut", "start"}
<1>1. /\ n \in Nat \ {0}
      /\ \A q \in p + 1 .. p + n - 1 : q \in Pages /\ s[q] = Busy
  BY UsedSpan
<1>2. p \in p .. p + n - 1
  BY <1>1, RefsApart
<1>3. s2[p].tag = "run"
  BY <1>2 DEF WordsFreed
<1>4. ASSUME NEW q \in Pages \ {p}
      PROVE  \/ s[q] = s2[q]
             \/ s[q].tag \notin {"cut", "start"} /\ s2[q].tag \notin {"cut", "start"}
  <2>1. CASE q \in p .. p + n - 1
    <3>1. q \in p + 1 .. p + n - 1
      BY <1>1, <1>4, <2>1, RefsApart
    <3>2. s[q].tag = "busy" /\ s2[q].tag = "run"
      BY <1>1, <2>1, <3>1 DEF WordsFreed, Busy
    <3> QED
      BY <3>2
  <2>2. CASE q \notin p .. p + n - 1
    BY <2>2 DEF WordsFreed
  <2> QED
    BY <2>1, <2>2
<1> QED
  BY <1>3, <1>4

\* A block of pages is given back.
LEMMA BlockReturned ==
    ASSUME Layout, NEW p \in Pages, slab[p].tag = "start", NEW a, a = p * PageSize
    PROVE  /\ LayoutOf(FreePages(Heap, p, slab[p].n), bits, Without(live, a), used, total)
           /\ \E x \in live : x.at = a
<1> DEFINE n == slab[p].n
           h2 == FreePages(Heap, p, n)
           s2 == h2.slab
<1>1. LayoutOf(Heap, bits, live, used, total) /\ Heap.slab = slab
  BY LayoutIs
<1>2. PICK rk : Fit(Heap, bits, rk, Null)
  BY <1>1, LayoutTypes
<1>3. /\ slab \in [Pages -> Words] /\ Tiled(slab) /\ Chunked(slab, bits) /\ Apart(slab)
      /\ used \in [Slots -> Int] /\ total \in [Slots -> Int] /\ bits \in [Pages -> SUBSET Nat]
  BY <1>1, LayoutTypes
<1>4. Used(slab, p, n)
  BY DEF Used
<1>5. bits[p] = {} /\ [bits EXCEPT ![p] = {}] = bits
  <2>1. bits[p] = {}
    BY <1>3 DEF Chunked
  <2> QED
    BY <1>3, <2>1
<1>6. /\ \E rk2 : Fit(h2, [bits EXCEPT ![p] = {}], rk2, Null)
      /\ Apart(s2) /\ WordsFreed(slab, s2, p, n)
  BY <1>1, <1>2, <1>3, <1>4, FreePagesFit
<1>7. /\ s2[p].tag = "run"
      /\ \A q \in Pages \ {p} :
            slab[q] = s2[q] \/ (slab[q].tag \notin {"cut", "start"} /\ s2[q].tag \notin {"cut", "start"})
  BY <1>3, <1>4, <1>6, FreedWords
<1>8. Chunked(s2, bits)
  <2>1. \A q \in Pages : s2[q] = slab[q] \/ (s2[q].tag # "cut" /\ slab[q].tag # "cut")
    BY <1>7
  <2> HIDE DEF s2
  <2> QED
    BY <1>3, <2>1, ChunkedSame
<1>9. Shaped(h2, bits)
  BY <1>5, <1>6, <1>8 DEF Shaped
<1>10. TakenAt(s2, bits, slab, bits, p, a)
  <2>1. PageTaken(s2, bits, slab, bits, p, a)
    BY <1>7 DEF PageTaken
  <2> QED
    BY <1>3, <1>7, <1>8, <2>1 DEF TakenAt
<1>11. CountsUp(s2, slab, used, total, used, total, p)
  <2> HIDE DEF s2
  <2> QED
    BY <1>3, CountsSame
<1> HIDE DEF h2
<1>12. LayoutOf(h2, bits, Without(live, a), used, total) /\ \E x \in live : x.at = a
  <2>1. /\ TakenAt(h2.slab, bits, Heap.slab, bits, p, a)
        /\ CountsUp(h2.slab, Heap.slab, used, total, used, total, p)
    BY <1>1, <1>10, <1>11
  <2>2. Returning(Heap, bits, live, used, total, h2, bits, used, total, p, a)
    BY <1>1, <1>3, <1>9, <2>1 DEF Returning
  <2> QED
    BY <2>2, Returned
<1> QED
  BY <1>12 DEF h2

-------------------------------------------------------------------------------
(* dl_slab_alloc of a chunk in a fresh page.                                 *)

\* The page at the head of a slot's list is cut for the slot and not full.
LEMMA HeadPage ==
    ASSUME Layout, NEW shift \in Shifts, NEW p, p = next[SlotHead(shift - MinShift)]
    PROVE  \/ p = SlotHead(shift - MinShift)
           \/ /\ p \in Pages /\ slab[p].tag = "cut" /\ slab[p].n = shift
              /\ bits[p] # Chunks(shift) /\ bits[p] \subseteq Chunks(shift)
              /\ ListOf(slab[p], bits[p]) = SlotHead(shift - MinShift)
<1> DEFINE head == SlotHead(shift - MinShift)
           own == Own(slab, bits, Null)
<1>1. LayoutOf(Heap, bits, live, used, total) /\ Heap.slab = slab /\ Heap.next = next
      /\ Heap.prev = prev
  BY LayoutIs
<1>2. PICK rk : Fit(Heap, bits, rk, Null)
  BY <1>1, LayoutTypes
<1>3. FitOf(next, prev, slab, Heap.pfree, bits, rk, Null)
  BY <1>1, <1>2, FitIsOf
<1>4. Linked(next, prev, own, rk) /\ slab \in [Pages -> Words] /\ Chunked(slab, bits)
  BY <1>1, <1>3, FitTypes, LayoutTypes
<1>5. /\ shift - MinShift \in Slots /\ (shift - MinShift) + MinShift = shift
      /\ head \in Heads /\ head # Free /\ head # Null
  BY RefsApart
<1>6. \/ next[head] = head
      \/ next[head] \in Pages /\ own[next[head]] = head
  <2> HIDE DEF own
  <2> QED
    BY <1>4, <1>5, LinksOfHead
<1>7. CASE p \in Pages /\ own[p] = head
  <2>1. ListOf(slab[p], bits[p]) = head
    BY <1>5, <1>7, OwnAt, RefsApart
  <2>2. slab[p].tag = "cut" /\ bits[p] # Chunks(slab[p].n) /\ SlotHead(slab[p].n - MinShift) = head
    BY <1>5, <2>1 DEF ListOf
  <2>3. slab[p].n \in Shifts /\ bits[p] \subseteq Chunks(slab[p].n)
    BY <1>4, <1>7, <2>2 DEF Chunked, Shifts
  <2>4. slab[p].n - MinShift \in Slots /\ (slab[p].n - MinShift) + MinShift = slab[p].n
    BY <2>3, RefsApart
  <2>5. slab[p].n = shift
    BY <1>5, <2>2, <2>4, RefsApart
  <2> QED
    BY <1>7, <2>1, <2>2, <2>3, <2>5
<1> QED
  BY <1>6, <1>7

Attached(h, p, head, shift) ==
    [h EXCEPT !.slab[p] = Cut(shift),
              !.next = [@ EXCEPT ![p] = head, ![head] = p],
              !.prev[p] = Ptr(head, TypeFor(shift))]

AttachedNext(nx, p, head) == [nx EXCEPT ![p] = head, ![head] = p]
AttachedPrev(pv, p, head, shift) == [pv EXCEPT ![p] = Ptr(head, TypeFor(shift))]
AttachedSlab(s, p, shift) == [s EXCEPT ![p] = Cut(shift)]

LEMMA AttachedParts ==
    ASSUME NEW nx, NEW pv, NEW s, NEW pf, NEW p, NEW head, NEW shift
    PROVE  Attached(Parts(nx, pv, s, pf), p, head, shift) =
             Parts(AttachedNext(nx, p, head), AttachedPrev(pv, p, head, shift),
                   AttachedSlab(s, p, shift), pf)
<1> DEFINE m0 == Parts(nx, pv, s, pf)
           m1 == [m0 EXCEPT !.slab[p] = Cut(shift)]
           m2 == [m1 EXCEPT !.next = [@ EXCEPT ![p] = head, ![head] = p]]
           m3 == [m2 EXCEPT !.prev[p] = Ptr(head, TypeFor(shift))]
<1>1. m1 = Parts(nx, pv, [s EXCEPT ![p] = Cut(shift)], pf)
  BY DEF Parts
<1>2. Attached(m0, p, head, shift) = m3
  BY DEF Attached
<1> HIDE DEF m1
<1>3. m2 = Parts([nx EXCEPT ![p] = head, ![head] = p], pv, [s EXCEPT ![p] = Cut(shift)], pf)
  BY <1>1 DEF Parts
<1> HIDE DEF m2
<1>4. m3 = Parts([nx EXCEPT ![p] = head, ![head] = p],
                 [pv EXCEPT ![p] = Ptr(head, TypeFor(shift))], [s EXCEPT ![p] = Cut(shift)], pf)
  BY <1>3 DEF Parts
<1> HIDE DEF m0, m3
<1> QED
  BY <1>2, <1>4 DEF m0, AttachedNext, AttachedPrev, AttachedSlab

\* A block of one page in no list becomes the only page of an empty list.
Attachable(h, bs, rk, p, shift, B, head, bs2) ==
    /\ Fit(h, bs, rk, Null) /\ bs \in [Pages -> SUBSET Nat]
    /\ p \in Pages /\ h.slab[p] = Start(1)
    /\ shift \in Shifts
    /\ head = SlotHead(shift - MinShift) /\ h.next[head] = head
    /\ B \subseteq Nat /\ B # Chunks(shift) /\ bs2 = [bs EXCEPT ![p] = B]

LEMMA AttachedFit ==
    ASSUME NEW h, NEW bs, NEW rk, NEW p, NEW shift, NEW B, NEW head, NEW bs2,
           Attachable(h, bs, rk, p, shift, B, head, bs2)
    PROVE  /\ \E rk2 : Fit(Attached(h, p, head, shift), bs2, rk2, Null)
           /\ Attached(h, p, head, shift).slab = AttachedSlab(h.slab, p, shift)
<1> DEFINE nx == h.next
           pv == h.prev
           s == h.slab
           pf == h.pfree
           own == Own(s, bs, Null)
           s2 == [s EXCEPT ![p] = Cut(shift)]
           own2 == [own EXCEPT ![p] = head]
           nx2 == [nx EXCEPT ![p] = nx[head], ![head] = p]
           pv2 == [PrevSet(pv, nx[head], Ptr(p, KindIn(head))) EXCEPT
                       ![p] = Ptr(head, KindIn(head))]
           rk2 == [rk EXCEPT ![p] = rk[head], ![head] = rk[head] + 1]
<1>1. /\ bs \in [Pages -> SUBSET Nat] /\ p \in Pages /\ s[p] = Start(1) /\ shift \in Shifts
      /\ nx[head] = head /\ B \subseteq Nat /\ B # Chunks(shift)
      /\ head = SlotHead(shift - MinShift) /\ Fit(h, bs, rk, Null)
  BY DEF Attachable
<1>2. FitOf(nx, pv, s, pf, bs, rk, Null) /\ h = Parts(nx, pv, s, pf)
  BY <1>1, FitIsOf
<1> HIDE DEF nx, pv, s, pf
<1>3. /\ nx \in [Pages \cup Heads -> Refs] /\ pv \in [Pages -> Ptrs] /\ s \in [Pages -> Words]
      /\ own \in Owners /\ Linked(nx, pv, own, rk) /\ Tiled(s)
  BY <1>2, FitTypes
<1>0. bs2 = [bs EXCEPT ![p] = B]
  BY DEF Attachable
<1>4. /\ shift - MinShift \in Slots /\ (shift - MinShift) + MinShift = shift
      /\ head \in Heads /\ head # Free /\ head # Null /\ KindIn(head) = TypeFor(shift)
      /\ head \notin Pages /\ p \notin Heads /\ p # Null /\ shift \in Nat
  BY <1>1, RefsApart, SlabAssumption DEF Shifts
<1>5. \A q \in Pages : own[q] = ListOf(s[q], bs[q])
  BY OwnAt, RefsApart
<1> HIDE DEF own
<1>6. own[p] = Null
  <2>1. ~IsRun(s[p]) /\ s[p].tag # "cut"
    BY <1>1 DEF Start, IsRun
  <2> QED
    BY <1>1, <1>5, <2>1, ListsOfWords
<1>7. Linked(nx2, pv2, own2, rk2)
  BY <1>1, <1>3, <1>4, <1>6, LinkedPush
<1>8. /\ nx2 = [nx EXCEPT ![p] = head, ![head] = p]
      /\ pv2 = [pv EXCEPT ![p] = Ptr(head, TypeFor(shift))]
  BY <1>1, <1>4 DEF PrevSet
<1>9. /\ nx2 \in [Pages \cup Heads -> Refs] /\ pv2 \in [Pages -> Ptrs] /\ own2 \in Owners
  BY <1>7 DEF Linked, LinkedTypes
<1>10. s2 \in [Pages -> Words] /\ Tiled(s2)
  BY <1>1, <1>3, <1>4, CutTiled
<1>11. s2[p] = Cut(shift) /\ bs2[p] = B /\ \A q \in Pages \ {p} : s2[q] = s[q] /\ bs2[q] = bs[q]
  BY <1>0, <1>1, <1>3
<1>12. ListOf(Cut(shift), B) = head /\ KindOf(Cut(shift)) = TypeFor(shift)
  <2>1. Cut(shift).tag = "cut" /\ Cut(shift).n = shift /\ ~IsRun(Cut(shift))
    BY DEF Cut, IsRun
  <2> QED
    BY <1>1, <2>1 DEF ListOf, KindOf
<1>13. \A q \in Pages : own2[q] = IF q = Null THEN Null ELSE ListOf(s2[q], bs2[q])
  <2> SUFFICES ASSUME NEW q \in Pages PROVE own2[q] = ListOf(s2[q], bs2[q])
    BY RefsApart
  <2>1. own \in [Pages \cup Heads -> Heads \cup {Null}]
    BY <1>3 DEF Owners
  <2>2. CASE q = p
    BY <1>1, <1>11, <1>12, <2>1, <2>2
  <2>3. CASE q # p
    BY <1>1, <1>5, <1>11, <2>1, <2>3
  <2> QED
    BY <2>2, <2>3
<1> HIDE DEF own2
<1>14. Own(s2, bs2, Null) = own2
  <2> HIDE DEF s2
  <2> QED
    BY <1>9, <1>13, OwnIs
<1>15. ASSUME NEW q \in Pages
       PROVE  /\ nx2[q] = Null <=> ListOf(s2[q], bs2[q]) = Null
              /\ pv2[q].type = KindOf(s2[q])
  <2>1. CASE q = p
    <3>1. nx2[q] = head /\ pv2[q] = Ptr(head, TypeFor(shift))
      BY <1>1, <1>3, <1>4, <1>8, <2>1
    <3> QED
      BY <1>4, <1>11, <1>12, <2>1, <3>1 DEF Ptr
  <2>2. CASE q # p
    <3>1. nx2[q] = nx[q] /\ pv2[q] = pv[q]
      BY <1>3, <1>4, <1>8, <2>2
    <3>2. q \in Pages \ {Null}
      BY RefsApart
    <3>3. (nx[q] = Null <=> ListOf(s[q], bs[q]) = Null) /\ pv[q].type = KindOf(s[q])
      BY <1>2, <3>2 DEF FitOf
    <3> QED
      BY <1>11, <2>2, <3>1, <3>3
  <2> QED
    BY <2>1, <2>2
<1>16. Tails(s2, pv2, Null)
  <2> SUFFICES ASSUME NEW r \in Pages, IsRun(s2[r]), s2[r].n > 1, r + s2[r].n < NPages
               PROVE  pv2[r + s2[r].n - 1] = Ptr(r, "PAGE")
    BY DEF Tails
  <2>1. r # p /\ s2[r] = s[r]
    BY <1>11 DEF Cut, IsRun
  <2>2. Spans(s[r]) /\ IsRun(s[r])
    BY <2>1 DEF IsRun, Spans
  <2>3. /\ s[r].n \in Nat
        /\ \A q \in r + 1 .. r + s[r].n - 1 : q \in Pages /\ Inner(s[q])
    BY <1>3, <2>2, SpanOf
  <2> DEFINE e == r + s[r].n - 1
  <2>4. e \in r + 1 .. r + s[r].n - 1
    BY <2>1, <2>3, RefsApart
  <2>5. e \in Pages /\ Inner(s[e])
    BY <2>3, <2>4
  <2>6. pv[e] = Ptr(r, "PAGE")
    <3>1. r \in Pages \ {Null}
      BY RefsApart
    <3> QED
      BY <1>2, <2>1, <2>2, <3>1 DEF FitOf, Tails
  <2>7. e # p
    BY <1>1, <2>5 DEF Inner, Start, Run, Busy
  <2> HIDE DEF e
  <2>8. pv2[e] = pv[e]
    BY <1>3, <1>8, <2>5, <2>7
  <2> QED
    BY <2>1, <2>6, <2>8 DEF e
<1>17. pf = FreePageCount(s2)
  <2>1. \A q \in Pages : s2[q].tag = "run" <=> s[q].tag = "run"
    BY <1>1, <1>11 DEF Cut, Start
  <2> HIDE DEF s2
  <2>2. FreePageCount(s2) = FreePageCount(s)
    BY <2>1, SameCount
  <2> QED
    BY <1>2, <2>2 DEF FitOf
<1> HIDE DEF nx2, pv2, rk2, s2
<1>18. FitOf(nx2, pv2, s2, pf, bs2, rk2, Null)
  BY <1>7, <1>10, <1>14, <1>15, <1>16, <1>17 DEF FitOf
<1>19. Fit(Parts(nx2, pv2, s2, pf), bs2, rk2, Null)
  BY <1>18, OfIsFit
<1>20. Attached(h, p, head, shift) = Parts(nx2, pv2, s2, pf)
  <2>1. Attached(Parts(nx, pv, s, pf), p, head, shift) =
          Parts(AttachedNext(nx, p, head), AttachedPrev(pv, p, head, shift),
                AttachedSlab(s, p, shift), pf)
    BY AttachedParts
  <2>2. /\ AttachedNext(nx, p, head) = nx2 /\ AttachedPrev(pv, p, head, shift) = pv2
        /\ AttachedSlab(s, p, shift) = s2
    BY <1>8 DEF s2, AttachedNext, AttachedPrev, AttachedSlab
  <2> QED
    BY <1>2, <2>1, <2>2
<1>21. Parts(nx2, pv2, s2, pf).slab = s2
  BY DEF Parts
<1> QED
  BY <1>19, <1>20, <1>21 DEF s2, s, AttachedSlab

\* The counters after a chunk in a page cut for slot i was taken.
LEMMA CountsAt ==
    ASSUME NEW us, NEW tt, NEW us2 \in [Slots -> Int], NEW tt2 \in [Slots -> Int],
           NEW s, NEW s2, NEW p \in Pages, NEW i \in Slots,
           s2[p].tag = "cut", s2[p].n = i + MinShift,
           s[p].tag # "cut" \/ s[p] = s2[p],
           \A j \in Slots :
              /\ us2[j] = us[j] + (IF j = i THEN 1 ELSE 0)
              /\ tt2[j] = tt[j] + (IF j = i /\ s[p].tag # "cut"
                                   THEN Capacity(j + MinShift) ELSE 0)
    PROVE  CountsUp(s, s2, us, tt, us2, tt2, p)
<1>1. ASSUME NEW j \in Slots
      PROVE  /\ p \in CutFor(s2, j) <=> j = i
             /\ p \in CutFor(s2, j) /\ p \notin CutFor(s, j) <=> j = i /\ s[p].tag # "cut"
  <2>1. i + MinShift = j + MinShift <=> j = i
    BY SlabAssumption DEF Slots, NSlots
  <2> QED
    BY <2>1 DEF CutFor
<1> QED
  BY <1>1 DEF CountsUp

\* The page that a fresh chunk comes from.
FreshPage(h, p, shift) ==
    Attached(TakeRun(h, p, 1), p, SlotHead(shift - MinShift), shift)

\* A chunk of a fresh page is handed out.
LEMMA FreshHanded ==
    ASSUME Layout, NEW shift \in Shifts, NEW p, p = FirstFit(1), p # Null,
           ~HasRoom(next[SlotHead(shift - MinShift)], shift),
           NEW size \in Nat, size <= TwoTo[shift],
           NEW x, x = Block(ChunkAt(p, BitmapChunks(shift), shift), TwoTo[shift], size),
           NEW us2, us2 = [used EXCEPT ![shift - MinShift] = @ + 1],
           NEW tt2, tt2 = [total EXCEPT ![shift - MinShift] = @ + Capacity(shift)]
    PROVE  /\ LayoutOf(FreshPage(Heap, p, shift), [bits EXCEPT ![p] = FreshBits(shift)],
                       live \cup {x}, us2, tt2)
           /\ \A y \in live : y.at # x.at
<1> DEFINE head == SlotHead(shift - MinShift)
           g == TakeRun(Heap, p, 1)
           c == BitmapChunks(shift)
           B == FreshBits(shift)
           bs2 == [bits EXCEPT ![p] = B]
           h2 == FreshPage(Heap, p, shift)
<1>1. LayoutOf(Heap, bits, live, used, total) /\ Heap.slab = slab /\ Heap.next = next
  BY LayoutIs
<1>2. PICK rk : Fit(Heap, bits, rk, Null)
  BY <1>1, LayoutTypes
<1>3. /\ slab \in [Pages -> Words] /\ Tiled(slab) /\ Chunked(slab, bits) /\ Apart(slab)
      /\ used \in [Slots -> Int] /\ total \in [Slots -> Int] /\ bits \in [Pages -> SUBSET Nat]
  BY <1>1, LayoutTypes
<1>4. /\ shift - MinShift \in Slots /\ (shift - MinShift) + MinShift = shift
      /\ head \in Heads /\ head # Free /\ head # Null
  BY RefsApart
<1>5. next[head] = head
  <2> DEFINE q == next[head]
  <2>1. \/ q = head
        \/ q \in Pages /\ bits[q] # Chunks(shift) /\ bits[q] \subseteq Chunks(shift)
    BY HeadPage
  <2> HIDE DEF q
  <2>2. ~HasRoom(q, shift)
    BY DEF q
  <2>3. q = head
    BY <2>1, <2>2 DEF HasRoom
  <2> QED
    BY <2>3 DEF q
<1>6. p \in Pages /\ IsRun(slab[p]) /\ 1 <= slab[p].n
  BY <1>2, <1>3, FirstFitFinds
<1>7. 1 \in 1 .. slab[p].n /\ 1 \in Nat \ {0}
  <2>1. slab[p].n \in Nat
    BY <1>3, <1>6, WordsTyped
  <2> QED
    BY <1>6, <2>1
<1> DEFINE s1 == CarvedOf(slab, p, 1)
           s2 == [s1 EXCEPT ![p] = Cut(shift)]
<1>8. PICK rk1 : /\ Fit(g, bits, rk1, Null) /\ g.slab = s1
                 /\ \A r \in Heads \ {Free} : g.next[r] = next[r]
  BY <1>1, <1>2, <1>6, <1>7, TakeRunFit
<1>9. /\ slab[p].tag = "run" /\ s1[p] = Start(1)
      /\ \A q \in Pages \ {p} :
            s1[q] = slab[q] \/ (slab[q].tag \notin {"cut", "start"} /\ s1[q].tag \notin {"cut", "start"})
  BY <1>3, <1>6, <1>7, CarvedWords
<1>10. Apart(s1) /\ s1 \in [Pages -> Words]
  BY <1>3, <1>6, <1>7, CarvedApart, CarvedTiled
<1> HIDE DEF s1
<1>11. /\ c \in Nat /\ c + 1 < NChunks(shift) /\ NChunks(shift) \in Nat /\ shift \in Nat
       /\ TwoTo[shift] \in Nat
  <2>1. shift \in 0 .. PageShift
    BY SlabAssumption DEF Shifts
  <2> QED
    BY <2>1, BitmapFits, PageOfChunks
<1>12. /\ B \subseteq Nat /\ B # Chunks(shift) /\ B \subseteq Chunks(shift)
       /\ B \ Reserved(shift) = {c} /\ Reserved(shift) \subseteq B /\ c \in Chunks(shift)
  <2> HIDE DEF c
  <2>1. B = 0 .. c /\ Reserved(shift) = 0 .. c - 1 /\ Chunks(shift) = 0 .. NChunks(shift) - 1
    BY DEF FreshBits, Reserved, Chunks, c
  <2> HIDE DEF B
  <2>2. c + 1 \in 0 .. NChunks(shift) - 1 /\ c + 1 \notin 0 .. c
    BY <1>11
  <2>3. \A k : k \in 0 .. c /\ k \notin 0 .. c - 1 <=> k = c
    BY <1>11
  <2>4. 0 .. c \ 0 .. c - 1 = {c}
    BY <2>3
  <2>5. 0 .. c - 1 \subseteq 0 .. c /\ 0 .. c \subseteq 0 .. NChunks(shift) - 1
        /\ c \in 0 .. NChunks(shift) - 1 /\ 0 .. c \subseteq Nat
    BY <1>11
  <2> QED
    BY <2>1, <2>2, <2>4, <2>5
<1> HIDE DEF B, c
<1>13. Attachable(g, bits, rk1, p, shift, B, head, bs2)
  BY <1>3, <1>4, <1>5, <1>6, <1>8, <1>9, <1>12 DEF Attachable
<1>14. /\ \E rk2 : Fit(h2, bs2, rk2, Null)
       /\ h2.slab = [g.slab EXCEPT ![p] = Cut(shift)]
  <2> HIDE DEF g, bs2, head
  <2>2. /\ \E rk2 : Fit(Attached(g, p, head, shift), bs2, rk2, Null)
        /\ Attached(g, p, head, shift).slab = AttachedSlab(g.slab, p, shift)
    BY <1>13, AttachedFit
  <2> QED
    BY <2>2 DEF FreshPage, g, head, AttachedSlab
<1>15. h2.slab = s2
  BY <1>8, <1>14
<1>16. /\ s2[p] = Cut(shift) /\ bs2[p] = B
       /\ \A q \in Pages \ {p} : s2[q] = s1[q] /\ bs2[q] = bits[q]
       /\ bs2 \in [Pages -> SUBSET Nat]
  BY <1>3, <1>6, <1>10, <1>12
<1> HIDE DEF s2, bs2, h2, g
<1>17. s2[p].tag = "cut" /\ s2[p].n = shift
  BY <1>16 DEF Cut
<1>18. Apart(s2)
  <2> SUFFICES ASSUME NEW r \in Pages, IsRun(s2[r]), r + s2[r].n < NPages
               PROVE  s2[r + s2[r].n].tag # "run"
    BY DEF Apart
  <2>1. r # p /\ s2[r] = s1[r]
    BY <1>16, <1>17 DEF IsRun
  <2>2. s1[r].n \in Nat /\ s1[r] \in Words
    BY <1>10, WordsTyped
  <2> DEFINE e == r + s1[r].n
  <2>3. e \in Pages
    BY <2>1, <2>2, SlabAssumption DEF Pages
  <2>4. s1[e].tag # "run"
    BY <1>10, <2>1 DEF Apart
  <2> HIDE DEF e
  <2>5. s2[e].tag # "run"
    BY <1>16, <1>17, <2>3, <2>4
  <2> QED
    BY <2>1, <2>5 DEF e
<1>19. Chunked(s2, bs2)
  <2>1. ASSUME NEW q \in Pages
        PROVE  IF s2[q].tag = "cut"
               THEN /\ s2[q].n \in MinShift .. PageShift - 1
                    /\ Reserved(s2[q].n) \subseteq bs2[q] /\ bs2[q] \subseteq Chunks(s2[q].n)
                    /\ bs2[q] \ Reserved(s2[q].n) # {}
               ELSE bs2[q] = {}
    <3>1. CASE q = p
      <4>1. shift \in MinShift .. PageShift - 1
        BY DEF Shifts
      <4> QED
        BY <1>12, <1>16, <1>17, <3>1, <4>1
    <3>2. CASE q # p
      <4>1. Chunked(s1, bits)
        <5>1. \A y \in Pages : s1[y] = slab[y] \/ (s1[y].tag # "cut" /\ slab[y].tag # "cut")
          BY <1>9 DEF Start
        <5> QED
          BY <1>3, <5>1, ChunkedSame
      <4> QED
        BY <1>16, <3>2, <4>1 DEF Chunked
    <3> QED
      BY <3>1, <3>2
  <2> QED
    BY <1>16, <2>1 DEF Chunked
<1>20. Shaped(h2, bs2)
  BY <1>14, <1>15, <1>18, <1>19 DEF Shaped
<1>21. x.at = ChunkAt(p, c, shift) /\ x.len = TwoTo[shift] /\ x.want = size
  BY DEF Block, c
<1>22. TakenAt(slab, bits, s2, bs2, p, x.at)
  <2>1. PageTaken(slab, bits, s2, bs2, p, x.at)
    BY <1>9, <1>12, <1>16, <1>17, <1>21 DEF PageTaken
  <2>2. \A q \in Pages \ {p} :
          \/ s2[q] = slab[q] /\ bs2[q] = bits[q]
          \/ slab[q].tag \notin {"cut", "start"} /\ s2[q].tag \notin {"cut", "start"}
    BY <1>9, <1>16
  <2> QED
    BY <1>3, <1>6, <1>19, <2>1, <2>2 DEF TakenAt
<1>23. Holds(s2, bs2, p, x)
  BY <1>12, <1>16, <1>17, <1>21 DEF Holds
<1>24. x \in [at : Nat, len : Nat, want : Nat] /\ x.want <= x.len
  <2>1. ChunkAt(p, c, shift) \in Nat
    BY <1>6, <1>12, ChunkPlace
  <2>2. x \in [at : Nat, len : Nat, want : Nat]
    BY <1>11, <2>1 DEF Block, c
  <2> QED
    BY <1>21, <2>2
<1>25. us2 \in [Slots -> Int] /\ tt2 \in [Slots -> Int]
  <2>1. Capacity(shift) \in Int
    BY <1>4, CapacityType
  <2> QED
    BY <1>3, <1>4, <2>1
<1>26. \A j \in Slots :
          /\ us2[j] = used[j] + (IF j = shift - MinShift THEN 1 ELSE 0)
          /\ tt2[j] = total[j] + (IF j = shift - MinShift /\ slab[p].tag # "cut"
                                  THEN Capacity(j + MinShift) ELSE 0)
  BY <1>3, <1>4, <1>9
<1>27. CountsUp(slab, s2, used, total, us2, tt2, p)
  <2> DEFINE i == shift - MinShift
  <2>1. i \in Slots /\ s2[p].n = i + MinShift /\ slab[p].tag # "cut"
    BY <1>4, <1>9, <1>17
  <2>2. \A j \in Slots :
          /\ us2[j] = used[j] + (IF j = i THEN 1 ELSE 0)
          /\ tt2[j] = total[j] + (IF j = i /\ slab[p].tag # "cut"
                                  THEN Capacity(j + MinShift) ELSE 0)
    BY <1>26
  <2> HIDE DEF i
  <2> QED
    BY ONLY <1>6, <1>17, <1>25, <2>1, <2>2, CountsAt
<1>28. LayoutOf(h2, bs2, live \cup {x}, us2, tt2) /\ \A y \in live : y.at # x.at
  <2>1. /\ TakenAt(Heap.slab, bits, h2.slab, bs2, p, x.at)
        /\ Holds(h2.slab, bs2, p, x)
        /\ CountsUp(Heap.slab, h2.slab, used, total, us2, tt2, p)
    BY <1>1, <1>15, <1>22, <1>23, <1>27
  <2> QED
    BY ONLY <1>1, <1>20, <1>24, <2>1, Handed
<1> QED
  BY <1>28 DEF h2, bs2, B

-------------------------------------------------------------------------------
(* dl_slab_alloc of a chunk in a page that has room.                         *)

\* The back pointers of runs lie in further pages only.
LEMMA TailsSame ==
    ASSUME NEW s \in [Pages -> Words], Tiled(s), NEW pv, Tails(s, pv, Null),
           NEW pv2, \A y \in Pages : Inner(s[y]) => pv2[y] = pv[y]
    PROVE  Tails(s, pv2, Null)
<1> SUFFICES ASSUME NEW r \in Pages, IsRun(s[r]), s[r].n > 1, r + s[r].n < NPages
             PROVE  pv2[r + s[r].n - 1] = Ptr(r, "PAGE")
  BY DEF Tails
<1>1. Spans(s[r])
  BY DEF IsRun, Spans
<1>2. /\ s[r].n \in Nat
      /\ \A q \in r + 1 .. r + s[r].n - 1 : q \in Pages /\ Inner(s[q])
  BY <1>1, SpanOf
<1> DEFINE e == r + s[r].n - 1
<1>3. e \in r + 1 .. r + s[r].n - 1
  BY <1>2, RefsApart
<1>4. e \in Pages /\ Inner(s[e])
  BY <1>2, <1>3
<1>5. pv[e] = Ptr(r, "PAGE")
  <2>1. r \in Pages \ {Null}
    BY RefsApart
  <2> QED
    BY <2>1 DEF Tails
<1> HIDE DEF e
<1>6. pv2[e] = Ptr(r, "PAGE")
  BY <1>4, <1>5
<1> QED
  BY <1>6 DEF e

\* Bitmaps matter by whether they are full.
LEMMA SameListFit ==
    ASSUME NEW h, NEW bs, NEW rk, Fit(h, bs, rk, Null), NEW bs2,
           \A q \in Pages : ListOf(h.slab[q], bs2[q]) = ListOf(h.slab[q], bs[q])
    PROVE  Fit(h, bs2, rk, Null)
<1>1. Own(h.slab, bs2, Null) = Own(h.slab, bs, Null)
  BY RefsApart DEF Own
<1>2. \A q \in Pages \ {Null} :
        /\ h.next[q] = Null <=> ListOf(h.slab[q], bs2[q]) = Null
        /\ h.prev[q].type = KindOf(h.slab[q])
  BY DEF Fit
<1> QED
  BY <1>1, <1>2 DEF Fit

\* The list of a cut page.
LEMMA CutList ==
    ASSUME NEW w, w.tag = "cut", NEW b
    PROVE  /\ b = Chunks(w.n) => ListOf(w, b) = Null
           /\ b # Chunks(w.n) => ListOf(w, b) = SlotHead(w.n - MinShift)
           /\ KindOf(w) = TypeFor(w.n) /\ ~Inner(w) /\ ~IsRun(w)
<1>1. ~IsRun(w) /\ ~Inner(w)
  BY DEF IsRun, Inner, Run, Busy
<1> QED
  BY <1>1 DEF ListOf, KindOf

\* A page cut for shift, with its bitmap replaced.
Recut(h, bs, rk, p, shift, B, bs2, head) ==
    /\ Fit(h, bs, rk, Null) /\ bs \in [Pages -> SUBSET Nat]
    /\ p \in Pages /\ h.slab[p].tag = "cut" /\ h.slab[p].n = shift /\ shift \in Shifts
    /\ B \subseteq Nat /\ bs2 = [bs EXCEPT ![p] = B] /\ head = SlotHead(shift - MinShift)

Recuttable(h, nx, pv, s, pf, own, bs, rk, p, shift, B, bs2, head) ==
    /\ FitOf(nx, pv, s, pf, bs, rk, Null) /\ h = Parts(nx, pv, s, pf)
    /\ nx \in [Pages \cup Heads -> Refs] /\ pv \in [Pages -> Ptrs]
    /\ s \in [Pages -> Words] /\ Tiled(s) /\ Tails(s, pv, Null)
    /\ own = Own(s, bs, Null) /\ Linked(nx, pv, own, rk) /\ own \in Owners
    /\ \A q \in Pages : own[q] = ListOf(s[q], bs[q])
    /\ bs2[p] = B /\ \A q \in Pages \ {p} : bs2[q] = bs[q]
    /\ head \in Heads /\ head # Null /\ KindIn(head) = TypeFor(shift) /\ head \notin Pages
    /\ p \in Pages /\ p \notin Heads /\ p # Null
    /\ \A b : /\ b = Chunks(shift) => ListOf(s[p], b) = Null
              /\ b # Chunks(shift) => ListOf(s[p], b) = head
    /\ KindOf(s[p]) = TypeFor(shift) /\ ~Inner(s[p])
    /\ \A q \in Pages : /\ nx[q] = Null <=> ListOf(s[q], bs[q]) = Null
                        /\ pv[q].type = KindOf(s[q])
    /\ \A q \in Pages : Inner(s[q]) => own[q] = Null

LEMMA RecutLists ==
    ASSUME NEW h, NEW bs, NEW rk, NEW p, NEW shift, NEW B, NEW bs2, NEW head,
           Recut(h, bs, rk, p, shift, B, bs2, head)
    PROVE  Recuttable(h, h.next, h.prev, h.slab, h.pfree, Own(h.slab, bs, Null),
                      bs, rk, p, shift, B, bs2, head)
<1>1. /\ Fit(h, bs, rk, Null) /\ bs \in [Pages -> SUBSET Nat]
      /\ p \in Pages /\ h.slab[p].tag = "cut" /\ h.slab[p].n = shift /\ shift \in Shifts
      /\ B \subseteq Nat /\ bs2 = [bs EXCEPT ![p] = B] /\ head = SlotHead(shift - MinShift)
  BY DEF Recut
<1>2. /\ FitOf(h.next, h.prev, h.slab, h.pfree, bs, rk, Null)
      /\ h = Parts(h.next, h.prev, h.slab, h.pfree)
  BY <1>1, FitIsOf
<1>3. /\ h.next \in [Pages \cup Heads -> Refs] /\ h.prev \in [Pages -> Ptrs]
      /\ h.slab \in [Pages -> Words] /\ Tiled(h.slab)
      /\ Linked(h.next, h.prev, Own(h.slab, bs, Null), rk)
      /\ Own(h.slab, bs, Null) \in Owners
  BY <1>2, FitTypes
<1>4. \A q \in Pages : Own(h.slab, bs, Null)[q] = ListOf(h.slab[q], bs[q])
  BY OwnAt, RefsApart
<1>5. bs2[p] = B /\ \A q \in Pages \ {p} : bs2[q] = bs[q]
  BY <1>1
<1>6. /\ head \in Heads /\ head # Null /\ KindIn(head) = TypeFor(shift) /\ head \notin Pages
      /\ p \notin Heads /\ p # Null
  BY <1>1, RefsApart
<1>7. /\ \A b : /\ b = Chunks(shift) => ListOf(h.slab[p], b) = Null
                /\ b # Chunks(shift) => ListOf(h.slab[p], b) = head
      /\ KindOf(h.slab[p]) = TypeFor(shift) /\ ~Inner(h.slab[p])
  BY <1>1, CutList
<1>8. \A q \in Pages : /\ h.next[q] = Null <=> ListOf(h.slab[q], bs[q]) = Null
                       /\ h.prev[q].type = KindOf(h.slab[q])
  <2>1. \A q \in Pages : q \in Pages \ {Null}
    BY RefsApart
  <2> QED
    BY <1>2, <2>1 DEF FitOf
<1>9. Tails(h.slab, h.prev, Null)
  BY <1>2 DEF FitOf
<1>10. \A q \in Pages : Inner(h.slab[q]) => Own(h.slab, bs, Null)[q] = Null
  <2>1. ASSUME NEW q \in Pages, Inner(h.slab[q]) PROVE ListOf(h.slab[q], bs[q]) = Null
    <3>1. ~IsRun(h.slab[q]) /\ h.slab[q].tag # "cut"
      BY <2>1 DEF Inner, IsRun, Run, Busy
    <3> QED
      BY <3>1, ListsOfWords
  <2> QED
    BY <1>4, <2>1
<1> QED
  BY <1>1, <1>2, <1>3, <1>4, <1>5, <1>6, <1>7, <1>8, <1>9, <1>10 DEF Recuttable

LeaveNext(nx, pv, p) == [[nx EXCEPT ![pv[p].ref] = nx[p]] EXCEPT ![p] = Null]
LeavePrev(nx, pv, p, shift) ==
    [PrevSet(pv, nx[p], pv[p]) EXCEPT ![p] = Ptr(Null, TypeFor(shift))]

LEMMA LeaveParts ==
    ASSUME NEW nx, NEW pv, NEW s, NEW pf, NEW p, NEW shift
    PROVE  Leave(Parts(nx, pv, s, pf), p, shift) =
             Parts(LeaveNext(nx, pv, p), LeavePrev(nx, pv, p, shift), s, pf)
<1> DEFINE nx1 == [nx EXCEPT ![pv[p].ref] = nx[p]]
           pv1 == PrevSet(pv, nx[p], pv[p])
           m0 == Unlink(Parts(nx, pv, s, pf), p)
           m1 == [m0 EXCEPT !.next[p] = Null]
           m2 == [m1 EXCEPT !.prev[p] = Ptr(Null, TypeFor(shift))]
<1>1. m0 = Parts(nx1, pv1, s, pf)
  BY UnlinkParts
<1>2. Leave(Parts(nx, pv, s, pf), p, shift) = m2
  BY DEF Leave
<1> HIDE DEF m0, nx1, pv1
<1>3. m1 = Parts([nx1 EXCEPT ![p] = Null], pv1, s, pf)
  BY <1>1 DEF Parts
<1> HIDE DEF m1
<1>4. m2 = Parts([nx1 EXCEPT ![p] = Null], [pv1 EXCEPT ![p] = Ptr(Null, TypeFor(shift))], s, pf)
  BY <1>3 DEF Parts
<1> HIDE DEF m2
<1> QED
  BY <1>2, <1>4 DEF LeaveNext, LeavePrev, nx1, pv1

\* A page that becomes full leaves its list.
LEMMA LeaveFit ==
    ASSUME NEW h, NEW bs, NEW rk, NEW p, NEW shift, NEW B, NEW bs2, NEW head,
           Recut(h, bs, rk, p, shift, B, bs2, head), bs[p] # Chunks(shift), B = Chunks(shift)
    PROVE  Fit(Leave(h, p, shift), bs2, rk, Null) /\ Leave(h, p, shift).slab = h.slab
<1> DEFINE nx == h.next
           pv == h.prev
           s == h.slab
           pf == h.pfree
           own == Own(s, bs, Null)
<1>0. Recuttable(h, nx, pv, s, pf, own, bs, rk, p, shift, B, bs2, head)
  BY RecutLists
<1> HIDE DEF nx, pv, s, pf, own
<1>1. /\ FitOf(nx, pv, s, pf, bs, rk, Null) /\ h = Parts(nx, pv, s, pf)
      /\ nx \in [Pages \cup Heads -> Refs] /\ pv \in [Pages -> Ptrs]
      /\ s \in [Pages -> Words] /\ Tiled(s) /\ Tails(s, pv, Null)
      /\ Linked(nx, pv, own, rk) /\ own \in Owners
      /\ \A q \in Pages : own[q] = ListOf(s[q], bs[q])
      /\ bs2[p] = B /\ \A q \in Pages \ {p} : bs2[q] = bs[q]
      /\ head # Null /\ p \notin Heads
      /\ \A b : /\ b = Chunks(shift) => ListOf(s[p], b) = Null
                /\ b # Chunks(shift) => ListOf(s[p], b) = head
      /\ KindOf(s[p]) = TypeFor(shift) /\ ~Inner(s[p])
      /\ \A q \in Pages : /\ nx[q] = Null <=> ListOf(s[q], bs[q]) = Null
                          /\ pv[q].type = KindOf(s[q])
      /\ \A q \in Pages : Inner(s[q]) => own[q] = Null
  BY <1>0 DEF Recuttable
<1>2. p \in Pages
  BY <1>0 DEF Recuttable
<1>3. own[p] = head /\ own[p] # Null
  BY <1>1, <1>2
<1> DEFINE nx1 == [nx EXCEPT ![pv[p].ref] = nx[p]]
           pv1 == PrevSet(pv, nx[p], pv[p])
           own2 == [own EXCEPT ![p] = Null]
           nx2 == LeaveNext(nx, pv, p)
           pv2 == LeavePrev(nx, pv, p, shift)
<1>4. Linked(nx1, pv1, own2, rk)
  BY <1>1, <1>2, <1>3, LinkedUnlink
<1>5. Quiet(nx, pv, own, nx1, pv1, {p}, own[p])
  BY <1>1, <1>2, <1>3, UnlinkQuiet
<1>6. nx1 \in [Pages \cup Heads -> Refs] /\ pv1 \in [Pages -> Ptrs] /\ own2 \in Owners
  BY <1>4 DEF Linked, LinkedTypes
<1> HIDE DEF nx1, pv1
<1>7. nx2 = [nx1 EXCEPT ![p] = Null] /\ pv2 = [pv1 EXCEPT ![p] = Ptr(Null, TypeFor(shift))]
  BY DEF LeaveNext, LeavePrev, nx1, pv1
<1>8. nx2 \in [Pages \cup Heads -> Refs] /\ pv2 \in [Pages -> Ptrs]
  <2>1. Null \in Refs /\ Ptr(Null, TypeFor(shift)) \in Ptrs
    BY RefsApart, WordsTyped, KindsApart
  <2> QED
    BY <1>6, <1>7, <2>1
<1>9. /\ nx2[p] = Null /\ pv2[p] = Ptr(Null, TypeFor(shift))
      /\ \A r \in Pages \cup Heads : r # p => nx2[r] = nx1[r]
      /\ \A r \in Pages : r # p => pv2[r] = pv1[r]
  BY <1>2, <1>6, <1>7
<1> HIDE DEF nx2, pv2
<1>10. own2[p] = Null /\ \A q \in Pages : q # p => own2[q] = own[q]
  <2>1. own \in [Pages \cup Heads -> Heads \cup {Null}]
    BY <1>1 DEF Owners
  <2> QED
    BY <1>2, <2>1
<1> HIDE DEF own2
<1>11. Linked(nx2, pv2, own2, rk)
  <2>1. /\ \A r \in Pages \cup Heads : own2[r] # Null => nx2[r] = nx1[r]
        /\ \A r \in Pages : own2[r] # Null => pv2[r] = pv1[r]
    BY <1>9, <1>10
  <2> QED
    BY <1>4, <1>8, <2>1, LinkedSame
<1>12. \A q \in Pages : own2[q] = ListOf(s[q], bs2[q])
  BY <1>1, <1>10
<1>13. Own(s, bs2, Null) = own2
  <2>1. \A q \in Pages : own2[q] = IF q = Null THEN Null ELSE ListOf(s[q], bs2[q])
    BY <1>12, RefsApart
  <2> QED
    BY <1>6, <2>1, OwnIs
<1>14. ASSUME NEW q \in Pages
       PROVE  /\ nx2[q] = Null <=> ListOf(s[q], bs2[q]) = Null
              /\ pv2[q].type = KindOf(s[q])
  <2>1. CASE q = p
    BY <1>1, <1>9, <2>1 DEF Ptr
  <2>2. CASE q # p
    <3>1. (nx1[q] = Null <=> nx[q] = Null) /\ pv1[q].type = pv[q].type
      BY <1>5, <2>2 DEF Quiet
    <3> QED
      BY <1>1, <1>9, <2>2, <3>1
  <2> QED
    BY <2>1, <2>2
<1>15. Tails(s, pv2, Null)
  <2>1. ASSUME NEW y \in Pages, Inner(s[y]) PROVE pv2[y] = pv[y]
    <3>1. y # p /\ own[y] = Null
      BY <1>1, <2>1
    <3>2. pv1[y] = pv[y]
      BY <1>5, <3>1 DEF Quiet
    <3> QED
      BY <1>9, <3>1, <3>2
  <2> QED
    BY <1>1, <2>1, TailsSame
<1>16. FitOf(nx2, pv2, s, pf, bs2, rk, Null)
  <2>1. pf = FreePageCount(s)
    BY <1>1 DEF FitOf
  <2> QED
    BY <1>1, <1>11, <1>13, <1>14, <1>15, <2>1 DEF FitOf
<1>17. Fit(Parts(nx2, pv2, s, pf), bs2, rk, Null)
  BY <1>16, OfIsFit
<1>18. Leave(h, p, shift) = Parts(nx2, pv2, s, pf)
  <2>1. Leave(Parts(nx, pv, s, pf), p, shift) =
          Parts(LeaveNext(nx, pv, p), LeavePrev(nx, pv, p, shift), s, pf)
    BY LeaveParts
  <2> QED
    BY <1>1, <2>1 DEF nx2, pv2
<1>19. Parts(nx2, pv2, s, pf).slab = s
  BY DEF Parts
<1> QED
  BY <1>17, <1>18, <1>19 DEF s

\* A full page that gets a free chunk goes back to the front of its list.
LEMMA RelistFit ==
    ASSUME NEW h, NEW bs, NEW rk, NEW p, NEW shift, NEW B, NEW bs2, NEW head,
           Recut(h, bs, rk, p, shift, B, bs2, head), bs[p] = Chunks(shift), B # Chunks(shift)
    PROVE  /\ \E rk2 : Fit(Push(h, head, p, TypeFor(shift)), bs2, rk2, Null)
           /\ Push(h, head, p, TypeFor(shift)).slab = h.slab
<1> DEFINE nx == h.next
           pv == h.prev
           s == h.slab
           pf == h.pfree
           own == Own(s, bs, Null)
<1>0. Recuttable(h, nx, pv, s, pf, own, bs, rk, p, shift, B, bs2, head)
  BY RecutLists
<1> HIDE DEF nx, pv, s, pf, own
<1>1. /\ FitOf(nx, pv, s, pf, bs, rk, Null) /\ h = Parts(nx, pv, s, pf)
      /\ nx \in [Pages \cup Heads -> Refs] /\ pv \in [Pages -> Ptrs]
      /\ s \in [Pages -> Words] /\ Tiled(s) /\ Tails(s, pv, Null)
      /\ Linked(nx, pv, own, rk) /\ own \in Owners
      /\ \A q \in Pages : own[q] = ListOf(s[q], bs[q])
      /\ bs2[p] = B /\ \A q \in Pages \ {p} : bs2[q] = bs[q]
      /\ head \in Heads /\ head # Null /\ p \notin Heads /\ KindIn(head) = TypeFor(shift)
      /\ \A b : /\ b = Chunks(shift) => ListOf(s[p], b) = Null
                /\ b # Chunks(shift) => ListOf(s[p], b) = head
      /\ KindOf(s[p]) = TypeFor(shift) /\ ~Inner(s[p])
      /\ \A q \in Pages : /\ nx[q] = Null <=> ListOf(s[q], bs[q]) = Null
                          /\ pv[q].type = KindOf(s[q])
      /\ \A q \in Pages : Inner(s[q]) => own[q] = Null
  BY <1>0 DEF Recuttable
<1>2. p \in Pages
  BY <1>0 DEF Recuttable
<1>3. own[p] = Null
  BY <1>1, <1>2
<1> DEFINE own2 == [own EXCEPT ![p] = head]
           rk2 == [rk EXCEPT ![p] = rk[head], ![head] = rk[head] + 1]
           nx2 == PushNext(nx, head, p)
           pv2 == PushPrev(nx, pv, head, p, TypeFor(shift))
<1>4. Linked(nx2, pv2, own2, rk2)
  <2>1. Linked([nx EXCEPT ![p] = nx[head], ![head] = p],
               [PrevSet(pv, nx[head], Ptr(p, KindIn(head))) EXCEPT
                   ![p] = Ptr(head, KindIn(head))],
               [own EXCEPT ![p] = head],
               [rk EXCEPT ![p] = rk[head], ![head] = rk[head] + 1])
    BY <1>1, <1>2, <1>3, LinkedPush
  <2> QED
    BY <1>1, <2>1 DEF PushNext, PushPrev
<1>5. Quiet(nx, pv, own, nx2, pv2, {p}, head)
  <2>1. Quiet(nx, pv, own, [nx EXCEPT ![p] = nx[head], ![head] = p],
              [PrevSet(pv, nx[head], Ptr(p, KindIn(head))) EXCEPT
                  ![p] = Ptr(head, KindIn(head))], {p}, head)
    BY <1>1, <1>2, <1>3, PushQuiet
  <2> QED
    BY <1>1, <2>1 DEF PushNext, PushPrev
<1>6. nx2 \in [Pages \cup Heads -> Refs] /\ pv2 \in [Pages -> Ptrs] /\ own2 \in Owners
  BY <1>4 DEF Linked, LinkedTypes
<1> HIDE DEF nx2, pv2, rk2
<1>7. own2[p] = head /\ \A q \in Pages : q # p => own2[q] = own[q]
  <2>1. own \in [Pages \cup Heads -> Heads \cup {Null}]
    BY <1>1 DEF Owners
  <2> QED
    BY <1>2, <2>1
<1> HIDE DEF own2
<1>8. \A q \in Pages : own2[q] = ListOf(s[q], bs2[q])
  BY <1>1, <1>7
<1>9. Own(s, bs2, Null) = own2
  <2>1. \A q \in Pages : own2[q] = IF q = Null THEN Null ELSE ListOf(s[q], bs2[q])
    BY <1>8, RefsApart
  <2> QED
    BY <1>6, <2>1, OwnIs
<1>10. nx2[p] # Null /\ pv2[p].type = TypeFor(shift)
  <2>1. own2[p] # Null
    BY <1>1, <1>7
  <2>2. nx2[p] \in Pages \cup Heads /\ pv2[p].type = KindIn(own2[p])
    BY <1>2, <1>4, <2>1, LinksOf
  <2> QED
    BY <1>1, <1>7, <2>2, RefsApart
<1>11. ASSUME NEW q \in Pages
       PROVE  /\ nx2[q] = Null <=> ListOf(s[q], bs2[q]) = Null
              /\ pv2[q].type = KindOf(s[q])
  <2>1. CASE q = p
    BY <1>1, <1>10, <2>1
  <2>2. CASE q # p
    <3>1. (nx2[q] = Null <=> nx[q] = Null) /\ pv2[q].type = pv[q].type
      BY <1>5, <2>2 DEF Quiet
    <3> QED
      BY <1>1, <2>2, <3>1
  <2> QED
    BY <2>1, <2>2
<1>12. Tails(s, pv2, Null)
  <2>1. ASSUME NEW y \in Pages, Inner(s[y]) PROVE pv2[y] = pv[y]
    <3>1. y # p /\ own[y] = Null
      BY <1>1, <2>1
    <3> QED
      BY <1>5, <3>1 DEF Quiet
  <2> QED
    BY <1>1, <2>1, TailsSame
<1>13. FitOf(nx2, pv2, s, pf, bs2, rk2, Null)
  <2>1. pf = FreePageCount(s)
    BY <1>1 DEF FitOf
  <2> QED
    BY <1>1, <1>4, <1>9, <1>11, <1>12, <2>1 DEF FitOf
<1>14. Fit(Parts(nx2, pv2, s, pf), bs2, rk2, Null)
  BY <1>13, OfIsFit
<1>15. Push(h, head, p, TypeFor(shift)) = Parts(nx2, pv2, s, pf)
  <2>1. Push(Parts(nx, pv, s, pf), head, p, TypeFor(shift)) =
          Parts(PushNext(nx, head, p), PushPrev(nx, pv, head, p, TypeFor(shift)), s, pf)
    BY PushParts
  <2> QED
    BY <1>1, <2>1 DEF nx2, pv2
<1>16. Parts(nx2, pv2, s, pf).slab = s
  BY DEF Parts
<1> QED
  BY <1>14, <1>15, <1>16 DEF s

\* A bitmap of a cut page that keeps its own bits and a busy chunk.
Recutting(s, bs, p, B, bs2) ==
    /\ Chunked(s, bs) /\ p \in Pages /\ s[p].tag = "cut"
    /\ Reserved(s[p].n) \subseteq B /\ B \subseteq Chunks(s[p].n)
    /\ B \ Reserved(s[p].n) # {} /\ bs2 = [bs EXCEPT ![p] = B]

LEMMA ChunkedRecut ==
    ASSUME NEW s, NEW bs, NEW p, NEW B, NEW bs2, Recutting(s, bs, p, B, bs2)
    PROVE  Chunked(s, bs2)
<1>0. /\ Chunked(s, bs) /\ p \in Pages /\ s[p].tag = "cut"
      /\ Reserved(s[p].n) \subseteq B /\ B \subseteq Chunks(s[p].n)
      /\ B \ Reserved(s[p].n) # {} /\ bs2 = [bs EXCEPT ![p] = B]
  BY DEF Recutting
<1>1. bs \in [Pages -> SUBSET Nat] /\ s[p].n \in MinShift .. PageShift - 1
  BY <1>0 DEF Chunked
<1>2. B \subseteq Nat
  <2>1. Chunks(s[p].n) \subseteq Nat
    BY DEF Chunks
  <2> QED
    BY <1>0, <2>1
<1>3. bs2 \in [Pages -> SUBSET Nat] /\ bs2[p] = B /\ \A q \in Pages \ {p} : bs2[q] = bs[q]
  BY <1>0, <1>1, <1>2
<1>4. ASSUME NEW q \in Pages
      PROVE  IF s[q].tag = "cut"
             THEN /\ s[q].n \in MinShift .. PageShift - 1
                  /\ Reserved(s[q].n) \subseteq bs2[q] /\ bs2[q] \subseteq Chunks(s[q].n)
                  /\ bs2[q] \ Reserved(s[q].n) # {}
             ELSE bs2[q] = {}
  <2>1. CASE q = p
    BY <1>0, <1>1, <1>3, <2>1
  <2>2. CASE q # p
    BY <1>0, <1>3, <2>2 DEF Chunked
  <2> QED
    BY <2>1, <2>2
<1> QED
  BY <1>3, <1>4 DEF Chunked

\* A chunk of a page with room is handed out.
ChunkAsked(shift, p, c, size, x, us2, bs2, h2) ==
    /\ shift \in Shifts /\ p = next[SlotHead(shift - MinShift)]
    /\ HasRoom(p, shift) /\ c = FirstFree(p, shift)
    /\ size \in Nat /\ size <= TwoTo[shift]
    /\ x = Block(ChunkAt(p, c, shift), TwoTo[shift], size)
    /\ us2 = [used EXCEPT ![shift - MinShift] = @ + 1]
    /\ bs2 = [bits EXCEPT ![p] = @ \cup {c}]
    /\ h2 = IF bits[p] \cup {c} = Chunks(shift) THEN Leave(Heap, p, shift) ELSE Heap

LEMMA ChunkHanded ==
    ASSUME Layout, NEW shift, NEW p, NEW c, NEW size, NEW x, NEW us2, NEW bs2, NEW h2,
           ChunkAsked(shift, p, c, size, x, us2, bs2, h2)
    PROVE  LayoutOf(h2, bs2, live \cup {x}, us2, total) /\ \A y \in live : y.at # x.at
<1> DEFINE head == SlotHead(shift - MinShift)
           i == shift - MinShift
           B == bits[p] \cup {c}
<1>0. /\ shift \in Shifts /\ p = next[head]
      /\ HasRoom(p, shift) /\ c = FirstFree(p, shift)
      /\ size \in Nat /\ size <= TwoTo[shift]
      /\ x = Block(ChunkAt(p, c, shift), TwoTo[shift], size)
      /\ us2 = [used EXCEPT ![i] = @ + 1]
      /\ bs2 = [bits EXCEPT ![p] = B]
      /\ h2 = IF B = Chunks(shift) THEN Leave(Heap, p, shift) ELSE Heap
  BY DEF ChunkAsked
<1>1. LayoutOf(Heap, bits, live, used, total) /\ Heap.slab = slab /\ Heap.next = next
  BY LayoutIs
<1>2. PICK rk : Fit(Heap, bits, rk, Null)
  BY <1>1, LayoutTypes
<1>3. /\ slab \in [Pages -> Words] /\ Tiled(slab) /\ Chunked(slab, bits) /\ Apart(slab)
      /\ used \in [Slots -> Int] /\ total \in [Slots -> Int] /\ bits \in [Pages -> SUBSET Nat]
  BY <1>1, LayoutTypes
<1>4. i \in Slots /\ i + MinShift = shift /\ head \in Heads /\ head \notin Pages
  BY <1>0, RefsApart
<1>5. /\ p \in Pages /\ slab[p].tag = "cut" /\ slab[p].n = shift
      /\ bits[p] # Chunks(shift) /\ bits[p] \subseteq Chunks(shift)
  <2>1. p # head
    BY <1>0, <1>4 DEF HasRoom
  <2> QED
    BY <1>0, <2>1, HeadPage
<1>6. c \in Chunks(shift) /\ c \notin bits[p]
  <2> DEFINE F == Chunks(shift) \ bits[p]
  <2>1. F \subseteq Nat /\ F # {}
    BY <1>0 DEF HasRoom, Chunks
  <2>2. c = MinOf(F)
    BY <1>0 DEF FirstFree
  <2> HIDE DEF F
  <2>3. \E y \in F : \A z \in F : y <= z
    BY <2>1, LeastOf
  <2>4. c \in F
    BY <2>2, <2>3 DEF MinOf
  <2> QED
    BY <2>4 DEF F
<1>7. /\ B \subseteq Nat /\ B \subseteq Chunks(shift) /\ bs2 = [bits EXCEPT ![p] = B]
      /\ Reserved(shift) \subseteq B /\ B \ Reserved(shift) # {} /\ c \notin Reserved(shift)
  <2>1. Chunks(shift) \subseteq Nat
    BY <1>0 DEF Chunks
  <2>2. Reserved(shift) \subseteq bits[p] /\ bits[p] \ Reserved(shift) # {}
    BY <1>3, <1>5 DEF Chunked
  <2> QED
    BY <1>0, <1>5, <1>6, <2>1, <2>2
<1>8. Chunked(slab, bs2)
  <2> HIDE DEF B
  <2>1. Reserved(slab[p].n) \subseteq B /\ B \subseteq Chunks(slab[p].n)
        /\ B \ Reserved(slab[p].n) # {}
    BY <1>5, <1>7
  <2>2. Recutting(slab, bits, p, B, bs2)
    BY <1>3, <1>5, <1>7, <2>1 DEF Recutting
  <2> QED
    BY <2>2, ChunkedRecut
<1>9. bs2[p] = B /\ \A q \in Pages \ {p} : bs2[q] = bits[q]
  BY <1>3, <1>5, <1>7
<1> HIDE DEF B
<1>10. Fit(h2, bs2, rk, Null) /\ h2.slab = slab
  <2>1. CASE B = Chunks(shift)
    <3>1. Recut(Heap, bits, rk, p, shift, B, bs2, head)
      BY <1>0, <1>1, <1>2, <1>3, <1>5, <1>7 DEF Recut
    <3>2. Fit(Leave(Heap, p, shift), bs2, rk, Null) /\ Leave(Heap, p, shift).slab = Heap.slab
      BY <1>5, <2>1, <3>1, LeaveFit
    <3>3. h2 = Leave(Heap, p, shift)
      BY <1>0, <2>1 DEF B
    <3> QED
      BY <1>1, <3>2, <3>3
  <2>2. CASE B # Chunks(shift)
    <3>1. \A q \in Pages : ListOf(slab[q], bs2[q]) = ListOf(slab[q], bits[q])
      <4>1. ListOf(slab[p], bs2[p]) = ListOf(slab[p], bits[p])
        BY <1>5, <1>9, <2>2, CutList
      <4> QED
        BY <1>9, <4>1
    <3>2. Fit(Heap, bs2, rk, Null)
      BY <1>1, <1>2, <3>1, SameListFit
    <3>3. h2 = Heap
      BY <1>0, <2>2 DEF B
    <3> QED
      BY <1>1, <3>2, <3>3
  <2> QED
    BY <2>1, <2>2
<1>11. Shaped(h2, bs2)
  BY <1>3, <1>8, <1>10 DEF Shaped
<1>12. x.at = ChunkAt(p, c, shift) /\ x.len = TwoTo[shift] /\ x.want = size
  BY <1>0 DEF Block
<1>13. TakenAt(slab, bits, slab, bs2, p, x.at)
  <2>1. bs2[p] = bits[p] \cup {c}
    BY <1>9 DEF B
  <2>2. PageTaken(slab, bits, slab, bs2, p, x.at)
    BY <1>5, <1>6, <1>12, <2>1 DEF PageTaken
  <2> QED
    BY <1>3, <1>5, <1>8, <1>9, <2>2 DEF TakenAt
<1>14. Holds(slab, bs2, p, x)
  <2>1. c \in bs2[p] \ Reserved(slab[p].n)
    BY <1>5, <1>7, <1>9 DEF B
  <2> QED
    BY <1>5, <1>12, <2>1 DEF Holds
<1>15. x \in [at : Nat, len : Nat, want : Nat] /\ x.want <= x.len
  <2>1. ChunkAt(p, c, shift) \in Nat
    BY <1>0, <1>5, <1>6, ChunkPlace
  <2>2. TwoTo[shift] \in Nat
    <3>1. shift \in 0 .. PageShift
      BY <1>0, SlabAssumption DEF Shifts
    <3> QED
      BY <1>0, <3>1, PageOfChunks
  <2>3. x \in [at : Nat, len : Nat, want : Nat]
    BY <1>0, <2>1, <2>2 DEF Block
  <2> QED
    BY <1>0, <1>12, <2>3
<1>16. us2 \in [Slots -> Int] /\ \A j \in Slots : us2[j] = used[j] + (IF j = i THEN 1 ELSE 0)
  BY <1>0, <1>3, <1>4
<1>17. \A j \in Slots : total[j] = total[j] + (IF j = i /\ slab[p].tag # "cut"
                                               THEN Capacity(j + MinShift) ELSE 0)
  BY <1>0, <1>3, <1>5
<1>18. CountsUp(slab, slab, used, total, us2, total, p)
  <2>1. i \in Slots /\ slab[p].n = i + MinShift
    BY <1>0, <1>4, <1>5
  <2> HIDE DEF i
  <2> QED
    BY ONLY <1>3, <1>5, <1>16, <1>17, <2>1, CountsAt
<1>19. LayoutOf(h2, bs2, live \cup {x}, us2, total) /\ \A y \in live : y.at # x.at
  <2>1. /\ TakenAt(Heap.slab, bits, h2.slab, bs2, p, x.at)
        /\ Holds(h2.slab, bs2, p, x)
        /\ CountsUp(Heap.slab, h2.slab, used, total, us2, total, p)
    BY <1>0, <1>1, <1>10, <1>13, <1>14, <1>18
  <2> QED
    BY ONLY <1>1, <1>11, <1>15, <2>1, Handed
<1> QED
  BY <1>0, <1>19

-------------------------------------------------------------------------------
(* dl_slab_free of a chunk.                                                  *)

\* A chunk c of page p that is marked busy, without which the bitmap is left;
\* and one that is not under the bitmap itself.
MarkedAt(p, c, shift, a, left) ==
    /\ p \in Pages /\ slab[p].tag = "cut" /\ shift = slab[p].n
    /\ c \in bits[p] /\ a = ChunkAt(p, c, shift)
    /\ left = bits[p] \ {c}

BusyAt(p, c, shift, a, left) == MarkedAt(p, c, shift, a, left) /\ c \notin Reserved(shift)

LEMMA MarkedFacts ==
    ASSUME Layout, NEW p, NEW c, NEW shift, NEW a, NEW left, MarkedAt(p, c, shift, a, left)
    PROVE  /\ p \in Pages /\ slab[p].tag = "cut" /\ slab[p].n = shift /\ shift \in Shifts
           /\ c \in Chunks(shift) /\ c \notin left /\ bits[p] = left \cup {c}
           /\ a = ChunkAt(p, c, shift)
           /\ left \subseteq Nat /\ left \subseteq Chunks(shift) /\ left # Chunks(shift)
           /\ shift - MinShift \in Slots /\ (shift - MinShift) + MinShift = shift
<1>1. Chunked(slab, bits)
  BY LayoutIs, LayoutTypes
<1>2. /\ p \in Pages /\ slab[p].tag = "cut" /\ shift = slab[p].n
      /\ c \in bits[p] /\ a = ChunkAt(p, c, shift) /\ left = bits[p] \ {c}
  BY DEF MarkedAt
<1>3. shift \in Shifts /\ bits[p] \subseteq Chunks(shift)
  BY <1>1, <1>2 DEF Chunked, Shifts
<1>4. Chunks(shift) \subseteq Nat
  BY DEF Chunks
<1>5. shift - MinShift \in Slots /\ (shift - MinShift) + MinShift = shift
  BY <1>3, RefsApart
<1> QED
  BY <1>2, <1>3, <1>4, <1>5

LEMMA BusyFacts ==
    ASSUME Layout, NEW p, NEW c, NEW shift, NEW a, NEW left, BusyAt(p, c, shift, a, left)
    PROVE  /\ p \in Pages /\ slab[p].tag = "cut" /\ slab[p].n = shift /\ shift \in Shifts
           /\ c \in Chunks(shift) /\ c \notin left /\ bits[p] = left \cup {c}
           /\ a = ChunkAt(p, c, shift)
           /\ left \subseteq Nat /\ left \subseteq Chunks(shift) /\ left # Chunks(shift)
           /\ Reserved(shift) \subseteq left /\ c \notin Reserved(shift)
           /\ shift - MinShift \in Slots /\ (shift - MinShift) + MinShift = shift
<1>1. Chunked(slab, bits)
  BY LayoutIs, LayoutTypes
<1>2. MarkedAt(p, c, shift, a, left) /\ c \notin Reserved(shift)
  BY DEF BusyAt
<1>3. /\ p \in Pages /\ slab[p].tag = "cut" /\ slab[p].n = shift /\ shift \in Shifts
      /\ c \in Chunks(shift) /\ c \notin left /\ bits[p] = left \cup {c}
      /\ a = ChunkAt(p, c, shift)
      /\ left \subseteq Nat /\ left \subseteq Chunks(shift) /\ left # Chunks(shift)
      /\ shift - MinShift \in Slots /\ (shift - MinShift) + MinShift = shift
  BY <1>2, MarkedFacts
<1>4. Reserved(shift) \subseteq bits[p]
  BY <1>1, <1>3 DEF Chunked
<1> QED
  BY <1>2, <1>3, <1>4

\* The page is in its slot's list again.
ListedOf(p, shift) ==
    IF bits[p] = Chunks(shift)
    THEN Push(Heap, SlotHead(shift - MinShift), p, TypeFor(shift)) ELSE Heap

LEMMA ListedFit ==
    ASSUME Layout, NEW p, NEW c, NEW shift, NEW a, NEW left, MarkedAt(p, c, shift, a, left),
           NEW bs2, bs2 = [bits EXCEPT ![p] = left]
    PROVE  (\E rk2 : Fit(ListedOf(p, shift), bs2, rk2, Null)) /\ ListedOf(p, shift).slab = slab
<1> DEFINE head == SlotHead(shift - MinShift)
<1>1. LayoutOf(Heap, bits, live, used, total) /\ Heap.slab = slab
  BY LayoutIs
<1>2. PICK rk : Fit(Heap, bits, rk, Null)
  BY <1>1, LayoutTypes
<1>3. bits \in [Pages -> SUBSET Nat]
  BY <1>1, LayoutTypes
<1>4. /\ p \in Pages /\ slab[p].tag = "cut" /\ slab[p].n = shift /\ shift \in Shifts
      /\ left \subseteq Nat /\ left # Chunks(shift)
  BY MarkedFacts
<1>5. CASE bits[p] = Chunks(shift)
  <2>1. Recut(Heap, bits, rk, p, shift, left, bs2, head)
    BY <1>1, <1>2, <1>3, <1>4 DEF Recut
  <2> HIDE DEF head
  <2>2. /\ \E rk2 : Fit(Push(Heap, head, p, TypeFor(shift)), bs2, rk2, Null)
        /\ Push(Heap, head, p, TypeFor(shift)).slab = Heap.slab
    BY <1>4, <1>5, <2>1, RelistFit
  <2>3. ListedOf(p, shift) = Push(Heap, head, p, TypeFor(shift))
    BY <1>5 DEF ListedOf, head
  <2> QED
    BY <1>1, <2>2, <2>3
<1>6. CASE bits[p] # Chunks(shift)
  <2>1. bs2[p] = left /\ \A q \in Pages \ {p} : bs2[q] = bits[q]
    BY <1>3, <1>4
  <2>2. \A q \in Pages : ListOf(slab[q], bs2[q]) = ListOf(slab[q], bits[q])
    <3>1. ListOf(slab[p], bs2[p]) = ListOf(slab[p], bits[p])
      BY <1>4, <1>6, <2>1, CutList
    <3> QED
      BY <2>1, <3>1
  <2>3. Fit(Heap, bs2, rk, Null)
    BY ZenonT(30), <1>1, <1>2, <2>2, SameListFit
  <2>4. ListedOf(p, shift) = Heap
    BY <1>6 DEF ListedOf
  <2> QED
    BY <1>1, <2>3, <2>4
<1> QED
  BY <1>5, <1>6

\* A chunk is given back while others of its page are busy.
LEMMA ChunkReturned ==
    ASSUME Layout, NEW p, NEW c, NEW shift, NEW a, NEW left, BusyAt(p, c, shift, a, left),
           ~(left \subseteq Reserved(shift)),
           NEW bs2, bs2 = [bits EXCEPT ![p] = left],
           NEW us2, us2 = [used EXCEPT ![shift - MinShift] = @ - 1]
    PROVE  /\ LayoutOf(ListedOf(p, shift), bs2, Without(live, a), us2, total)
           /\ \E x \in live : x.at = a
<1> DEFINE h2 == ListedOf(p, shift)
           i == shift - MinShift
<1>1. LayoutOf(Heap, bits, live, used, total) /\ Heap.slab = slab
  BY LayoutIs
<1>2. /\ Chunked(slab, bits) /\ Apart(slab) /\ bits \in [Pages -> SUBSET Nat]
      /\ used \in [Slots -> Int] /\ total \in [Slots -> Int]
  BY <1>1, LayoutTypes
<1>3. /\ p \in Pages /\ slab[p].tag = "cut" /\ slab[p].n = shift /\ shift \in Shifts
      /\ c \in Chunks(shift) /\ c \notin left /\ bits[p] = left \cup {c}
      /\ a = ChunkAt(p, c, shift)
      /\ left \subseteq Nat /\ left \subseteq Chunks(shift) /\ left # Chunks(shift)
      /\ Reserved(shift) \subseteq left /\ c \notin Reserved(shift)
      /\ i \in Slots /\ i + MinShift = shift
  BY BusyFacts
<1>4. (\E rk2 : Fit(h2, bs2, rk2, Null)) /\ h2.slab = slab
  BY ListedFit DEF BusyAt
<1>5. Chunked(slab, bs2)
  <2>1. left \ Reserved(slab[p].n) # {} /\ Reserved(slab[p].n) \subseteq left
        /\ left \subseteq Chunks(slab[p].n)
    BY <1>3
  <2>2. Recutting(slab, bits, p, left, bs2)
    BY <1>2, <1>3, <2>1 DEF Recutting
  <2> QED
    BY <2>2, ChunkedRecut
<1> HIDE DEF h2
<1>6. Shaped(h2, bs2)
  BY <1>2, <1>4, <1>5 DEF Shaped
<1>7. bs2[p] = left /\ \A q \in Pages \ {p} : bs2[q] = bits[q]
  BY <1>2, <1>3
<1>8. TakenAt(slab, bs2, slab, bits, p, a)
  <2>1. PageTaken(slab, bs2, slab, bits, p, a)
    BY <1>3, <1>7 DEF PageTaken
  <2> QED
    BY <1>2, <1>3, <1>5, <1>7, <2>1 DEF TakenAt
<1>9. us2 \in [Slots -> Int] /\ \A j \in Slots : used[j] = us2[j] + (IF j = i THEN 1 ELSE 0)
  BY <1>2, <1>3
<1>10. \A j \in Slots : total[j] = total[j] + (IF j = i /\ slab[p].tag # "cut"
                                               THEN Capacity(j + MinShift) ELSE 0)
  BY <1>2, <1>3
<1>11. CountsUp(slab, slab, us2, total, used, total, p)
  <2>1. i \in Slots /\ slab[p].n = i + MinShift
    BY <1>3
  <2> HIDE DEF i
  <2> QED
    BY ONLY <1>2, <1>3, <1>9, <1>10, <2>1, CountsAt
<1>12. LayoutOf(h2, bs2, Without(live, a), us2, total) /\ \E x \in live : x.at = a
  <2>1. /\ TakenAt(h2.slab, bs2, Heap.slab, bits, p, a)
        /\ CountsUp(h2.slab, Heap.slab, us2, total, used, total, p)
    BY <1>1, <1>4, <1>8, <1>11
  <2>2. us2 \in [Slots -> Int] /\ total \in [Slots -> Int]
    BY <1>2, <1>9
  <2>3. LayoutOf(Heap, bits, live, used, total)
    BY <1>1
  <2>4. Returning(Heap, bits, live, used, total, h2, bs2, us2, total, p, a)
    BY <1>6, <2>1, <2>2, <2>3 DEF Returning
  <2> QED
    BY <2>4, Returned
<1> QED
  BY <1>12 DEF h2

\* The last chunk of a page is given back, and the page with it.
LEMMA PageReturned ==
    ASSUME Layout, NEW p, NEW c, NEW shift, NEW a, NEW left, BusyAt(p, c, shift, a, left),
           left \subseteq Reserved(shift),
           NEW bs2, bs2 = [bits EXCEPT ![p] = {}],
           NEW us2, us2 = [used EXCEPT ![shift - MinShift] = @ - 1],
           NEW tt2, tt2 = [total EXCEPT ![shift - MinShift] = @ - Capacity(shift)]
    PROVE  /\ LayoutOf(FreePages(ListedOf(p, shift), p, 1), bs2, Without(live, a),
                       us2, tt2)
           /\ \E x \in live : x.at = a
<1> DEFINE g == ListedOf(p, shift)
           h2 == FreePages(g, p, 1)
           s2 == h2.slab
           bsL == [bits EXCEPT ![p] = left]
           i == shift - MinShift
<1>1. LayoutOf(Heap, bits, live, used, total) /\ Heap.slab = slab
  BY LayoutIs
<1>2. /\ Chunked(slab, bits) /\ Apart(slab) /\ bits \in [Pages -> SUBSET Nat]
      /\ used \in [Slots -> Int] /\ total \in [Slots -> Int]
      /\ slab \in [Pages -> Words] /\ Tiled(slab)
  BY <1>1, LayoutTypes
<1>3. /\ p \in Pages /\ slab[p].tag = "cut" /\ slab[p].n = shift /\ shift \in Shifts
      /\ c \in Chunks(shift) /\ c \notin left /\ bits[p] = left \cup {c}
      /\ a = ChunkAt(p, c, shift)
      /\ left \subseteq Nat
      /\ Reserved(shift) \subseteq left /\ c \notin Reserved(shift)
      /\ i \in Slots /\ i + MinShift = shift
  BY BusyFacts
<1>4. bsL \in [Pages -> SUBSET Nat] /\ [bsL EXCEPT ![p] = {}] = bs2
  BY <1>2, <1>3
<1> HIDE DEF bsL
<1>5. PICK rk : Fit(g, bsL, rk, Null) /\ g.slab = slab
  <2>1. bsL = [bits EXCEPT ![p] = left]
    BY DEF bsL
  <2> QED
    BY <2>1, ListedFit DEF BusyAt
<1> HIDE DEF g
<1>6. Used(g.slab, p, 1) /\ Apart(g.slab)
  BY <1>2, <1>3, <1>5 DEF Used
<1>7. /\ \E rk2 : Fit(h2, [bsL EXCEPT ![p] = {}], rk2, Null)
      /\ Apart(s2) /\ WordsFreed(g.slab, s2, p, 1)
  BY <1>3, <1>4, <1>5, <1>6, FreePagesFit
<1> HIDE DEF s2
<1>8. /\ s2[p].tag = "run"
      /\ \A q \in Pages \ {p} :
            slab[q] = s2[q] \/ (slab[q].tag \notin {"cut", "start"} /\ s2[q].tag \notin {"cut", "start"})
  BY <1>2, <1>3, <1>5, <1>6, <1>7, FreedWords
<1>9. bs2[p] = {} /\ bs2 \in [Pages -> SUBSET Nat] /\ \A q \in Pages \ {p} : bs2[q] = bits[q]
  BY <1>2, <1>3
<1>10. Chunked(s2, bs2)
  <2>1. ASSUME NEW q \in Pages
        PROVE  IF s2[q].tag = "cut"
               THEN /\ s2[q].n \in MinShift .. PageShift - 1
                    /\ Reserved(s2[q].n) \subseteq bs2[q] /\ bs2[q] \subseteq Chunks(s2[q].n)
                    /\ bs2[q] \ Reserved(s2[q].n) # {}
               ELSE bs2[q] = {}
    <3>1. CASE q = p
      BY <1>8, <1>9, <3>1
    <3>2. CASE q # p /\ slab[q] = s2[q]
      BY <1>2, <1>9, <3>2 DEF Chunked
    <3>3. CASE q # p /\ slab[q].tag # "cut" /\ s2[q].tag # "cut"
      BY <1>2, <1>9, <3>3 DEF Chunked
    <3> QED
      BY <1>8, <3>1, <3>2, <3>3
  <2> QED
    BY <1>9, <2>1 DEF Chunked
<1>11. Shaped(h2, bs2)
  BY <1>4, <1>7, <1>10 DEF Shaped, s2
<1>12. TakenAt(s2, bs2, slab, bits, p, a)
  <2>1. bits[p] \ Reserved(slab[p].n) = {c}
    BY <1>3
  <2>2. PageTaken(s2, bs2, slab, bits, p, a)
    BY <1>3, <1>8, <2>1 DEF PageTaken
  <2> QED
    BY <1>2, <1>3, <1>8, <1>9, <1>10, <2>2 DEF TakenAt
<1>13. Capacity(shift) \in Int
  BY <1>3, CapacityType
<1>14. us2 \in [Slots -> Int] /\ \A j \in Slots : used[j] = us2[j] + (IF j = i THEN 1 ELSE 0)
  BY <1>2, <1>3
<1>15. /\ tt2 \in [Slots -> Int]
       /\ \A j \in Slots : total[j] = tt2[j] + (IF j = i /\ s2[p].tag # "cut"
                                                THEN Capacity(j + MinShift) ELSE 0)
  BY <1>2, <1>3, <1>8, <1>13
<1>16. CountsUp(s2, slab, us2, tt2, used, total, p)
  <2>1. i \in Slots /\ slab[p].n = i + MinShift /\ s2[p].tag # "cut"
    BY <1>3, <1>8
  <2> HIDE DEF i
  <2> QED
    BY ONLY <1>2, <1>3, <1>14, <1>15, <2>1, CountsAt
<1> HIDE DEF h2
<1>17. LayoutOf(h2, bs2, Without(live, a), us2, tt2) /\ \E x \in live : x.at = a
  <2>1. /\ TakenAt(h2.slab, bs2, Heap.slab, bits, p, a)
        /\ CountsUp(h2.slab, Heap.slab, us2, tt2, used, total, p)
    BY <1>1, <1>12, <1>16 DEF s2
  <2>2. us2 \in [Slots -> Int] /\ tt2 \in [Slots -> Int]
    BY <1>14, <1>15
  <2>3. LayoutOf(Heap, bits, live, used, total)
    BY <1>1
  <2>4. Returning(Heap, bits, live, used, total, h2, bs2, us2, tt2, p, a)
    BY <1>11, <2>1, <2>2, <2>3 DEF Returning
  <2> QED
    BY <2>4, Returned
<1> QED
  BY <1>17 DEF h2, g

-------------------------------------------------------------------------------
(* The layout is an invariant.                                               *)

\* What a step leaves behind.
NextLayout(h, bs, lv, us, tt) ==
    SetMeta(h) /\ bits' = bs /\ live' = lv /\ used' = us /\ total' = tt

LEMMA LayoutNext ==
    ASSUME NEW h, NEW bs, NEW lv, NEW us, NEW tt,
           LayoutOf(h, bs, lv, us, tt), NextLayout(h, bs, lv, us, tt)
    PROVE  Layout'
<1>1. PICK rk : Fit(h, bs, rk, Null)
  BY LayoutTypes
<1>2. h \in Heaps /\ rk \in [Pages \cup Heads -> Nat]
  BY <1>1 DEF Fit
<1>3. h = [next |-> h.next, prev |-> h.prev, slab |-> h.slab, pfree |-> h.pfree]
  BY <1>2 DEF Heaps
<1>4. next' = h.next /\ prev' = h.prev /\ slab' = h.slab /\ pfree' = h.pfree
  BY DEF NextLayout, SetMeta
<1>5. Heap' = [next |-> next', prev |-> prev', slab |-> slab', pfree |-> pfree']
  BY DEF Heap
<1>6. Heap' = h
  BY <1>3, <1>4, <1>5
<1>7. /\ Apart(h.slab) /\ Chunked(h.slab, bs) /\ LiveExact(h.slab, bs, lv)
      /\ Counted(h.slab, lv, us, tt)
  BY DEF LayoutOf, Shaped
<1>8. bits' = bs /\ live' = lv /\ used' = us /\ total' = tt
  BY DEF NextLayout
<1>9. /\ \E r \in [Pages \cup Heads -> Nat] : Fit(Heap', bits', r, Null)
      /\ Apart(slab') /\ Chunked(slab', bits') /\ LiveExact(slab', bits', live')
      /\ Counted(slab', live', used', total')
  BY <1>1, <1>2, <1>4, <1>6, <1>7, <1>8
<1> QED
  BY <1>9 DEF Layout

\* A block x is handed out, or the block at a is given back.
Gains(x) == live' = live \cup {x} /\ x.want <= x.len /\ \A y \in live : y.at # x.at
Loses(a) == (\E x \in live : x.at = a) /\ live' = Without(live, a)

LEMMA AllocPagesLayout ==
    ASSUME Layout, NEW size \in Sizes, AllocPages(size)
    PROVE  Layout' /\ \E x : Gains(x)
<1> DEFINE n == PagesFor(size)
           p == FirstFit(n)
           x == Block(p * PageSize, n * PageSize, size)
           h2 == TakeRun(Heap, p, n)
<1>1. size \in Nat \ {0} /\ size \in Nat
  BY SlabAssumption
<1>2. n \in Nat \ {0} /\ size <= n * PageSize
  BY <1>1, PagesForEnough
<1>3. /\ p # Null /\ SetMeta(h2) /\ live' = live \cup {x}
      /\ bits' = bits /\ used' = used /\ total' = total
  BY DEF AllocPages, Grant
<1> HIDE DEF n, h2, p, x
<1>4. p = FirstFit(n) /\ x = Block(p * PageSize, n * PageSize, size) /\ h2 = TakeRun(Heap, p, n)
  BY DEF p, x, h2
<1>5. /\ LayoutOf(h2, bits, live \cup {x}, used, total)
      /\ \A y \in live : y.at # x.at
  BY <1>1, <1>2, <1>3, <1>4, PagesHanded
<1>6. NextLayout(h2, bits, live \cup {x}, used, total)
  BY <1>3 DEF NextLayout
<1>7. Layout'
  BY <1>5, <1>6, LayoutNext
<1>8. x.want <= x.len
  BY <1>2, <1>4 DEF Block
<1> QED
  BY <1>3, <1>5, <1>7, <1>8 DEF Gains

LEMMA AllocChunkLayout ==
    ASSUME Layout, NEW size \in Sizes, AllocChunk(size)
    PROVE  Layout' /\ \E x : Gains(x)
<1> DEFINE shift == ShiftFor(size)
           i == shift - MinShift
           p == next[SlotHead(i)]
           c == FirstFree(p, shift)
           x == Block(ChunkAt(p, c, shift), TwoTo[shift], size)
           h2 == IF bits[p] \cup {c} = Chunks(shift) THEN Leave(Heap, p, shift) ELSE Heap
           us2 == [used EXCEPT ![i] = @ + 1]
           bs2 == [bits EXCEPT ![p] = @ \cup {c}]
<1>1. size \in Nat /\ size <= dl_slab_max_size
  BY SlabAssumption DEF AllocChunk
<1>2. shift \in Shifts /\ size <= TwoTo[shift]
  BY <1>1, ShiftForEnough
<1>3. /\ HasRoom(p, shift) /\ SetMeta(h2) /\ live' = live \cup {x}
      /\ bits' = bs2 /\ used' = us2 /\ total' = total
  BY DEF AllocChunk, Grant, ChunkAt
<1> HIDE DEF shift, h2, x, us2, bs2, c, p
<1>4. LayoutOf(h2, bs2, live \cup {x}, us2, total) /\ \A y \in live : y.at # x.at
  <2>1. /\ p = next[SlotHead(shift - MinShift)] /\ c = FirstFree(p, shift)
        /\ x = Block(ChunkAt(p, c, shift), TwoTo[shift], size)
        /\ us2 = [used EXCEPT ![shift - MinShift] = @ + 1]
        /\ bs2 = [bits EXCEPT ![p] = @ \cup {c}]
        /\ h2 = IF bits[p] \cup {c} = Chunks(shift) THEN Leave(Heap, p, shift) ELSE Heap
    BY DEF p, c, x, us2, bs2, h2
  <2>2. ChunkAsked(shift, p, c, size, x, us2, bs2, h2)
    BY <1>1, <1>2, <1>3, <2>1 DEF ChunkAsked
  <2> QED
    BY <2>2, ChunkHanded
<1> HIDE DEF i
<1>5. NextLayout(h2, bs2, live \cup {x}, us2, total)
  BY <1>3 DEF NextLayout
<1>6. Layout'
  BY <1>4, <1>5, LayoutNext
<1>7. x.want <= x.len
  BY <1>2 DEF Block, x
<1> QED
  BY <1>3, <1>4, <1>6, <1>7 DEF Gains

LEMMA AllocFreshLayout ==
    ASSUME Layout, NEW size \in Sizes, AllocFresh(size)
    PROVE  Layout' /\ \E x : Gains(x)
<1> DEFINE shift == ShiftFor(size)
           i == shift - MinShift
           p == FirstFit(1)
           x == Block(ChunkAt(p, BitmapChunks(shift), shift), TwoTo[shift], size)
           h2 == FreshPage(Heap, p, shift)
           us2 == [used EXCEPT ![i] = @ + 1]
           tt2 == [total EXCEPT ![i] = @ + Capacity(shift)]
           bs2 == [bits EXCEPT ![p] = FreshBits(shift)]
<1>1. size \in Nat /\ size <= dl_slab_max_size
  BY SlabAssumption DEF AllocFresh
<1>2. shift \in Shifts /\ size <= TwoTo[shift]
  BY <1>1, ShiftForEnough
<1>3. /\ ~HasRoom(next[SlotHead(i)], shift) /\ p # Null
      /\ SetMeta(h2) /\ live' = live \cup {x}
      /\ bits' = bs2 /\ used' = us2 /\ total' = tt2
  BY DEF AllocFresh, Grant, ChunkAt, FreshPage, Attached
<1> HIDE DEF shift
<1>4. LayoutOf(h2, bs2, live \cup {x}, us2, tt2) /\ \A y \in live : y.at # x.at
  BY <1>1, <1>2, <1>3, FreshHanded
<1> HIDE DEF h2, x, us2, bs2, tt2, p, i
<1>5. NextLayout(h2, bs2, live \cup {x}, us2, tt2)
  BY <1>3 DEF NextLayout
<1>6. Layout'
  BY <1>4, <1>5, LayoutNext
<1>7. x.want <= x.len
  BY <1>2 DEF Block, x
<1> QED
  BY <1>3, <1>4, <1>6, <1>7 DEF Gains

\* What the words of a page say about it.
LEMMA PageWords ==
    ASSUME Layout, NEW p \in Pages
    PROVE  /\ slab[p] \in Words /\ prev[p].type = KindOf(slab[p])
           /\ next[p] = Null <=> ListOf(slab[p], bits[p]) = Null
           /\ slab[p].tag = "cut" => slab[p].n \in Shifts
<1>1. /\ LayoutOf(Heap, bits, live, used, total) /\ Heap.slab = slab /\ Heap.next = next
      /\ Heap.prev = prev
  BY LayoutIs
<1>2. PICK rk : Fit(Heap, bits, rk, Null)
  BY <1>1, LayoutTypes
<1>3. slab \in [Pages -> Words] /\ Chunked(slab, bits)
  BY <1>1, LayoutTypes
<1>4. p \in Pages \ {Null}
  BY RefsApart
<1>5. (next[p] = Null <=> ListOf(slab[p], bits[p]) = Null) /\ prev[p].type = KindOf(slab[p])
  BY <1>1, <1>2, <1>4 DEF Fit
<1> QED
  BY <1>3, <1>5 DEF Chunked, Shifts

\* Only pool->end is let pass and lies in no page.
LEMMA AddressInside ==
    ASSUME NEW a \in FreeArgs, PageOf(a) \in Pages
    PROVE  a \in 0 .. NPages * PageSize - 1
<1> DEFINE K == PageSize
           e == K * NPages
<1>1. PageShift \in 0 .. PageShift /\ NPages \in Nat \ {0}
  BY SlabAssumption
<1>2. K \in Nat \ {0}
  BY <1>1, PageOfChunks
<1> HIDE DEF K
<1>3. 0 \in 0 .. K - 1 /\ e + 0 = e /\ e \in Nat /\ NPages * K = e
  BY <1>1, <1>2
<1>4. (K * NPages + 0) \div K = NPages
  BY <1>1, <1>2, <1>3, DivModUnique
<1>5. e \div K = NPages
  BY <1>3, <1>4
<1>6. a # e
  BY <1>1, <1>5 DEF PageOf, Pages, K
<1>7. a \in 0 .. e
  BY <1>3 DEF FreeArgs, K
<1> HIDE DEF e
<1>8. a \in 0 .. e - 1
  BY <1>3, <1>6, <1>7
<1> QED
  BY <1>3, <1>8 DEF K

LEMMA FreeBlockLayout ==
    ASSUME Layout, NEW a \in FreeArgs, FreeBlock(a)
    PROVE  Layout' /\ Loses(a)
<1> DEFINE p == PageOf(a)
           h2 == FreePages(Heap, p, slab[p].n)
<1>1. a \in 0 .. NPages * PageSize - 1
  BY AddressInside DEF FreeBlock
<1>2. /\ OffsetOf(a) = 0 /\ slab[p].tag = "start" /\ SetMeta(h2)
      /\ live' = Without(live, a)
      /\ bits' = bits /\ used' = used /\ total' = total
  BY DEF FreeBlock, BlockPages, Drop, Without
<1>3. p \in Pages /\ a = p * PageSize
  BY <1>1, <1>2, PlaceOfAddress
<1> HIDE DEF p
<1>4. /\ LayoutOf(h2, bits, Without(live, a), used, total)
      /\ \E x \in live : x.at = a
  BY <1>2, <1>3, BlockReturned
<1> HIDE DEF h2
<1>5. NextLayout(h2, bits, Without(live, a), used, total)
  BY <1>2 DEF NextLayout
<1>6. Layout'
  BY <1>4, <1>5, LayoutNext
<1> QED
  BY <1>2, <1>4, <1>6 DEF Loses

LEMMA FreeChunkLayout ==
    ASSUME Layout, NEW a \in FreeArgs, FreeChunk(a), ~InBitmap(a)
    PROVE  Layout' /\ Loses(a)
<1> DEFINE p == PageOf(a)
           shift == slab[p].n
           i == shift - MinShift
           c == OffsetOf(a) \div TwoTo[shift]
           left == bits[p] \ {c}
           empty == left \subseteq Reserved(shift)
           us2 == [used EXCEPT ![i] = @ - 1]
           unlisted == IF prev[p].type = "EXACT" THEN bits[p] = Chunks(shift)
                       ELSE next[p] = Null
           listed == IF unlisted THEN Push(Heap, SlotHead(i), p, prev[p].type) ELSE Heap
<1>1. a \in 0 .. NPages * PageSize - 1
  BY AddressInside DEF FreeChunk
<1>2. /\ prev[p].type # "PAGE" /\ OffsetOf(a) % TwoTo[shift] = 0 /\ c \in bits[p]
      /\ SetMeta(IF empty THEN FreePages(listed, p, 1) ELSE listed)
      /\ bits' = [bits EXCEPT ![p] = IF empty THEN {} ELSE left]
      /\ total' = IF empty THEN [total EXCEPT ![i] = @ - Capacity(shift)] ELSE total
      /\ used' = us2 /\ live' = Without(live, a)
  BY DEF FreeChunk, ChunkStart, BusyChunk, Drop, Without
<1>3. p \in Pages
  BY <1>1, PlaceOfAddress
<1>4. /\ prev[p].type = KindOf(slab[p])
      /\ next[p] = Null <=> ListOf(slab[p], bits[p]) = Null
      /\ slab[p].tag = "cut" => slab[p].n \in Shifts
  BY <1>3, PageWords
<1>5. slab[p].tag = "cut" /\ shift \in Shifts /\ prev[p].type = TypeFor(shift)
  BY <1>2, <1>4, CutList, KindsApart
<1>6. a = ChunkAt(p, c, shift)
  BY <1>1, <1>2, <1>5, PlaceOfAddress
<1>7. c \notin Reserved(shift)
  BY <1>3, <1>5 DEF InBitmap, CutPages
<1>8. BusyAt(p, c, shift, a, left)
  BY <1>2, <1>3, <1>5, <1>6, <1>7 DEF BusyAt, MarkedAt
<1>9. listed = ListedOf(p, shift)
  <2>1. SlotHead(shift - MinShift) # Null
    BY <1>5, RefsApart
  <2>2. ListOf(slab[p], bits[p]) = Null <=> bits[p] = Chunks(shift)
    BY <1>5, <2>1, CutList
  <2>3. unlisted <=> bits[p] = Chunks(shift)
    BY <1>4, <2>2
  <2> HIDE DEF unlisted
  <2> QED
    BY <1>5, <2>3 DEF ListedOf
<1> HIDE DEF listed, left, c, p, shift, empty
<1>10. CASE empty
  <2> DEFINE h2 == FreePages(ListedOf(p, shift), p, 1)
             bs2 == [bits EXCEPT ![p] = {}]
             tt2 == [total EXCEPT ![i] = @ - Capacity(shift)]
  <2>1. SetMeta(h2) /\ bits' = bs2 /\ total' = tt2
    BY <1>2, <1>9, <1>10
  <2>2. left \subseteq Reserved(shift)
    BY <1>10 DEF empty
  <2>3. /\ LayoutOf(h2, bs2, Without(live, a), us2, tt2)
        /\ \E x \in live : x.at = a
    BY <1>8, <2>2, PageReturned
  <2> HIDE DEF h2, bs2, tt2, us2
  <2>4. NextLayout(h2, bs2, Without(live, a), us2, tt2)
    BY <1>2, <2>1 DEF NextLayout
  <2>5. Layout'
    BY <2>3, <2>4, LayoutNext
  <2> QED
    BY <1>2, <2>3, <2>5 DEF Loses
<1>11. CASE ~empty
  <2> DEFINE h2 == ListedOf(p, shift)
             bs2 == [bits EXCEPT ![p] = left]
  <2>1. SetMeta(h2) /\ bits' = bs2 /\ total' = total
    BY <1>2, <1>9, <1>11
  <2>2. ~(left \subseteq Reserved(shift))
    BY <1>11 DEF empty
  <2>3. /\ LayoutOf(h2, bs2, Without(live, a), us2, total)
        /\ \E x \in live : x.at = a
    BY <1>8, <2>2, ChunkReturned
  <2> HIDE DEF h2, bs2, us2
  <2>4. NextLayout(h2, bs2, Without(live, a), us2, total)
    BY <1>2, <2>1 DEF NextLayout
  <2>5. Layout'
    BY <2>3, <2>4, LayoutNext
  <2> QED
    BY <1>2, <2>3, <2>5 DEF Loses
<1> QED
  BY <1>10, <1>11

\* Bits of the bitmap's own chunks do not matter to the callers' blocks.
LEMMA LiveSame ==
    ASSUME NEW s, NEW bs, NEW lv, LiveExact(s, bs, lv), NEW bs2,
           \A q \in Pages : bs2[q] \ Reserved(s[q].n) = bs[q] \ Reserved(s[q].n)
    PROVE  LiveExact(s, bs2, lv)
<1>1. \A q \in Pages, x \in lv : Holds(s, bs, q, x) => Holds(s, bs2, q, x)
  BY DEF Holds
<1>2. \A x \in lv : x.want <= x.len /\ \E q \in Pages : Holds(s, bs2, q, x)
  BY <1>1 DEF LiveExact
<1>3. \A q \in Pages : s[q].tag = "cut" => \A c \in bs2[q] \ Reserved(s[q].n) :
          \E x \in lv : x.at = ChunkAt(q, c, s[q].n)
  BY DEF LiveExact
<1> QED
  BY <1>2, <1>3 DEF LiveExact

\* How many blocks lie in the pages cut for a slot is a number, and not 0 when
\* there is such a page.
LEMMA BlocksCount ==
    ASSUME NEW s \in [Pages -> Words], NEW bs, NEW lv, Chunked(s, bs), LiveExact(s, bs, lv),
           NEW i \in Slots
    PROVE  /\ Cardinality(BlocksIn(lv, CutFor(s, i))) \in Nat
           /\ CutFor(s, i) # {} => Cardinality(BlocksIn(lv, CutFor(s, i))) # 0
<1> DEFINE B == BlocksIn(lv, CutFor(s, i))
<1>1. IsFiniteSet(lv) /\ B \subseteq lv
  BY DEF LiveExact, BlocksIn
<1>2. IsFiniteSet(B)
  BY <1>1, FS_Subset
<1>3. ASSUME NEW p \in CutFor(s, i) PROVE B # {}
  <2>1. p \in Pages /\ s[p].tag = "cut"
    BY DEF CutFor
  <2>2. PICK c : c \in bs[p] \ Reserved(s[p].n)
    BY <2>1 DEF Chunked
  <2>3. PICK x \in lv : x.at = ChunkAt(p, c, s[p].n)
    BY <2>1, <2>2 DEF LiveExact
  <2>4. s[p].n \in Shifts /\ c \in Chunks(s[p].n)
    BY <2>1, <2>2 DEF Chunked, Shifts
  <2>5. PageOf(x.at) = p
    BY <2>1, <2>3, <2>4, ChunkPlace
  <2> QED
    BY <2>3, <2>5 DEF BlocksIn
<1> HIDE DEF B
<1>4. Cardinality(B) \in Nat /\ (Cardinality(B) = 0 <=> B = {})
  BY <1>2, FS_CardinalityType, FS_EmptySet
<1> QED
  BY <1>3, <1>4 DEF B

LEMMA LayoutCore == Layout => Core
<1> SUFFICES ASSUME Layout PROVE Core
  OBVIOUS
<1>1. slab \in [Pages -> Words] /\ Chunked(slab, bits) /\ LiveExact(slab, bits, live)
  BY LayoutIs, LayoutTypes
<1>2. Loose(slab, bits)
  BY <1>1, ChunkedIsLoose
<1>3. ASSUME NEW i \in Slots
      PROVE  /\ total[i] = Cardinality(CutFor(slab, i)) * Capacity(i + MinShift)
             /\ used[i] \in 0 .. Cardinality(BlocksIn(live, CutFor(slab, i)))
  <2>1. Cardinality(BlocksIn(live, CutFor(slab, i))) \in Nat
    BY <1>1, BlocksCount
  <2>2. /\ total[i] = Cardinality(CutFor(slab, i)) * Capacity(i + MinShift)
        /\ used[i] = Cardinality(BlocksIn(live, CutFor(slab, i)))
    BY DEF Layout, Counted
  <2> QED
    BY <2>1, <2>2
<1> QED
  BY <1>2, <1>3 DEF Layout, Core, Bounded

\* What a free of a chunk under the bitmap of page p leaves behind.
Strayed(p, c, shift, a, left, bs2, us2) ==
    /\ MarkedAt(p, c, shift, a, left) /\ c \in Reserved(shift)
    /\ bs2 = [bits EXCEPT ![p] = left]
    /\ us2 = [used EXCEPT ![shift - MinShift] = @ - 1]

LEMMA StrayLoose ==
    ASSUME Layout, NEW p, NEW c, NEW shift, NEW a, NEW left, NEW bs2, NEW us2,
           Strayed(p, c, shift, a, left, bs2, us2)
    PROVE  /\ Loose(slab, bs2) /\ LiveExact(slab, bs2, live)
           /\ ~(left \subseteq Reserved(shift)) /\ ~(Reserved(shift) \subseteq bs2[p])
<1>1. Chunked(slab, bits) /\ LiveExact(slab, bits, live)
  BY LayoutIs, LayoutTypes
<1>2. /\ p \in Pages /\ slab[p].tag = "cut" /\ slab[p].n = shift
      /\ c \notin left /\ bits[p] = left \cup {c} /\ c \in Reserved(shift)
      /\ bs2 = [bits EXCEPT ![p] = left] /\ left \subseteq Nat /\ left \subseteq Chunks(shift)
  BY MarkedFacts DEF Strayed
<1>3. bits \in [Pages -> SUBSET Nat]
  BY <1>1 DEF Chunked
<1>4. bs2 \in [Pages -> SUBSET Nat] /\ bs2[p] = left /\ \A q \in Pages \ {p} : bs2[q] = bits[q]
  BY <1>2, <1>3
<1>5. \A q \in Pages : bs2[q] \ Reserved(slab[q].n) = bits[q] \ Reserved(slab[q].n)
  <2>1. bs2[p] \ Reserved(slab[p].n) = bits[p] \ Reserved(slab[p].n)
    BY <1>2, <1>4
  <2> QED
    BY <1>4, <2>1
<1>6. bits[p] \ Reserved(shift) # {}
  BY <1>1, <1>2 DEF Chunked
<1>7. ASSUME NEW q \in Pages
      PROVE  IF slab[q].tag = "cut"
             THEN /\ slab[q].n \in MinShift .. PageShift - 1
                  /\ bs2[q] \subseteq Chunks(slab[q].n) /\ bs2[q] \ Reserved(slab[q].n) # {}
             ELSE bs2[q] = {}
  <2>1. CASE q = p
    <3>1. slab[p].n \in MinShift .. PageShift - 1
      BY <1>1, <1>2 DEF Chunked
    <3> QED
      BY <1>2, <1>4, <1>5, <1>6, <2>1, <3>1
  <2>2. CASE q # p
    BY <1>1, <1>4, <2>2 DEF Chunked
  <2> QED
    BY <2>1, <2>2
<1>8. LiveExact(slab, bs2, live)
  BY ZenonT(30), <1>1, <1>5, LiveSame
<1>9. Loose(slab, bs2)
  BY <1>4, <1>7 DEF Loose
<1> QED
  BY <1>2, <1>4, <1>6, <1>8, <1>9

LEMMA StrayBounded ==
    ASSUME Layout, NEW p, NEW c, NEW shift, NEW a, NEW left, NEW bs2, NEW us2,
           Strayed(p, c, shift, a, left, bs2, us2)
    PROVE  Bounded(slab, live, us2, total)
<1>1. /\ slab \in [Pages -> Words] /\ Chunked(slab, bits) /\ LiveExact(slab, bits, live)
      /\ used \in [Slots -> Int]
  BY LayoutIs, LayoutTypes
<1> DEFINE j == shift - MinShift
<1>2. /\ p \in Pages /\ slab[p].tag = "cut" /\ slab[p].n = shift
      /\ j \in Slots /\ j + MinShift = shift
      /\ us2 = [used EXCEPT ![j] = @ - 1]
  BY MarkedFacts DEF Strayed
<1> HIDE DEF j
<1>3. p \in CutFor(slab, j)
  BY <1>2 DEF CutFor
<1>4. ASSUME NEW i \in Slots
      PROVE  /\ total[i] = Cardinality(CutFor(slab, i)) * Capacity(i + MinShift)
             /\ us2[i] \in 0 .. Cardinality(BlocksIn(live, CutFor(slab, i)))
  <2> DEFINE n == Cardinality(BlocksIn(live, CutFor(slab, i)))
  <2>1. n \in Nat /\ (CutFor(slab, i) # {} => n # 0)
    BY <1>1, BlocksCount
  <2>2. /\ total[i] = Cardinality(CutFor(slab, i)) * Capacity(i + MinShift)
        /\ used[i] = n
    BY DEF Layout, Counted
  <2> HIDE DEF n
  <2>3. i = j => n # 0
    BY <1>3, <2>1
  <2>4. us2[i] = IF i = j THEN n - 1 ELSE n
    BY <1>1, <1>2, <2>2
  <2>5. us2[i] \in 0 .. n
    BY <2>1, <2>3, <2>4
  <2> QED
    BY <2>2, <2>5 DEF n
<1> QED
  BY <1>4 DEF Bounded

\* Nobody holds a block under a bitmap.
LEMMA NobodysBlock ==
    ASSUME Layout, NEW p, NEW c, NEW shift, NEW a, NEW left, MarkedAt(p, c, shift, a, left),
           c \in Reserved(shift), NEW x \in live
    PROVE  x.at # a
<1>1. slab \in [Pages -> Words] /\ Chunked(slab, bits) /\ LiveExact(slab, bits, live)
  BY LayoutIs, LayoutTypes
<1>2. /\ p \in Pages /\ slab[p].tag = "cut" /\ slab[p].n = shift /\ shift \in Shifts
      /\ c \in Chunks(shift) /\ a = ChunkAt(p, c, shift)
  BY MarkedFacts
<1> SUFFICES ASSUME x.at = a PROVE FALSE
  OBVIOUS
<1>3. PICK q \in Pages : Holds(slab, bits, q, x)
  BY <1>1 DEF LiveExact
<1>4. PageOf(x.at) = q
  BY <1>1, <1>3, ChunkedIsLoose, PageOfHeld
<1>5. PageOf(a) = p /\ OffsetOf(a) \div TwoTo[shift] = c
  BY <1>2, ChunkPlace
<1>6. q = p
  BY <1>4, <1>5
<1>7. PICK d \in bits[p] \ Reserved(shift) : x.at = ChunkAt(p, d, shift)
  BY <1>2, <1>3, <1>6 DEF Holds
<1>8. d \in Chunks(shift)
  BY <1>1, <1>2, <1>7 DEF Chunked
<1>9. OffsetOf(ChunkAt(p, d, shift)) \div TwoTo[shift] = d
  BY <1>2, <1>8, ChunkPlace
<1> QED
  BY <1>5, <1>7, <1>9

LEMMA CoreNext ==
    ASSUME NEW h, NEW bs, NEW us, (\E rk : Fit(h, bs, rk, Null)), Apart(h.slab),
           Loose(h.slab, bs), LiveExact(h.slab, bs, live), Bounded(h.slab, live, us, total),
           NextLayout(h, bs, live, us, total)
    PROVE  Core' /\ slab' = h.slab /\ pfree' = h.pfree
<1>1. PICK rk : Fit(h, bs, rk, Null)
  OBVIOUS
<1>2. h \in Heaps /\ rk \in [Pages \cup Heads -> Nat]
  BY <1>1 DEF Fit
<1>3. h = [next |-> h.next, prev |-> h.prev, slab |-> h.slab, pfree |-> h.pfree]
  BY <1>2 DEF Heaps
<1>4. next' = h.next /\ prev' = h.prev /\ slab' = h.slab /\ pfree' = h.pfree
  BY DEF NextLayout, SetMeta
<1>5. Heap' = [next |-> next', prev |-> prev', slab |-> slab', pfree |-> pfree']
  BY DEF Heap
<1>6. Heap' = h
  BY <1>3, <1>4, <1>5
<1>7. bits' = bs /\ live' = live /\ used' = us /\ total' = total
  BY DEF NextLayout
<1>8. /\ \E r \in [Pages \cup Heads -> Nat] : Fit(Heap', bits', r, Null)
      /\ Apart(slab') /\ Loose(slab', bits') /\ LiveExact(slab', bits', live')
      /\ Bounded(slab', live', used', total')
  BY <1>1, <1>2, <1>4, <1>6, <1>7
<1> QED
  BY <1>4, <1>8 DEF Core

\* dl_slab_free of an address under a bitmap: the bit goes, and one from used.
LEMMA StrayFree ==
    ASSUME Layout, NEW a \in FreeArgs, FreeChunk(a), InBitmap(a)
    PROVE  Core' /\ Astray' /\ UNCHANGED <<slab, pfree, total, live, held>>
<1> DEFINE p == PageOf(a)
           shift == slab[p].n
           i == shift - MinShift
           c == OffsetOf(a) \div TwoTo[shift]
           left == bits[p] \ {c}
           empty == left \subseteq Reserved(shift)
           us2 == [used EXCEPT ![i] = @ - 1]
           bs2 == [bits EXCEPT ![p] = left]
           unlisted == IF prev[p].type = "EXACT" THEN bits[p] = Chunks(shift)
                       ELSE next[p] = Null
           listed == IF unlisted THEN Push(Heap, SlotHead(i), p, prev[p].type) ELSE Heap
<1>1. a \in 0 .. NPages * PageSize - 1 /\ p \in Pages
  BY AddressInside DEF FreeChunk
<1>2. /\ OffsetOf(a) % TwoTo[shift] = 0 /\ c \in bits[p]
      /\ SetMeta(IF empty THEN FreePages(listed, p, 1) ELSE listed)
      /\ bits' = [bits EXCEPT ![p] = IF empty THEN {} ELSE left]
      /\ total' = IF empty THEN [total EXCEPT ![i] = @ - Capacity(shift)] ELSE total
      /\ used' = us2 /\ live' = Without(live, a)
      /\ held' = IF \E b \in live : b.at = a THEN held - 1 ELSE held
  BY DEF FreeChunk, ChunkStart, BusyChunk, Drop, Without
<1>3. slab[p].tag = "cut" /\ c \in Reserved(shift)
  BY DEF InBitmap, CutPages
<1>4. /\ prev[p].type = KindOf(slab[p])
      /\ next[p] = Null <=> ListOf(slab[p], bits[p]) = Null
      /\ shift \in Shifts
  BY <1>1, <1>3, PageWords
<1>5. prev[p].type = TypeFor(shift)
  BY <1>3, <1>4, CutList
<1>6. a = ChunkAt(p, c, shift)
  BY <1>1, <1>2, <1>4, PlaceOfAddress
<1>7. MarkedAt(p, c, shift, a, left)
  BY <1>1, <1>2, <1>3, <1>6 DEF MarkedAt
<1>8. listed = ListedOf(p, shift)
  <2>1. SlotHead(shift - MinShift) # Null
    BY <1>4, RefsApart
  <2>2. ListOf(slab[p], bits[p]) = Null <=> bits[p] = Chunks(shift)
    BY <1>3, <2>1, CutList
  <2>3. unlisted <=> bits[p] = Chunks(shift)
    BY <1>4, <2>2
  <2> HIDE DEF unlisted
  <2> QED
    BY <1>5, <2>3 DEF ListedOf
<1>9. Strayed(p, c, shift, a, left, bs2, us2)
  BY <1>3, <1>7 DEF Strayed
<1> HIDE DEF listed, left, c, p, shift, us2, bs2
<1>10. /\ Loose(slab, bs2) /\ LiveExact(slab, bs2, live)
       /\ ~empty /\ ~(Reserved(shift) \subseteq bs2[p])
  BY <1>9, StrayLoose
<1>11. Bounded(slab, live, us2, total)
  BY <1>9, StrayBounded
<1>12. (\E rk2 : Fit(ListedOf(p, shift), bs2, rk2, Null)) /\ ListedOf(p, shift).slab = slab
  <2>1. bs2 = [bits EXCEPT ![p] = left]
    BY DEF bs2
  <2> QED
    BY <1>7, <2>1, ListedFit
<1>13. Apart(slab) /\ pfree = FreePageCount(slab)
  <2>1. PICK rk : Fit(Heap, bits, rk, Null)
    BY LayoutIs, LayoutTypes
  <2>2. Heap.slab = slab /\ Heap.pfree = pfree
    BY LayoutIs
  <2> QED
    BY <2>1, <2>2 DEF Fit, Layout
<1>14. \A x \in live : x.at # a
  BY <1>3, <1>7, NobodysBlock
<1>15. live' = live /\ held' = held
  BY <1>2, <1>14 DEF Without
<1>16. SetMeta(ListedOf(p, shift)) /\ bits' = bs2 /\ total' = total
  BY <1>2, <1>8, <1>10 DEF bs2
<1> HIDE DEF empty
<1>17. NextLayout(ListedOf(p, shift), bs2, live, us2, total)
  BY <1>2, <1>15, <1>16 DEF NextLayout
<1>18. Core' /\ slab' = slab /\ pfree' = ListedOf(p, shift).pfree
  BY <1>10, <1>11, <1>12, <1>13, <1>17, CoreNext
<1>19. pfree' = pfree
  <2>1. ListedOf(p, shift).pfree = FreePageCount(slab)
    BY <1>12 DEF Fit
  <2> QED
    BY <1>13, <1>18, <2>1
<1>20. Astray'
  BY <1>1, <1>3, <1>10, <1>16, <1>18 DEF Astray, CutPages, shift
<1> QED
  BY <1>15, <1>16, <1>18, <1>19, <1>20

\* A formatted pool: one free run.
LEMMA InitLayout == Init => Layout
<1> SUFFICES ASSUME Init PROVE Layout
  OBVIOUS
<1> DEFINE rk == [r \in Pages \cup Heads |-> IF r = Free THEN 1 ELSE 0]
           own == Own(slab, bits, Null)
           nx0 == [r \in Pages \cup Heads |->
                     CASE r = 0 -> Free [] r = Free -> 0
                       [] r \in Pages \ {0} -> Null [] OTHER -> r]
<1>1. /\ next = nx0
      /\ prev = [p \in Pages |-> IF p = 0 THEN Ptr(Free, "PAGE") ELSE NoPrev]
      /\ slab = [p \in Pages |-> IF p = 0 THEN Run(NPages) ELSE Run(0)]
      /\ bits = [p \in Pages |-> {}] /\ pfree = NPages
      /\ used = [i \in Slots |-> 0] /\ total = [i \in Slots |-> 0] /\ live = {}
  BY DEF Init
<1>2. NPages \in Nat \ {0} /\ 0 \in Pages /\ Free = NPages /\ Free # 0 /\ Free \notin Pages
  BY SlabAssumption, RefsApart DEF Pages, Free
<1>3. /\ \A p \in Pages : p \notin Heads /\ p \in Nat /\ p # Null /\ p # Free /\ p < NPages
      /\ \A r \in Heads : r \notin Pages /\ r # Null /\ r # 0
      /\ Free \in Heads /\ Free # Null
  BY <1>2, RefsApart
<1>4. nx0[0] = Free /\ nx0[Free] = 0 /\ \A r \in Pages \ {0} : nx0[r] = Null
  BY <1>2, <1>3
<1>5. \A r \in Heads \ {Free} : nx0[r] = r
  BY <1>2, <1>3
<1> HIDE DEF nx0
<1>6. next \in [Pages \cup Heads -> Refs]
  <2>1. \A r \in Pages \cup Heads : nx0[r] \in Refs
    <3> SUFFICES ASSUME NEW r \in Pages \cup Heads PROVE nx0[r] \in Refs
      OBVIOUS
    <3>1. CASE r = 0 \/ r = Free \/ r \in Pages \ {0}
      BY <1>2, <1>3, <1>4, <3>1 DEF Refs
    <3>2. CASE r \in Heads \ {Free}
      BY <1>5, <3>2 DEF Refs
    <3> QED
      BY <3>1, <3>2
  <2>2. nx0 = [r \in Pages \cup Heads |-> nx0[r]]
    BY DEF nx0
  <2> QED
    BY <1>1, <2>1, <2>2
<1>7. Free \in Refs /\ Ptr(Free, "PAGE") \in Ptrs /\ NoPrev \in Ptrs
  <2>1. Free \in Refs /\ "PAGE" \in Kinds
    BY <1>3 DEF Refs, Kinds
  <2> QED
    BY <2>1, WordsTyped
<1>8. prev \in [Pages -> Ptrs]
  BY <1>1, <1>7
<1>9. Run(NPages) \in Words /\ Run(0) \in Words /\ slab \in [Pages -> Words]
  BY <1>1, <1>2, WordsTyped
<1>10. slab[0] = Run(NPages) /\ \A p \in Pages \ {0} : slab[p] = Run(0)
  BY <1>1, <1>2
<1>11. /\ IsRun(slab[0]) /\ Spans(slab[0]) /\ slab[0].n = NPages /\ slab[0].tag = "run"
       /\ \A p \in Pages \ {0} : ~IsRun(slab[p]) /\ Inner(slab[p]) /\ ~Spans(slab[p])
                                 /\ slab[p].tag = "run"
       /\ Further(slab[0]) = Run(0)
  BY <1>2, <1>10 DEF IsRun, Spans, Inner, Run, Further
<1>12. \A p \in Pages : slab[p].tag = "run"
  BY <1>11
<1>13. own[0] = Free /\ \A p \in Pages \ {0} : own[p] = Null
  <2>1. \A p \in Pages : own[p] = ListOf(slab[p], bits[p])
    BY OwnAt, <1>3
  <2> HIDE DEF own
  <2>2. ListOf(slab[0], bits[0]) = Free /\ \A p \in Pages \ {0} : ListOf(slab[p], bits[p]) = Null
    BY <1>2, <1>11, <1>12 DEF ListOf
  <2> QED
    BY <1>2, <2>1, <2>2
<1>14. \A r \in Heads : own[r] = r
  BY OwnAt
<1>15. own \in Owners
  <2>1. \A r \in Pages \cup Heads : own[r] \in Heads \cup {Null}
    BY <1>3, <1>13, <1>14
  <2>2. own = [r \in Pages \cup Heads |-> own[r]]
    BY DEF Own
  <2> HIDE DEF own
  <2> QED
    BY <1>14, <2>1, <2>2 DEF Owners
<1> HIDE DEF own
<1>16. rk \in [Pages \cup Heads -> Nat] /\ rk[0] < rk[Free]
  BY <1>2, <1>3
<1> HIDE DEF rk
<1>17. prev[0] = Ptr(Free, "PAGE") /\ prev[0].ref = Free /\ prev[0].type = "PAGE"
       /\ \A p \in Pages : prev[p].type = "PAGE"
  BY <1>1, <1>2 DEF Ptr, NoPrev
<1>18. Linked(next, prev, own, rk)
  <2>1. ASSUME NEW r \in Pages \cup Heads, own[r] # Null
        PROVE  \/ next[r] = own[r]
               \/ next[r] \in Pages /\ own[next[r]] = own[r] /\ prev[next[r]].ref = r
    <3>1. CASE r = 0
      BY <1>1, <1>4, <1>13, <3>1
    <3>2. CASE r = Free
      BY <1>1, <1>2, <1>3, <1>4, <1>13, <1>14, <1>17, <3>2
    <3>3. CASE r \in Pages \ {0}
      BY <1>13, <2>1, <3>3
    <3>4. CASE r \in Heads \ {Free}
      BY <1>1, <1>5, <1>14, <3>4
    <3> QED
      BY <3>1, <3>2, <3>3, <3>4
  <2>2. ASSUME NEW p \in Pages, own[p] # Null
        PROVE  /\ prev[p].ref \in Pages \cup Heads
               /\ own[prev[p].ref] = own[p]
               /\ next[prev[p].ref] = p
               /\ prev[p].type = KindIn(own[p])
               /\ rk[p] < rk[prev[p].ref]
    <3>1. p = 0
      BY <1>13, <2>2
    <3>2. KindIn(Free) = "PAGE"
      BY DEF KindIn
    <3> QED
      BY <1>1, <1>3, <1>4, <1>13, <1>14, <1>16, <1>17, <3>1, <3>2
  <2>3. LinkedTypes(next, prev, own, rk)
    BY <1>6, <1>8, <1>15, <1>16 DEF LinkedTypes
  <2> QED
    BY <2>1, <2>2, <2>3 DEF Linked
<1>19. ASSUME NEW p \in Pages
       PROVE  /\ next[p] = Null <=> ListOf(slab[p], bits[p]) = Null
              /\ prev[p].type = KindOf(slab[p])
  <2>1. next[p] = Null <=> p # 0
    BY <1>1, <1>3, <1>4, <1>19
  <2>2. own[p] = ListOf(slab[p], bits[p])
    BY OwnAt, <1>3 DEF own
  <2> QED
    BY <1>3, <1>12, <1>13, <1>17, <2>1, <2>2 DEF KindOf
<1>20. Tiled(slab)
  <2>1. \A q \in 0 + 1 .. 0 + NPages - 1 : q \in Pages \ {0}
    BY <1>2 DEF Pages
  <2>2. ASSUME NEW p \in Pages, Spans(slab[p])
        PROVE  p + slab[p].n <= NPages
               /\ \A q \in p + 1 .. p + slab[p].n - 1 : slab[q] = Further(slab[p])
    <3>1. p = 0 /\ slab[p].n = NPages /\ Further(slab[p]) = Run(0)
      BY <1>11, <2>2
    <3>2. p + slab[p].n <= NPages
      BY <1>2, <3>1
    <3>3. ASSUME NEW q \in p + 1 .. p + slab[p].n - 1 PROVE slab[q] = Further(slab[p])
      <4>1. q \in Pages \ {0}
        BY <2>1, <3>1
      <4> QED
        BY <1>10, <3>1, <4>1
    <3> QED
      BY <3>2, <3>3
  <2>3. ASSUME NEW q \in Pages, Inner(slab[q])
        PROVE  \E p \in Pages : Spans(slab[p]) /\ p < q /\ q < p + slab[p].n
    <3>1. q # 0
      BY <1>2, <1>10, <2>3 DEF Inner, Run, Busy
    <3>2. 0 < q /\ q < 0 + NPages
      BY <1>2, <1>3, <2>3, <3>1
    <3>3. slab[0].n = NPages /\ Spans(slab[0])
      BY <1>11
    <3> QED
      BY <1>2, <3>2, <3>3
  <2> QED
    BY <1>11, <2>2, <2>3 DEF Tiled
<1>21. Tails(slab, prev, Null) /\ Apart(slab)
  <2>1. ASSUME NEW p \in Pages, IsRun(slab[p]) PROVE ~(p + slab[p].n < NPages)
    <3>1. p = 0
      BY <1>11, <2>1
    <3> QED
      BY <1>2, <1>11, <3>1
  <2> QED
    BY <2>1 DEF Tails, Apart
<1>22. pfree = FreePageCount(slab)
  <2>1. {p \in Pages : slab[p].tag = "run"} = 0 .. NPages - 1
    BY <1>12 DEF Pages
  <2>2. Cardinality(0 .. NPages - 1) = IF 0 > NPages - 1 THEN 0 ELSE (NPages - 1) - 0 + 1
    <3>1. 0 \in Int /\ NPages - 1 \in Int
      BY <1>2
    <3> QED
      BY <3>1, FS_Interval
  <2>3. FreePageCount(slab) = Cardinality(0 .. NPages - 1)
    BY <2>1 DEF FreePageCount
  <2>4. pfree = NPages
    BY <1>1
  <2> QED
    BY <1>2, <2>2, <2>3, <2>4
<1>23. Fit(Heap, bits, rk, Null)
  <2>1. FitOf(next, prev, slab, pfree, bits, rk, Null)
    BY <1>9, <1>18, <1>19, <1>20, <1>21, <1>22 DEF FitOf, own
  <2>2. Fit(Parts(next, prev, slab, pfree), bits, rk, Null)
    BY <2>1, OfIsFit
  <2>3. Heap = Parts(next, prev, slab, pfree)
    BY DEF Heap, Parts
  <2> QED
    BY <2>2, <2>3
<1>24. Chunked(slab, bits)
  <2>1. bits \in [Pages -> SUBSET Nat] /\ \A p \in Pages : bits[p] = {}
    BY <1>1
  <2> QED
    BY <1>12, <2>1 DEF Chunked
<1>25. LiveExact(slab, bits, live)
  <2>1. IsFiniteSet(live)
    BY <1>1, FS_EmptySet
  <2> QED
    BY <1>1, <1>12, <2>1 DEF LiveExact
<1>26. Counted(slab, live, used, total)
  <2>1. ASSUME NEW i \in Slots
        PROVE  /\ total[i] = Cardinality(CutFor(slab, i)) * Capacity(i + MinShift)
               /\ used[i] = Cardinality(BlocksIn(live, CutFor(slab, i)))
    <3>1. CutFor(slab, i) = {} /\ BlocksIn(live, CutFor(slab, i)) = {}
      BY <1>1, <1>12 DEF CutFor, BlocksIn
    <3>2. Cardinality({}) = 0
      BY FS_EmptySet
    <3>3. Capacity(i + MinShift) \in Nat
      BY CapacityType
    <3> DEFINE C == Capacity(i + MinShift)
    <3> HIDE DEF C
    <3>4. C \in Nat => 0 * C = 0
      OBVIOUS
    <3> QED
      BY <1>1, <3>1, <3>2, <3>3, <3>4 DEF C
  <2>2. used \in [Slots -> Int] /\ total \in [Slots -> Int]
    BY <1>1
  <2> QED
    BY <2>1, <2>2 DEF Counted
<1> QED
  BY <1>16, <1>21, <1>23, <1>24, <1>25, <1>26 DEF Layout

LEMMA LayoutIsSound == Layout => Sound
BY LayoutCore DEF Sound

\* A step hands out one block, takes one back, or frees a chunk under a bitmap.
LEMMA LayoutStep ==
    ASSUME Sound, Next
    PROVE  /\ Layout /\ Sound'
           /\ \/ Layout' /\ (\E x : Gains(x)) /\ held' = held + 1
              \/ Layout' /\ (\E a \in FreeArgs : Loses(a)) /\ held' = held - 1
              \/ UNCHANGED <<live, held>>
<1>1. Layout
  BY DEF Next, Sound
<1>2. Layout' => Sound'
  BY LayoutIsSound, PTL
<1>3. ASSUME NEW size \in Sizes, AllocPages(size) \/ AllocChunk(size) \/ AllocFresh(size)
      PROVE  Layout' /\ (\E x : Gains(x)) /\ held' = held + 1
  <2>1. Layout' /\ \E x : Gains(x)
    BY <1>1, <1>3, AllocPagesLayout, AllocChunkLayout, AllocFreshLayout
  <2>2. held' = held + 1
    BY <1>3 DEF AllocPages, AllocChunk, AllocFresh, Grant
  <2> QED
    BY <2>1, <2>2
<1>4. ASSUME NEW a \in FreeArgs, FreeBlock(a) \/ (FreeChunk(a) /\ ~InBitmap(a))
      PROVE  Layout' /\ Loses(a) /\ held' = held - 1
  <2>1. Layout' /\ Loses(a)
    BY <1>1, <1>4, FreeChunkLayout, FreeBlockLayout
  <2>2. held' = held - 1
    BY <1>4, <2>1 DEF FreeChunk, FreeBlock, Drop, Loses
  <2> QED
    BY <2>1, <2>2
<1>5. ASSUME NEW a \in FreeArgs, FreeChunk(a) /\ InBitmap(a)
      PROVE  Sound' /\ UNCHANGED <<live, held>>
  <2>1. Core' /\ Astray' /\ UNCHANGED <<live, held>>
    BY <1>1, <1>5, StrayFree
  <2>2. Core' /\ Astray' => Sound'
    BY DEF Sound
  <2> QED
    BY <2>1, <2>2
<1>6. /\ ~Astray
      /\ \/ \E size \in Sizes : AllocPages(size) \/ AllocChunk(size) \/ AllocFresh(size)
         \/ \E a \in FreeArgs : FreeChunk(a) \/ FreeBlock(a)
  BY DEF Next
<1> QED
  BY <1>1, <1>2, <1>3, <1>4, <1>5, <1>6

LEMMA SoundStutters ==
    ASSUME Sound, UNCHANGED vars
    PROVE  Sound' /\ UNCHANGED <<live, held>>
<1>1. Layout => Layout'
  BY DEF Layout, vars, Heap, BlocksIn
<1>2. Core => Core'
  BY DEF Core, Bounded, vars, Heap, BlocksIn
<1>3. Astray' <=> Astray
  BY DEF Astray, CutPages, vars
<1> QED
  BY <1>1, <1>2, <1>3 DEF Sound, vars

\* The invariant: the layout is exact in every state of the pool, up to a free
\* of a chunk under a bitmap, and sound but for that bitmap and used after it.
THEOREM LayoutInvariance == Spec => []Sound
<1>1. Init => Sound
  BY InitLayout, LayoutIsSound
<1>2. Sound /\ [Next]_vars => Sound'
  BY LayoutStep, SoundStutters
<1> QED
  BY <1>1, <1>2, PTL DEF Spec

LEMMA SoundIsCore == Sound => Core
BY DEF Sound

\* dl_slab_free takes back a block only at the start of one that is held,
\* whatever the address: an address that is not one's is refused or, under the
\* bitmap of a page, changes neither a block nor a page nor a total.
THEOREM OnlyStartsAreFreed == Spec => BadFreeChangesNothing
<1> DEFINE Good(a) == FreeChunk(a) \/ FreeBlock(a) =>
             \/ \E b \in live : b.at = a
             \/ InBitmap(a) /\ UNCHANGED <<slab, pfree, total, live, held>>
<1>1. ASSUME Layout, NEW a \in FreeArgs PROVE Good(a)
  BY <1>1, FreeChunkLayout, FreeBlockLayout, StrayFree DEF Loses
<1>2. Sound /\ [Next]_vars => [\A a \in FreeArgs : Good(a)]_vars
  BY <1>1, LayoutStep
<1> QED
  BY <1>2, LayoutInvariance, PTL DEF Spec, BadFreeChangesNothing

-------------------------------------------------------------------------------
(* The callers' blocks share no byte.                                        *)

\* Block x lies in the n pages from p on, in which no other block starts.
Inside(p, n, x) ==
    /\ n \in Nat \ {0} /\ p \in Nat /\ x.at \in Nat /\ x.len \in Nat
    /\ p * PageSize <= x.at /\ x.at + x.len <= (p + n) * PageSize
    /\ \A q \in Pages : ~Inner(slab[q]) /\ p < q => p + n <= q

LEMMA ChunkWithin ==
    ASSUME NEW p \in Pages, NEW shift \in Shifts, NEW c \in Chunks(shift)
    PROVE  /\ p * PageSize \in Nat /\ (p + 1) * PageSize \in Nat /\ TwoTo[shift] \in Nat
           /\ p * PageSize <= ChunkAt(p, c, shift)
           /\ ChunkAt(p, c, shift) + TwoTo[shift] <= (p + 1) * PageSize
           /\ \A d \in Chunks(shift) : c < d =>
                 ChunkAt(p, c, shift) + TwoTo[shift] <= ChunkAt(p, d, shift)
<1> DEFINE K == PageSize
           t == TwoTo[shift]
           m == NChunks(shift)
<1>1. shift \in 0 .. PageShift /\ p \in Nat
  BY SlabAssumption, RefsApart DEF Shifts
<1>2. K \in Nat \ {0} /\ t \in Nat \ {0} /\ m \in Nat \ {0} /\ K = m * t
  BY <1>1, PageOfChunks
<1>3. \A d \in Chunks(shift) : d \in Nat /\ d + 1 <= m
  BY <1>2 DEF Chunks
<1>4. \A d \in Chunks(shift) : ChunkAt(p, d, shift) = p * K + d * t
  BY DEF ChunkAt
<1> HIDE DEF K, t, m
<1>5. p * K \in Nat /\ (p + 1) * K = p * K + K
  BY <1>1, <1>2
<1>6. \A d \in Chunks(shift) : d * t \in Nat /\ (d + 1) * t = d * t + t
  BY <1>2, <1>3
<1>7. (c + 1) * t <= m * t
  BY <1>2, <1>3, TimesGrows
<1>8. ASSUME NEW d \in Chunks(shift), c < d PROVE (c + 1) * t <= d * t
  <2>1. c + 1 \in Nat /\ d \in Nat /\ c + 1 <= d
    BY <1>3, <1>8
  <2> QED
    BY <1>2, <2>1, TimesGrows
<1>9. p * K <= ChunkAt(p, c, shift) /\ ChunkAt(p, c, shift) + t <= (p + 1) * K
  BY <1>2, <1>4, <1>5, <1>6, <1>7
<1>10. ASSUME NEW d \in Chunks(shift), c < d
       PROVE  ChunkAt(p, c, shift) + t <= ChunkAt(p, d, shift)
  BY <1>2, <1>4, <1>5, <1>6, <1>8, <1>10
<1>11. (p + 1) * K \in Nat /\ t \in Nat
  BY <1>2, <1>5
<1> QED
  BY <1>5, <1>9, <1>10, <1>11 DEF K, t

LEMMA HeldWithin ==
    ASSUME Layout, NEW x \in live, NEW p \in Pages, Holds(slab, bits, p, x)
    PROVE  ~Inner(slab[p]) /\ \E n : Inside(p, n, x)
<1>1. slab \in [Pages -> Words] /\ Tiled(slab) /\ Chunked(slab, bits) /\ LiveExact(slab, bits, live)
  BY LayoutIs, LayoutTypes
<1>2. p \in Nat /\ slab[p] \in Words /\ x.at \in Nat /\ x.len \in Nat
  BY <1>1, RefsApart DEF LiveExact
<1>3. CASE slab[p].tag = "cut"
  <2>1. PICK c \in bits[p] : x.at = ChunkAt(p, c, slab[p].n) /\ x.len = TwoTo[slab[p].n]
    BY <1>3 DEF Holds
  <2>2. slab[p].n \in Shifts /\ c \in Chunks(slab[p].n)
    BY <1>1, <1>3 DEF Chunked, Shifts
  <2>3. p * PageSize <= x.at /\ x.at + x.len <= (p + 1) * PageSize
    BY <2>1, <2>2, ChunkWithin
  <2>4. \A q \in Pages : p < q => p + 1 <= q
    BY RefsApart
  <2> DEFINE K == PageSize
             n == 1
  <2>5. n \in Nat \ {0} /\ p * K <= x.at /\ x.at + x.len <= (p + n) * K
    BY <2>3
  <2>6. \A q \in Pages : ~Inner(slab[q]) /\ p < q => p + n <= q
    BY <2>4
  <2> HIDE DEF n, K
  <2>7. Inside(p, n, x)
    BY <1>2, <2>5, <2>6 DEF Inside, K
  <2> QED
    BY <1>2, <1>3, <2>7, WordKinds
<1>4. CASE slab[p].tag # "cut"
  <2>1. slab[p].tag = "start" /\ x.at = p * PageSize /\ x.len = slab[p].n * PageSize
    BY <1>4 DEF Holds
  <2>2. slab[p] # Busy /\ slab[p] # Run(0)
    BY <2>1 DEF Busy, Run
  <2>3. Spans(slab[p]) /\ ~Inner(slab[p])
    BY <1>1, <2>1, <2>2 DEF Tiled, Inner
  <2>4. slab[p].n \in Nat \ {0} /\ \A q \in Pages : ~Inner(slab[q]) /\ p < q => p + slab[p].n <= q
    BY <1>1, <2>3, SpanOf
  <2> DEFINE n == slab[p].n
             K == PageSize
  <2>5. K \in Nat
    <3>1. PageShift \in 0 .. PageShift
      BY SlabAssumption
    <3> QED
      BY <3>1, PageOfChunks
  <2>6. n \in Nat \ {0} /\ x.at = p * K /\ x.len = n * K
    BY <2>1, <2>4
  <2> HIDE DEF n, K
  <2>7. p * K <= x.at /\ x.at + x.len <= (p + n) * K
    <3>1. (p + n) * K = p * K + n * K /\ p * K \in Nat /\ n * K \in Nat
      BY <1>2, <2>5, <2>6
    <3> QED
      BY <2>6, <3>1
  <2>8. Inside(p, n, x)
    BY <1>2, <2>4, <2>6, <2>7 DEF Inside, n, K
  <2> QED
    BY <2>3, <2>8
<1> QED
  BY <1>3, <1>4

\* A block in an earlier page ends before.
LEMMA EarlierPage ==
    ASSUME Layout, NEW x \in live, NEW y \in live, NEW p \in Pages, NEW q \in Pages,
           Holds(slab, bits, p, x), Holds(slab, bits, q, y), p < q
    PROVE  x.at + x.len <= y.at
<1>1. PICK n : Inside(p, n, x)
  BY HeldWithin
<1>2. PICK m : Inside(q, m, y)
  BY HeldWithin
<1>3. ~Inner(slab[q])
  BY HeldWithin
<1> DEFINE K == PageSize
           e == p + n
<1>4. K \in Nat
  <2>1. PageShift \in 0 .. PageShift
    BY SlabAssumption
  <2> QED
    BY <2>1, PageOfChunks
<1>5. e \in Nat /\ q \in Nat /\ e <= q
  BY <1>1, <1>2, <1>3 DEF Inside
<1>6. x.at \in Nat /\ x.len \in Nat /\ y.at \in Nat /\ x.at + x.len <= e * K /\ q * K <= y.at
  BY <1>1, <1>2 DEF Inside
<1> HIDE DEF K, e
<1>7. e * K \in Nat /\ q * K \in Nat /\ e * K <= q * K
  BY <1>4, <1>5, TimesGrows
<1> QED
  BY <1>6, <1>7

LEMMA BlocksApart ==
    ASSUME Layout, NEW x \in live, NEW y \in live, x # y
    PROVE  A!Disjoint(x, y)
<1>1. Chunked(slab, bits) /\ LiveExact(slab, bits, live)
  BY LayoutIs, LayoutTypes
<1>2. x.at # y.at
  BY <1>1 DEF LiveExact
<1>3. PICK p \in Pages : Holds(slab, bits, p, x)
  BY <1>1 DEF LiveExact
<1>4. PICK q \in Pages : Holds(slab, bits, q, y)
  BY <1>1 DEF LiveExact
<1>5. p \in Nat /\ q \in Nat
  BY RefsApart
<1>6. CASE p < q
  BY <1>3, <1>4, <1>6, EarlierPage DEF A!Disjoint
<1>7. CASE q < p
  BY <1>3, <1>4, <1>7, EarlierPage DEF A!Disjoint
<1>8. CASE p = q
  <2>1. slab[p].tag = "cut"
    BY <1>2, <1>3, <1>4, <1>8 DEF Holds
  <2> DEFINE shift == slab[p].n
  <2>2. shift \in Shifts
    BY <1>1, <2>1 DEF Chunked, Shifts
  <2>3. PICK c \in Chunks(shift) : x.at = ChunkAt(p, c, shift) /\ x.len = TwoTo[shift]
    BY <1>1, <1>3, <2>1 DEF Holds, Chunked
  <2>4. PICK d \in Chunks(shift) : y.at = ChunkAt(p, d, shift) /\ y.len = TwoTo[shift]
    BY <1>1, <1>4, <1>8, <2>1 DEF Holds, Chunked
  <2>5. c \in Int /\ d \in Int /\ c # d
    BY <1>2, <2>3, <2>4 DEF Chunks
  <2> HIDE DEF shift
  <2>6. CASE c < d
    BY <2>2, <2>3, <2>4, <2>6, ChunkWithin DEF A!Disjoint
  <2>7. CASE d < c
    BY <2>2, <2>3, <2>4, <2>7, ChunkWithin DEF A!Disjoint
  <2> QED
    BY <2>5, <2>6, <2>7
<1> QED
  BY <1>5, <1>6, <1>7, <1>8

-------------------------------------------------------------------------------
(* The slab pool is an allocator.                                            *)

\* The number of blocks held is right too.
Promise == Sound /\ held = Cardinality(live)

AllocatorStep == A!Grant \/ A!Release \/ A!ReleaseAll \/ UNCHANGED <<live, held>>

\* The instance counts as this module does.
LEMMA SameCardinality == \A S : A!Cardinality(S) = Cardinality(S)
BY DEF A!Cardinality, Cardinality

AllDisjoint == \A b, c \in live : b # c => A!Disjoint(b, c)

LEMMA NoneOverlap == Layout => AllDisjoint
BY BlocksApart DEF AllDisjoint

LEMMA PromiseGains ==
    ASSUME Promise, Layout, Layout', Sound', NEW x, Gains(x), held' = held + 1
    PROVE  Promise' /\ A!Grant
<1>1. IsFiniteSet(live) /\ LiveExact(slab, bits, live)
  BY LayoutIs, LayoutTypes DEF LiveExact
<1>2. live' = live \cup {x} /\ x.want <= x.len /\ x \notin live
  BY DEF Gains
<1>3. Cardinality(live \cup {x}) = Cardinality(live) + 1
  BY <1>1, <1>2, FS_AddElement
<1>4. Promise'
  BY <1>2, <1>3 DEF Promise
<1>5. live' \ live = {x} /\ live \subseteq live' /\ x \in live'
  BY <1>2
<1>6. Cardinality({x}) = 1
  BY FS_Singleton
<1>7. AllDisjoint'
  BY NoneOverlap, PTL
<1>8. \A b \in {x} : \A c \in live' \ {b} : A!Disjoint(b, c)
  BY <1>5, <1>7 DEF AllDisjoint, A!Disjoint
<1>9. A!Grant
  BY <1>2, <1>5, <1>6, <1>8, SameCardinality DEF A!Grant
<1> QED
  BY <1>4, <1>9

LEMMA PromiseLoses ==
    ASSUME Promise, Layout, Sound', NEW a, Loses(a), held' = held - 1
    PROVE  Promise' /\ A!Release
<1>1. IsFiniteSet(live) /\ \A x, y \in live : x.at = y.at => x = y
  BY LayoutIs, LayoutTypes DEF LiveExact
<1>2. PICK b \in live : b.at = a
  BY DEF Loses
<1>3. live' = live \ {b}
  BY <1>1, <1>2 DEF Loses, Without
<1>4. Cardinality(live \ {b}) = Cardinality(live) - 1
  BY <1>1, <1>2, FS_RemoveElement
<1>5. Promise'
  BY <1>3, <1>4 DEF Promise
<1>6. A!Release
  BY <1>3 DEF A!Release
<1> QED
  BY <1>5, <1>6

LEMMA PromiseStep ==
    ASSUME Promise, [Next]_vars
    PROVE  Promise' /\ AllocatorStep
<1>1. ASSUME Sound', UNCHANGED <<live, held>> PROVE Promise' /\ AllocatorStep
  BY <1>1 DEF Promise, AllocatorStep
<1>2. CASE UNCHANGED vars
  BY <1>1, <1>2, SoundStutters DEF Promise
<1>3. CASE Next
  <2>1. /\ Layout /\ Sound'
        /\ \/ Layout' /\ (\E x : Gains(x)) /\ held' = held + 1
           \/ Layout' /\ (\E a \in FreeArgs : Loses(a)) /\ held' = held - 1
           \/ UNCHANGED <<live, held>>
    BY <1>3, LayoutStep DEF Promise
  <2>2. CASE Layout' /\ (\E x : Gains(x)) /\ held' = held + 1
    BY <2>1, <2>2, PromiseGains DEF AllocatorStep
  <2>3. CASE Layout' /\ (\E a \in FreeArgs : Loses(a)) /\ held' = held - 1
    BY <2>1, <2>3, PromiseLoses DEF AllocatorStep
  <2> QED
    BY <1>1, <2>1, <2>2, <2>3
<1> QED
  BY <1>2, <1>3

\* dl_slab_alloc and dl_slab_free implement the abstract allocator: through any
\* splitting, merging and recutting of pages, a block handed out is as long as
\* asked for and overlaps no block that is still held.
THEOREM SlabIsAllocator == Spec => ImplementsAllocator
<1>1. Init => Promise /\ A!NothingLive
  <2>1. ASSUME Init PROVE live = {} /\ held = 0 /\ Cardinality(live) = 0
    BY <2>1, FS_EmptySet DEF Init
  <2> QED
    BY <2>1, InitLayout, LayoutIsSound DEF Promise, A!NothingLive
<1>2. Promise /\ [Next]_vars => Promise' /\ [A!Grant \/ A!Release \/ A!ReleaseAll]_<<live, held>>
  BY PromiseStep DEF AllocatorStep
<1> QED
  BY <1>1, <1>2, PTL DEF Spec, ImplementsAllocator, A!AllocatorSpec

-------------------------------------------------------------------------------
(* Consequences of the layout.                                               *)

LEMMA LayoutFacts ==
    ASSUME Core
    PROVE  /\ slab \in [Pages -> Words] /\ Tiled(slab) /\ Apart(slab) /\ Loose(slab, bits)
           /\ LiveExact(slab, bits, live) /\ Bounded(slab, live, used, total)
           /\ Tails(slab, prev, Null) /\ pfree = FreePageCount(slab)
           /\ next \in [Pages \cup Heads -> Refs] /\ prev \in [Pages -> Ptrs]
           /\ \E rk : /\ Linked(next, prev, Own(slab, bits, Null), rk)
                      /\ Fit(Heap, bits, rk, Null)
<1>1. PICK rk : Fit(Heap, bits, rk, Null)
  BY DEF Core
<1>2. /\ Heap.next = next /\ Heap.prev = prev /\ Heap.slab = slab /\ Heap.pfree = pfree
  BY LayoutIs
<1>3. Heap \in Heaps /\ Tiled(slab)
  BY <1>1, <1>2 DEF Fit
<1>4. /\ slab \in [Pages -> Words]
      /\ next \in [Pages \cup Heads -> Refs] /\ prev \in [Pages -> Ptrs]
  BY <1>2, <1>3, HeapParts
<1>5. /\ Linked(next, prev, Own(slab, bits, Null), rk)
      /\ Tails(slab, prev, Null) /\ pfree = FreePageCount(slab)
  BY <1>1, <1>2 DEF Fit
<1>6. /\ Apart(slab) /\ Loose(slab, bits) /\ LiveExact(slab, bits, live)
      /\ Bounded(slab, live, used, total)
  BY DEF Core
<1> QED
  BY <1>1, <1>3, <1>4, <1>5, <1>6

\* The pages of a run or block and what lies further back in it.
LEMMA InnerOf ==
    ASSUME NEW s \in [Pages -> Words], Tiled(s), NEW q \in Pages, Inner(s[q])
    PROVE  \E p \in Pages : /\ Spans(s[p]) /\ p < q /\ q < p + s[p].n
                            /\ s[q] = Further(s[p])
                            /\ s[q].tag = "run" <=> s[p].tag = "run"
                            /\ s[q].tag = "busy" => s[p].tag = "start"
<1>1. PICK p \in Pages : Spans(s[p]) /\ p < q /\ q < p + s[p].n
  BY DEF Tiled
<1>2. p \in Nat /\ q \in Nat
  BY RefsApart
<1>3. s[p].n \in Nat \ {0}
  BY <1>1, SpanOf
<1>4. q \in p + 1 .. p + s[p].n - 1
  BY <1>1, <1>2, <1>3
<1>5. s[q] = Further(s[p])
  BY <1>1, <1>4, SpanOf
<1>6. s[p].tag \in {"run", "start"}
  BY <1>1 DEF Spans
<1>7. /\ s[q].tag = "run" <=> s[p].tag = "run"
      /\ s[q].tag = "busy" => s[p].tag = "start"
  BY <1>5, <1>6 DEF Further, Run, Busy
<1> QED
  BY <1>1, <1>5, <1>7

LEMMA RunsMaximal == Core => FreeRunsMaximal
<1> SUFFICES ASSUME Core PROVE FreeRunsMaximal
  OBVIOUS
<1>1. /\ slab \in [Pages -> Words] /\ Tiled(slab) /\ Apart(slab)
      /\ Tails(slab, prev, Null) /\ pfree = FreePageCount(slab)
  BY LayoutFacts
<1>2. ASSUME NEW p \in FreeRuns
      PROVE  /\ p \in Pages /\ p \in Nat /\ slab[p].n \in Nat \ {0}
             /\ IsRun(slab[p]) /\ Spans(slab[p]) /\ ~Inner(slab[p])
  <2>1. p \in Pages /\ slab[p].tag = "run" /\ slab[p].n > 0
    BY DEF FreeRuns
  <2>2. slab[p] \in Words
    BY <1>1, <2>1
  <2> QED
    BY <2>1, <2>2, RefsApart, WordKinds DEF IsRun
<1>3. ASSUME NEW p \in FreeRuns, NEW q \in FreeRuns, p < q PROVE p + slab[p].n < q
  <2>1. p + slab[p].n <= q
    BY <1>1, <1>2, <1>3, SpanOf
  <2>2. p + slab[p].n # q
    <3> SUFFICES ASSUME p + slab[p].n = q PROVE FALSE
      OBVIOUS
    <3>1. q < NPages /\ slab[q].tag = "run"
      BY <1>2, RefsApart DEF FreeRuns
    <3> QED
      BY <1>1, <1>2, <3>1 DEF Apart
  <2> QED
    BY <1>2, <2>1, <2>2
<1>4. ASSUME NEW q \in Pages, slab[q].tag = "run"
      PROVE  \E p \in FreeRuns : q \in RunPages(p)
  <2>1. slab[q] \in Words /\ q \in Nat
    BY <1>1, RefsApart
  <2>2. CASE Inner(slab[q])
    <3>1. PICK p \in Pages : /\ Spans(slab[p]) /\ p < q /\ q < p + slab[p].n
                             /\ slab[p].tag = "run"
      BY <1>1, <1>4, <2>2, InnerOf
    <3>2. p \in FreeRuns
      BY <3>1 DEF FreeRuns, Spans
    <3>3. q \in p .. p + slab[p].n - 1
      BY <1>2, <2>1, <3>1, <3>2
    <3> QED
      BY <3>2, <3>3 DEF RunPages
  <2>3. CASE Spans(slab[q])
    <3>1. q \in FreeRuns
      BY <1>4, <2>3 DEF FreeRuns, Spans
    <3>2. q \in q .. q + slab[q].n - 1
      BY <1>2, <3>1
    <3> QED
      BY <3>1, <3>2 DEF RunPages
  <2> QED
    BY <1>1, <1>4, <2>2, <2>3 DEF Tiled
<1>5. ASSUME NEW p \in FreeRuns, NEW q \in RunPages(p)
      PROVE  q \in Pages /\ slab[q].tag = "run"
  <2>1. q = p \/ q \in p + 1 .. p + slab[p].n - 1
    BY <1>2 DEF RunPages
  <2>2. CASE q = p
    BY <1>2, <2>2 DEF IsRun
  <2>3. CASE q \in p + 1 .. p + slab[p].n - 1
    <3>1. q \in Pages /\ slab[q] = Further(slab[p])
      BY <1>1, <1>2, <2>3, SpanOf
    <3> QED
      BY <1>2, <3>1 DEF Further, IsRun, Run
  <2> QED
    BY <2>1, <2>2, <2>3
<1>6. {p \in Pages : slab[p].tag = "run"} = UNION {RunPages(p) : p \in FreeRuns}
  BY <1>4, <1>5
<1>7. pfree = Cardinality(UNION {RunPages(p) : p \in FreeRuns})
  BY <1>1, <1>6 DEF FreePageCount
<1>8. ASSUME NEW p \in FreeRuns, p + slab[p].n - 1 > p, p + slab[p].n - 1 < NPages - 1
      PROVE  prev[p + slab[p].n - 1] = Ptr(p, "PAGE")
  <2>1. NPages \in Nat
    BY SlabAssumption
  <2>2. slab[p].n > 1 /\ p + slab[p].n < NPages
    BY <1>2, <1>8, <2>1
  <2>3. p \in Pages \ {Null}
    BY <1>2, RefsApart
  <2> QED
    BY <1>1, <1>2, <2>2, <2>3 DEF Tails
<1> QED
  BY <1>3, <1>6, <1>7, <1>8 DEF FreeRunsMaximal

\* dl_slab_free_pages merges all neighbours, so that a free run is as long as it
\* can be, and finds the run before a page through the last page of that run.
THEOREM FreeRunsAreMaximal == Spec => []FreeRunsMaximal
BY LayoutInvariance, SoundIsCore, RunsMaximal, PTL

LEMMA WholePool == Core => EmptyPoolIsWhole
<1> SUFFICES ASSUME Core, live = {} PROVE slab[0] = Run(NPages) /\ pfree = NPages
  BY DEF EmptyPoolIsWhole
<1>1. /\ slab \in [Pages -> Words] /\ Tiled(slab) /\ Apart(slab) /\ Loose(slab, bits)
      /\ LiveExact(slab, bits, live) /\ pfree = FreePageCount(slab)
  BY LayoutFacts
<1>2. NPages \in Nat \ {0} /\ 0 \in Pages
  BY SlabAssumption DEF Pages
<1>3. ASSUME NEW p \in Pages PROVE slab[p].tag \notin {"cut", "start"}
  <2>1. slab[p].tag # "start"
    BY <1>1 DEF LiveExact
  <2>2. slab[p].tag # "cut"
    <3> SUFFICES ASSUME slab[p].tag = "cut" PROVE FALSE
      OBVIOUS
    <3>1. PICK c : c \in bits[p] \ Reserved(slab[p].n)
      BY <1>1 DEF Loose
    <3> QED
      BY <1>1, <3>1 DEF LiveExact
  <2> QED
    BY <2>1, <2>2
<1>4. ASSUME NEW p \in Pages PROVE slab[p].tag = "run"
  <2>1. slab[p].tag # "busy"
    <3> SUFFICES ASSUME slab[p].tag = "busy" PROVE FALSE
      OBVIOUS
    <3>1. Inner(slab[p])
      BY <1>1 DEF Tiled, Spans
    <3>2. \E q \in Pages : slab[q].tag = "start"
      BY <1>1, <3>1, InnerOf
    <3> QED
      BY <1>3, <3>2
  <2> QED
    BY <1>1, <1>3, <2>1 DEF Words
<1>5. ~Inner(slab[0])
  <2> SUFFICES ASSUME Inner(slab[0]) PROVE FALSE
    OBVIOUS
  <2>1. PICK p \in Pages : p < 0
    BY <1>1, <1>2, InnerOf
  <2>2. p \in Nat
    BY RefsApart
  <2> QED
    BY <2>1, <2>2
<1>6. Spans(slab[0])
  BY <1>1, <1>2, <1>4, <1>5 DEF Tiled
<1>7. slab[0].n \in Nat \ {0} /\ 0 + slab[0].n <= NPages /\ IsRun(slab[0])
  BY <1>1, <1>2, <1>4, <1>6, SpanOf, WordKinds
<1>8. slab[0].n = NPages
  <2> SUFFICES ASSUME slab[0].n < NPages PROVE FALSE
    BY <1>2, <1>7
  <2>1. 0 + slab[0].n \in Pages /\ 0 + slab[0].n < NPages
    BY <1>2, <1>7 DEF Pages
  <2>2. slab[0 + slab[0].n].tag # "run"
    BY <1>1, <1>2, <1>7, <2>1 DEF Apart
  <2> QED
    BY <1>4, <2>1, <2>2
<1>9. slab[0] = Run(NPages)
  <2>1. slab[0] \in Words /\ slab[0].tag = "run"
    BY <1>1, <1>2, <1>4
  <2> QED
    BY <1>8, <2>1 DEF Words, Run
<1>10. pfree = NPages
  <2>1. {p \in Pages : slab[p].tag = "run"} = 0 .. NPages - 1
    BY <1>4 DEF Pages
  <2>2. Cardinality(0 .. NPages - 1) = IF 0 > NPages - 1 THEN 0 ELSE (NPages - 1) - 0 + 1
    <3>1. 0 \in Int /\ NPages - 1 \in Int
      BY <1>2
    <3> QED
      BY <3>1, FS_Interval
  <2>3. pfree = Cardinality(0 .. NPages - 1)
    BY <1>1, <2>1 DEF FreePageCount
  <2> QED
    BY <1>2, <2>2, <2>3
<1> QED
  BY <1>9, <1>10

\* When all blocks were given back the pool is one free run again.
THEOREM PoolEndsWhole == Spec => []EmptyPoolIsWhole
BY LayoutInvariance, SoundIsCore, WholePool, PTL

LEMMA MapsMatch == Core => MapsMatchLive
<1> SUFFICES ASSUME Core PROVE MapsMatchLive
  OBVIOUS
<1>1. /\ slab \in [Pages -> Words] /\ Tiled(slab) /\ Loose(slab, bits)
      /\ LiveExact(slab, bits, live)
  BY LayoutFacts
<1> DEFINE K == PageSize
<1>2. K \in Nat \ {0}
  <2>1. PageShift \in 0 .. PageShift
    BY SlabAssumption
  <2> QED
    BY <2>1, PageOfChunks
<1> HIDE DEF K
<1>3. ASSUME NEW p \in Pages, slab[p].tag = "cut"
      PROVE  slab[p].n \in Shifts /\ bits[p] \subseteq Chunks(slab[p].n)
  BY <1>1, <1>3 DEF Loose, Shifts
<1>4. ASSUME NEW b \in live
      PROVE  LET p == PageOf(b.at)
             IN  \/ /\ p \in CutPages /\ b.len = TwoTo[slab[p].n]
                    /\ OffsetOf(b.at) \div b.len \in bits[p] \ Reserved(slab[p].n)
                 \/ slab[p] = Start(b.len \div PageSize)
  <2>1. PICK p \in Pages : Holds(slab, bits, p, b)
    BY <1>1 DEF LiveExact
  <2>2. PageOf(b.at) = p /\ slab[p].tag \in {"cut", "start"}
    BY <1>1, <2>1, PageOfHeld
  <2>3. CASE slab[p].tag = "cut"
    <3>1. /\ \E c \in bits[p] \ Reserved(slab[p].n) : b.at = ChunkAt(p, c, slab[p].n)
          /\ b.len = TwoTo[slab[p].n]
      BY <2>1, <2>3 DEF Holds
    <3>2. PICK c \in bits[p] \ Reserved(slab[p].n) : b.at = ChunkAt(p, c, slab[p].n)
      BY <3>1
    <3>3. OffsetOf(b.at) \div TwoTo[slab[p].n] = c
      BY <1>3, <2>3, <3>2, ChunkPlace
    <3>4. p \in CutPages
      BY <2>3 DEF CutPages
    <3> QED
      BY <2>2, <3>1, <3>3, <3>4
  <2>4. CASE slab[p].tag = "start"
    <3> DEFINE n == slab[p].n
    <3>1. n \in Nat /\ slab[p] = Start(n)
      BY <1>1, <2>4 DEF Words, Start
    <3>2. b.len = n * K
      BY <2>1, <2>4 DEF Holds, K
    <3> HIDE DEF n
    <3>3. n \in Int /\ 0 \in 0 .. K - 1
      BY <1>2, <3>1
    <3>4. (K * n + 0) \div K = n
      BY <1>2, <3>3, DivModUnique
    <3>5. K * n + 0 = n * K
      BY <1>2, <3>1
    <3>6. b.len \div K = n
      BY <3>2, <3>4, <3>5
    <3> QED
      BY <2>2, <3>1, <3>6 DEF K
  <2> QED
    BY <2>2, <2>3, <2>4
<1>5. ASSUME NEW p \in CutPages, NEW c \in bits[p] \ Reserved(slab[p].n)
      PROVE  \E b \in live : b.at = p * PageSize + c * TwoTo[slab[p].n]
  BY <1>1 DEF LiveExact, CutPages, ChunkAt
<1>6. ASSUME NEW p \in Pages, slab[p].tag = "start"
      PROVE  \E b \in live : b.at = p * K /\ b.len = slab[p].n * K
  <2>1. PICK b \in live : b.at = p * K
    BY <1>1, <1>6 DEF LiveExact, K
  <2>2. PICK q \in Pages : Holds(slab, bits, q, b)
    BY <1>1 DEF LiveExact
  <2>3. PageOf(b.at) = q /\ PageOf(p * PageSize) = p
    BY <1>1, <2>2, PageOfHeld, PageStart
  <2>4. q = p
    BY <2>1, <2>3 DEF K
  <2>5. b.len = slab[p].n * K
    BY <1>6, <2>2, <2>4 DEF Holds, K
  <2> QED
    BY <2>1, <2>5
<1>7. ASSUME NEW p \in Pages, slab[p].tag = "start", NEW q \in Pages, p <= q, q < p + slab[p].n
      PROVE  \E b \in live : b.at <= q * PageSize /\ q * PageSize < b.at + b.len
  <2> DEFINE n == slab[p].n
             q1 == q + 1
             e == p + n
  <2>1. PICK b \in live : b.at = p * K /\ b.len = n * K
    BY <1>6, <1>7
  <2>2. p \in Nat /\ q \in Nat /\ n \in Nat /\ q1 \in Nat /\ e \in Nat /\ q1 <= e /\ p <= q
    BY <1>1, <1>7, RefsApart DEF Words
  <2>3. q1 * K = q * K + K /\ e * K = p * K + n * K /\ p * K \in Nat /\ q * K \in Nat
    <3> HIDE DEF n
    <3> QED
      BY <1>2, <2>2
  <2> HIDE DEF n, q1, e
  <2>4. p * K <= q * K /\ q1 * K \in Nat /\ e * K \in Nat /\ q1 * K <= e * K
    BY <1>2, <2>2, TimesGrows
  <2>5. n * K \in Nat
    BY <1>2, <2>2
  <2>6. b.at <= q * K /\ q * K < b.at + b.len
    BY <1>2, <2>1, <2>3, <2>4, <2>5
  <2> QED
    BY <2>6 DEF K
<1>8. ASSUME NEW q \in Pages, slab[q].tag \in {"start", "busy"}
      PROVE  \E b \in live : b.at <= q * PageSize /\ q * PageSize < b.at + b.len
  <2>1. slab[q] \in Words /\ q \in Nat
    BY <1>1, RefsApart
  <2>2. CASE Inner(slab[q])
    <3>1. slab[q].tag = "busy"
      BY <1>8, <2>2 DEF Inner, Run, Busy
    <3>2. PICK p \in Pages : p < q /\ q < p + slab[p].n /\ slab[p].tag = "start"
      BY <1>1, <2>2, <3>1, InnerOf
    <3>3. p <= q
      BY <2>1, <3>2, RefsApart
    <3> QED
      BY <1>7, <3>2, <3>3
  <2>3. CASE Spans(slab[q])
    <3>1. slab[q].tag = "start" /\ slab[q].n \in Nat \ {0}
      BY <1>1, <1>8, <2>3, SpanOf DEF Spans
    <3>2. q <= q /\ q < q + slab[q].n
      BY <2>1, <3>1
    <3> QED
      BY <1>7, <3>1, <3>2
  <2> QED
    BY <1>1, <1>8, <2>2, <2>3 DEF Tiled
<1> QED
  BY <1>4, <1>5, <1>8 DEF MapsMatchLive

\* No chunk or page is busy that nobody holds, and none is free that somebody
\* holds, whatever mixture of sizes was asked for and given back.
THEOREM MapsMatchLiveAlways == Spec => []MapsMatchLive
BY LayoutInvariance, SoundIsCore, MapsMatch, PTL

LEMMA StatsCount == Sound => StatsExact
<1> SUFFICES ASSUME Sound, NEW i \in Slots
             PROVE  LET mine == {p \in CutPages : slab[p].n = i + MinShift}
                    IN  /\ total[i] = Cardinality(mine)
                              * (NChunks(i + MinShift) - BitmapChunks(i + MinShift))
                        /\ ~Astray =>
                              used[i] = Cardinality({b \in live : PageOf(b.at) \in mine})
  BY DEF StatsExact
<1> DEFINE mine == {p \in CutPages : slab[p].n = i + MinShift}
<1>1. Bounded(slab, live, used, total)
  BY LayoutFacts, SoundIsCore
<1>2. mine = CutFor(slab, i)
  BY DEF CutFor, CutPages
<1>3. {b \in live : PageOf(b.at) \in mine} = BlocksIn(live, mine)
  BY DEF BlocksIn
<1> HIDE DEF mine
<1>4. total[i] = Cardinality(mine) * Capacity(i + MinShift)
  BY <1>1, <1>2 DEF Bounded
<1>5. total[i] = Cardinality(mine) * (NChunks(i + MinShift) - BitmapChunks(i + MinShift))
  BY <1>4 DEF Capacity
<1>6. ~Astray => used[i] = Cardinality(BlocksIn(live, mine))
  BY <1>2 DEF Sound, Layout, Counted
<1> QED
  BY <1>3, <1>5, <1>6 DEF mine

\* stats[].used and stats[].total count the chunks held and the chunks there are,
\* also when a page is cut, recut for another size or given back.
THEOREM StatsAreExact == Spec => []StatsExact
BY LayoutInvariance, StatsCount, PTL

-------------------------------------------------------------------------------
(* Types.                                                                    *)

\* A set of pages is finite.
LEMMA PagesFinite ==
    ASSUME NEW S, S \subseteq Pages
    PROVE  IsFiniteSet(S) /\ Cardinality(S) \in Nat /\ Cardinality(S) <= NPages
<1>1. S \cap (0 .. 0 + 0 - 1) = {} /\ 0 \in Nat
  OBVIOUS
<1> QED
  BY <1>1, CountMore

\* The chunks of a page that are not its bitmap.
LEMMA UsableChunks ==
    ASSUME NEW shift \in Shifts
    PROVE  /\ IsFiniteSet(Chunks(shift) \ Reserved(shift))
           /\ Cardinality(Chunks(shift) \ Reserved(shift)) = Capacity(shift)
           /\ Chunks(shift) \subseteq 0 .. PageSize - 1
<1> DEFINE m == NChunks(shift)
           b == BitmapChunks(shift)
           t == TwoTo[shift]
<1>1. shift \in 0 .. PageShift
  BY SlabAssumption DEF Shifts
<1>2. m \in Nat \ {0} /\ t \in Nat \ {0} /\ PageSize = t * m
  BY <1>1, PageOfChunks
<1>3. b \in Nat /\ b + 1 < m
  BY BitmapFits
<1>4. Chunks(shift) = 0 .. m - 1 /\ Reserved(shift) = 0 .. b - 1 /\ Capacity(shift) = m - b
  BY DEF Chunks, Reserved, Capacity
<1> HIDE DEF m, b, t
<1>5. Chunks(shift) \ Reserved(shift) = b .. m - 1
  BY <1>2, <1>3, <1>4
<1>6. IsFiniteSet(b .. m - 1) /\ Cardinality(b .. m - 1) = m - b
  <2>1. b \in Int /\ m - 1 \in Int /\ ~(b > m - 1) /\ (m - 1) - b + 1 = m - b
    BY <1>2, <1>3
  <2>2. /\ IsFiniteSet(b .. m - 1)
        /\ Cardinality(b .. m - 1) = IF b > m - 1 THEN 0 ELSE (m - 1) - b + 1
    BY <2>1, FS_Interval
  <2> QED
    BY <2>1, <2>2
<1>7. m <= PageSize
  <2>1. 1 * m <= t * m /\ 1 * m = m
    BY <1>2, TimesGrows
  <2> QED
    BY <1>2, <2>1
<1>8. Chunks(shift) \subseteq 0 .. PageSize - 1
  BY <1>2, <1>4, <1>7
<1> QED
  BY <1>4, <1>5, <1>6, <1>8

\* There are no more blocks in the pages of a slot than chunks.
LEMMA UsedBound ==
    ASSUME Core, NEW i \in Slots
    PROVE  used[i] \in 0 .. total[i]
<1> DEFINE C == CutFor(slab, i)
           B == BlocksIn(live, C)
           shift == i + MinShift
           F == Chunks(shift) \ Reserved(shift)
           f == [x \in B |-> <<PageOf(x.at), OffsetOf(x.at) \div TwoTo[shift]>>]
<1>1. /\ slab \in [Pages -> Words] /\ Loose(slab, bits) /\ LiveExact(slab, bits, live)
      /\ Bounded(slab, live, used, total)
  BY LayoutFacts
<1>2. shift \in Shifts
  BY RefsApart
<1> HIDE DEF shift
<1>3. IsFiniteSet(F) /\ Cardinality(F) = Capacity(shift)
  BY <1>2, UsableChunks
<1>4. IsFiniteSet(C)
  <2>1. C \subseteq Pages
    BY DEF CutFor
  <2> QED
    BY <2>1, PagesFinite
<1>5. ASSUME NEW x \in B
      PROVE  /\ x \in live /\ PageOf(x.at) \in C
             /\ \E c \in F : x.at = ChunkAt(PageOf(x.at), c, shift)
                             /\ OffsetOf(x.at) \div TwoTo[shift] = c
  <2>1. x \in live /\ PageOf(x.at) \in C
    BY DEF BlocksIn
  <2>2. PICK p \in Pages : Holds(slab, bits, p, x)
    BY <1>1, <2>1 DEF LiveExact
  <2>3. PageOf(x.at) = p /\ slab[p].tag = "cut" /\ slab[p].n = shift
    BY <1>1, <2>1, <2>2, PageOfHeld DEF CutFor, shift
  <2>4. PICK c \in bits[p] \ Reserved(shift) : x.at = ChunkAt(p, c, shift)
    BY <2>2, <2>3 DEF Holds
  <2>5. c \in Chunks(shift)
    BY <1>1, <2>3, <2>4 DEF Loose
  <2>6. OffsetOf(x.at) \div TwoTo[shift] = c
    BY <1>2, <2>4, <2>5, ChunkPlace
  <2> QED
    BY <2>1, <2>3, <2>4, <2>5, <2>6
<1>6. f \in [B -> C \X F]
  BY <1>5
<1>7. ASSUME NEW x \in B, NEW y \in B, f[x] = f[y] PROVE x = y
  <2>1. PageOf(x.at) = PageOf(y.at)
        /\ OffsetOf(x.at) \div TwoTo[shift] = OffsetOf(y.at) \div TwoTo[shift]
    BY <1>7
  <2>2. x.at = y.at /\ x \in live /\ y \in live
    BY <1>5, <2>1
  <2> QED
    BY <1>1, <2>2 DEF LiveExact
<1> HIDE DEF f, B, C, F
<1>8. f \in Injection(B, C \X F)
  BY <1>6, <1>7 DEF Injection, IsInjective
<1>9. /\ IsFiniteSet(C \X F) /\ Cardinality(C \X F) = Cardinality(C) * Cardinality(F)
  BY <1>3, <1>4, FS_Product
<1>10. IsFiniteSet(B) /\ Cardinality(B) <= Cardinality(C \X F)
  BY <1>8, <1>9, FS_Injection
<1>11. Cardinality(B) \in Nat
  BY <1>10, FS_CardinalityType
<1>12. used[i] \in 0 .. Cardinality(B) /\ total[i] = Cardinality(C \X F)
  BY <1>1, <1>3, <1>9 DEF Bounded, B, C, shift
<1>13. Cardinality(C \X F) \in Nat
  BY <1>9, FS_CardinalityType
<1> QED
  BY <1>10, <1>11, <1>12, <1>13

LEMMA LayoutTyped == Core => TypeOK
<1> SUFFICES ASSUME Core PROVE TypeOK
  OBVIOUS
<1>1. /\ slab \in [Pages -> Words] /\ Tiled(slab) /\ Loose(slab, bits)
      /\ pfree = FreePageCount(slab)
  BY LayoutFacts
<1>2. next \in [Pages \cup Heads -> Refs] /\ prev \in [Pages -> Ptrs]
  BY LayoutFacts
<1>3. NPages \in Nat /\ PageShift \in Nat /\ MinShift \in Nat
  BY SlabAssumption
<1>4. ASSUME NEW p \in Pages
      PROVE  /\ prev[p].ref \in Pages \cup Heads \cup {Null}
             /\ prev[p].type \in {"PAGE", "SMALL", "EXACT", "BIG"}
             /\ slab[p].tag \in {"run", "start", "busy", "cut"}
  BY <1>1, <1>2 DEF Ptrs, Refs, Kinds, Words
<1>5. ASSUME NEW p \in Pages
      PROVE  slab[p].n \in 0 .. NPages + PageShift /\ bits[p] \in SUBSET (0 .. PageSize - 1)
  <2>1. slab[p] \in Words /\ p \in Nat
    BY <1>1, RefsApart
  <2>2. CASE slab[p].tag = "cut"
    <3>1. slab[p].n \in Shifts /\ bits[p] \subseteq Chunks(slab[p].n)
      BY <1>1, <2>2 DEF Loose, Shifts
    <3>2. slab[p].n \in 0 .. NPages + PageShift
      BY <1>3, <3>1 DEF Shifts
    <3> QED
      BY <3>1, <3>2, UsableChunks
  <2>3. CASE slab[p].tag # "cut"
    <3>1. bits[p] = {}
      BY <1>1, <2>3 DEF Loose
    <3>2. CASE Spans(slab[p])
      <4>1. slab[p].n \in Nat \ {0} /\ p + slab[p].n <= NPages
        BY <1>1, <3>2, SpanOf
      <4>2. slab[p].n \in 0 .. NPages + PageShift
        BY <1>3, <2>1, <4>1
      <4> QED
        BY <3>1, <4>2
    <3>3. CASE Inner(slab[p])
      <4>1. slab[p].n = 0
        BY <2>1, <3>3, WordKinds
      <4> QED
        BY <1>3, <3>1, <4>1
    <3> QED
      BY <1>1, <2>3, <3>2, <3>3 DEF Tiled
  <2> QED
    BY <2>2, <2>3
<1>6. pfree \in 0 .. NPages
  BY <1>1, CountType
<1>7. \A i \in Slots : used[i] \in 0 .. total[i]
  BY UsedBound
<1> QED
  BY <1>2, <1>4, <1>5, <1>6, <1>7 DEF TypeOK, Refs

\* Every word of the pool's metadata keeps its type, and no slot counts more
\* chunks in use than it has.
THEOREM SlabTypeCorrect == Spec => []TypeOK
BY LayoutInvariance, SoundIsCore, LayoutTyped, PTL

-------------------------------------------------------------------------------
(* The lists, entry by entry.                                                *)

\* A walk along a list; it sees each page of the list once.
Walking(nx, pv, own, rk, head, at, len) ==
    Linked(nx, pv, own, rk) /\ head \in Heads /\ Along(nx, head, at, len)
Visited(at, len) == {at[k] : k \in 0 .. len - 1}

LEMMA WalkBack ==
    ASSUME NEW nx, NEW pv, NEW own, NEW rk, NEW head, NEW at, NEW len,
           Walking(nx, pv, own, rk, head, at, len), NEW k \in 0 .. len - 1
    PROVE  /\ NPages \in Nat /\ len \in 0 .. NPages /\ k \in 0 .. NPages - 1
           /\ at[k] \in Pages /\ own[at[k]] = head /\ head # Null
           /\ pv[at[k]].type = KindIn(head)
           /\ rk \in [Pages \cup Heads -> Nat] /\ rk[at[k]] < rk[pv[at[k]].ref]
           /\ pv[at[k]].ref = IF k = 0 THEN head ELSE at[k - 1]
           /\ k # 0 => k - 1 \in 0 .. len - 1 /\ at[k - 1] \in Pages
<1>1. /\ NPages \in Nat /\ len \in 0 .. NPages /\ head \in Heads /\ head # Null
      /\ Along(nx, head, at, len) /\ Linked(nx, pv, own, rk)
  BY SlabAssumption, RefsApart DEF Walking, Along
<1>2. ASSUME NEW j \in 0 .. len - 1
      PROVE  j \in 0 .. NPages - 1 /\ j \in 0 .. NPages /\ at[j] \in Pages /\ own[at[j]] = head
  <2>1. j \in 0 .. NPages - 1 /\ j \in 0 .. NPages /\ j < len
    BY <1>1
  <2>2. at[j] \in Pages
    BY <1>1, <2>1 DEF Along
  <2>3. own[at[j]] = head
    BY <1>1, <2>1, AlongMembers
  <2> QED
    BY <2>1, <2>2, <2>3
<1>3. own[at[k]] # Null
  BY <1>1, <1>2
<1>4. /\ pv[at[k]].type = KindIn(head) /\ rk[at[k]] < rk[pv[at[k]].ref]
      /\ rk \in [Pages \cup Heads -> Nat]
  BY <1>1, <1>2, <1>3 DEF Linked, LinkedTypes
<1>5. CASE k = 0
  <2>1. at[0] = nx[head] /\ at[0] \in Pages /\ head \notin Pages
    BY <1>1, <1>2, <1>5, RefsApart DEF Along
  <2>2. pv[nx[head]].ref = head
    BY <1>1, <2>1, LinksOfHead
  <2> QED
    BY <1>1, <1>2, <1>4, <1>5, <2>1, <2>2
<1>6. CASE k # 0
  <2>1. k - 1 \in 0 .. len - 1 /\ k \in 1 .. NPages
    BY <1>1, <1>6
  <2>2. at[k - 1] \in Pages /\ own[at[k - 1]] # Null
    BY <1>1, <1>2, <2>1
  <2>3. at[k] = nx[at[k - 1]]
    BY <1>1, <2>1, <2>2 DEF Along
  <2>4. pv[nx[at[k - 1]]].ref = at[k - 1]
    BY <1>1, <1>2, <2>2, <2>3, LinksOf
  <2> QED
    BY <1>1, <1>2, <1>4, <1>6, <2>1, <2>2, <2>3, <2>4
<1> QED
  BY <1>5, <1>6

\* Ranks fall along a walk, so that it comes to no page twice.
LEMMA WalkFalls ==
    ASSUME NEW nx, NEW pv, NEW own, NEW rk, NEW head, NEW at, NEW len,
           Walking(nx, pv, own, rk, head, at, len), NEW k \in 0 .. len - 1
    PROVE  \A j \in 0 .. k - 1 : rk[at[k]] < rk[at[j]]
<1> DEFINE T == {n \in Nat : n < len => \A j \in 0 .. n - 1 : rk[at[n]] < rk[at[j]]}
<1>1. NPages \in Nat /\ len \in 0 .. NPages
  BY WalkBack
<1>2. 0 \in T
  OBVIOUS
<1>3. ASSUME NEW n \in Nat, n \in T PROVE n + 1 \in T
  <2> SUFFICES ASSUME n + 1 < len, NEW j \in 0 .. (n + 1) - 1 PROVE rk[at[n + 1]] < rk[at[j]]
    OBVIOUS
  <2> DEFINE m == n + 1
  <2>1. m \in 0 .. len - 1 /\ m # 0 /\ m - 1 = n /\ n \in 0 .. len - 1 /\ j \in 0 .. len - 1
    BY <1>1
  <2> HIDE DEF m
  <2>2. /\ rk \in [Pages \cup Heads -> Nat] /\ at[m] \in Pages
        /\ rk[at[m]] < rk[pv[at[m]].ref] /\ pv[at[m]].ref = at[m - 1]
    <3>1. m \in 0 .. len - 1 /\ m # 0
      BY <2>1
    <3>2. rk \in [Pages \cup Heads -> Nat] /\ at[m] \in Pages
      BY <3>1, WalkBack
    <3>3. rk[at[m]] < rk[pv[at[m]].ref]
      BY <3>1, WalkBack
    <3>4. pv[at[m]].ref = IF m = 0 THEN head ELSE at[m - 1]
      BY <3>1, WalkBack
    <3> QED
      BY <3>1, <3>2, <3>3, <3>4
  <2>3. at[n] \in Pages /\ at[j] \in Pages
    BY <2>1, WalkBack
  <2>4. rk[at[m]] \in Nat /\ rk[at[n]] \in Nat /\ rk[at[j]] \in Nat /\ rk[at[m]] < rk[at[n]]
    BY <2>1, <2>2, <2>3
  <2>5. CASE j = n
    BY <2>4, <2>5 DEF m
  <2>6. CASE j # n
    <3>1. j \in 0 .. n - 1 /\ n < len
      BY <1>1, <2>6
    <3>2. rk[at[n]] < rk[at[j]]
      BY <1>3, <3>1
    <3> QED
      BY <2>4, <3>2 DEF m
  <2> QED
    BY <2>5, <2>6
<1> HIDE DEF T
<1>4. \A n \in Nat : n \in T
  BY <1>2, <1>3, AllNaturals
<1>5. k \in Nat /\ k < len
  BY <1>1
<1> QED
  BY <1>4, <1>5 DEF T

\* A walk of len steps sees len pages.
LEMMA WalkCount ==
    ASSUME NEW nx, NEW pv, NEW own, NEW rk, NEW head, NEW at, NEW len,
           Walking(nx, pv, own, rk, head, at, len)
    PROVE  /\ NPages \in Nat /\ len \in 0 .. NPages
           /\ Visited(at, len) \subseteq Pages /\ Cardinality(Visited(at, len)) = len
<1> DEFINE V == Visited(at, len)
           I == 0 .. len - 1
           f == [k \in I |-> at[k]]
<1>1. NPages \in Nat /\ len \in 0 .. NPages
  BY SlabAssumption DEF Walking, Along
<1>2. V \subseteq Pages
  BY WalkBack DEF Visited
<1>3. ASSUME NEW j \in I, NEW k \in I, f[j] = f[k] PROVE j = k
  <2> SUFFICES ASSUME j # k PROVE FALSE
    OBVIOUS
  <2>1. j \in Nat /\ k \in Nat /\ at[j] = at[k]
    BY <1>1, <1>3
  <2>2. rk \in [Pages \cup Heads -> Nat] /\ at[j] \in Pages
    BY WalkBack
  <2>3. rk[at[j]] \in Nat
    BY <2>2
  <2>4. CASE j < k
    <3>1. j \in 0 .. k - 1
      BY <2>1, <2>4
    <3>2. rk[at[k]] < rk[at[j]]
      BY <3>1, WalkFalls
    <3> QED
      BY <2>1, <2>3, <3>2
  <2>5. CASE k < j
    <3>1. k \in 0 .. j - 1
      BY <2>1, <2>5
    <3>2. rk[at[j]] < rk[at[k]]
      BY <3>1, WalkFalls
    <3> QED
      BY <2>1, <2>3, <3>2
  <2> QED
    BY <2>1, <2>4, <2>5
<1>4. f \in [I -> V] /\ \A y \in V : \E k \in I : f[k] = y
  BY DEF Visited
<1>5. IsFiniteSet(I) /\ Cardinality(I) = len
  <2>1. 0 \in Int /\ len - 1 \in Int
    BY <1>1
  <2>2. IsFiniteSet(I) /\ Cardinality(I) = IF 0 > len - 1 THEN 0 ELSE (len - 1) - 0 + 1
    BY <2>1, FS_Interval
  <2> HIDE DEF I
  <2> QED
    BY <1>1, <2>2
<1> HIDE DEF V, I, f
<1>6. f \in Injection(I, V) /\ f \in Surjection(I, V)
  BY <1>3, <1>4 DEF Injection, IsInjective, Surjection
<1>7. ExistsBijection(I, V)
  BY <1>6 DEF Bijection, ExistsBijection
<1>8. Cardinality(V) = len
  BY <1>5, <1>7, FS_Bijection
<1> QED
  BY <1>1, <1>2, <1>8 DEF V

\* What a page of the list points back to is not on the walk if it is not.
LEMMA WalkMissed ==
    ASSUME NEW nx, NEW pv, NEW own, NEW rk, NEW head, NEW at, NEW len,
           Walking(nx, pv, own, rk, head, at, len),
           NEW p \in Pages, own[p] = head, p \notin Visited(at, len)
    PROVE  /\ pv[p].ref \in Pages /\ own[pv[p].ref] = head
           /\ pv[p].ref \notin Visited(at, len) /\ rk[p] < rk[pv[p].ref]
<1> DEFINE r == pv[p].ref
<1>1. /\ NPages \in Nat /\ len \in 0 .. NPages /\ head \in Heads /\ head # Null
      /\ Along(nx, head, at, len) /\ Linked(nx, pv, own, rk)
  BY SlabAssumption, RefsApart DEF Walking, Along
<1>2. /\ r \in Pages \cup Heads /\ own[r] = head /\ nx[r] = p /\ rk[p] < rk[r]
  BY <1>1 DEF Linked
<1> HIDE DEF r
<1>3. len < NPages
  <2> SUFFICES ASSUME len = NPages PROVE FALSE
    BY <1>1
  <2> DEFINE V == Visited(at, len)
  <2>1. V \subseteq Pages /\ Cardinality(V) = NPages
    BY WalkCount
  <2> HIDE DEF V
  <2>2. IsFiniteSet(Pages) /\ Cardinality(Pages) <= NPages /\ Cardinality(Pages) \in Nat
    BY PagesFinite
  <2>3. Cardinality(V) <= Cardinality(Pages) /\ (Cardinality(V) = Cardinality(Pages) => Pages = V)
    BY <2>1, <2>2, FS_Subset
  <2>4. Cardinality(V) = Cardinality(Pages)
    BY <1>1, <2>1, <2>2, <2>3
  <2> QED
    BY <2>3, <2>4 DEF V
<1>4. 0 \in 0 .. NPages - 1
  BY <1>1, <1>3
<1>5. r \in Pages
  <2> SUFFICES ASSUME r \in Heads PROVE FALSE
    BY <1>2
  <2>1. r = head
    BY <1>1, <1>2 DEF Linked, LinkedTypes, Owners
  <2>2. at[0] = p
    BY <1>1, <1>2, <2>1 DEF Along
  <2>3. 0 < len
    BY <1>1, <1>4, <2>2 DEF Along
  <2>4. 0 \in 0 .. len - 1
    BY <1>1, <2>3
  <2> QED
    BY <2>2, <2>4 DEF Visited
<1>6. r \notin Visited(at, len)
  <2> SUFFICES ASSUME r \in Visited(at, len) PROVE FALSE
    OBVIOUS
  <2>1. PICK k \in 0 .. len - 1 : r = at[k]
    BY DEF Visited
  <2> DEFINE m == k + 1
  <2>2. m \in 1 .. NPages /\ m \in 0 .. NPages - 1 /\ m - 1 = k /\ m \in Nat
    BY <1>1, <1>3
  <2> HIDE DEF m
  <2>3. at[m] = p
    BY <1>1, <1>2, <1>5, <2>1, <2>2 DEF Along
  <2>4. m < len
    BY <1>1, <2>2, <2>3 DEF Along
  <2>5. m \in 0 .. len - 1
    BY <1>1, <2>2, <2>4
  <2> QED
    BY <2>3, <2>5 DEF Visited
<1> QED
  BY <1>2, <1>5, <1>6 DEF r

\* The walk misses no page of the list: the missed ones would be endlessly many.
LEMMA WalkAll ==
    ASSUME NEW nx, NEW pv, NEW own, NEW rk, NEW head, NEW at, NEW len,
           Walking(nx, pv, own, rk, head, at, len)
    PROVE  Visited(at, len) = {p \in Pages : own[p] = head}
<1> DEFINE V == Visited(at, len)
           W == {p \in Pages : own[p] = head /\ p \notin V}
           T == {n \in Nat : \A p \in W : \E S \in SUBSET W :
                   Cardinality(S) = n /\ \A r \in S : rk[p] <= rk[r]}
<1>1. NPages \in Nat /\ rk \in [Pages \cup Heads -> Nat]
  BY SlabAssumption DEF Walking, Linked, LinkedTypes
<1>2. ASSUME NEW p \in W PROVE pv[p].ref \in W /\ rk[p] < rk[pv[p].ref]
  BY WalkMissed
<1>3. \A p \in W : p \in Pages /\ rk[p] \in Nat
  BY <1>1
<1>4. W \subseteq Pages
  OBVIOUS
<1>5. \A p \in V : p \in Pages /\ own[p] = head
  BY WalkBack DEF Visited
<1> HIDE DEF V, W
<1>6. 0 \in T
  <2>1. {} \in SUBSET W /\ Cardinality({}) = 0
    BY FS_EmptySet
  <2> QED
    BY <2>1
<1>7. ASSUME NEW n \in Nat, n \in T PROVE n + 1 \in T
  <2> SUFFICES ASSUME NEW p \in W
               PROVE  \E S \in SUBSET W :
                        Cardinality(S) = n + 1 /\ \A r \in S : rk[p] <= rk[r]
    OBVIOUS
  <2> DEFINE q == pv[p].ref
  <2>1. q \in W /\ rk[p] < rk[q]
    BY <1>2
  <2> HIDE DEF q
  <2>2. PICK S \in SUBSET W : Cardinality(S) = n /\ \A r \in S : rk[q] <= rk[r]
    BY <1>7, <2>1
  <2>3. rk[p] \in Nat /\ rk[q] \in Nat /\ \A r \in S : rk[r] \in Nat
    BY <1>3, <2>1, <2>2
  <2>4. p \notin S /\ \A r \in S \cup {p} : rk[p] <= rk[r]
    BY <2>1, <2>2, <2>3
  <2>5. IsFiniteSet(S)
    BY <1>4, <2>2, PagesFinite
  <2>6. Cardinality(S \cup {p}) = n + 1
    BY <2>2, <2>4, <2>5, FS_AddElement
  <2>7. S \cup {p} \in SUBSET W
    BY <2>2
  <2> QED
    BY <2>4, <2>6, <2>7
<1> HIDE DEF T
<1>8. NPages + 1 \in T
  BY <1>1, <1>6, <1>7, AllNaturals
<1>9. W = {}
  <2> SUFFICES ASSUME NEW p \in W PROVE FALSE
    OBVIOUS
  <2>1. PICK S \in SUBSET W : Cardinality(S) = NPages + 1
    BY <1>8 DEF T
  <2>2. Cardinality(S) <= NPages
    BY <1>4, <2>1, PagesFinite
  <2> QED
    BY <1>1, <2>1, <2>2
<1>10. V = {p \in Pages : own[p] = head}
  BY <1>5, <1>9 DEF W
<1> QED
  BY <1>10 DEF V

\* l holds exactly the members, with back pointers and types.
ExactList(l, pv, head, members, types) ==
    /\ Len(l) = Cardinality(members) /\ ToSet(l) = members
    /\ \A k \in 1 .. Len(l) :
          /\ pv[l[k]].ref = (IF k = 1 THEN head ELSE l[k - 1])
          /\ pv[l[k]].type = types

\* What List returns for a head: exactly the pages that belong to it.
LEMMA ListIs ==
    ASSUME NEW nx, NEW pv, NEW own, NEW rk, Linked(nx, pv, own, rk), NEW head \in Heads
    PROVE  ExactList(List(nx, head), pv, head, {p \in Pages : own[p] = head}, KindIn(head))
<1> DEFINE l == List(nx, head)
<1>1. nx \in [Pages \cup Heads -> Refs]
  BY DEF Linked, LinkedTypes
<1>2. PICK at, len : Along(nx, head, at, len)
  BY <1>1, ListAlong
<1>3. Walking(nx, pv, own, rk, head, at, len)
  BY <1>2 DEF Walking
<1>4. l = [k \in 1 .. len |-> at[k - 1]] /\ len \in 0 .. NPages /\ NPages \in Nat
  BY <1>2, SlabAssumption DEF Along
<1> HIDE DEF l
<1>5. Len(l) = len /\ DOMAIN l = 1 .. len
  BY <1>4
<1>6. Visited(at, len) = {p \in Pages : own[p] = head} /\ Cardinality(Visited(at, len)) = len
  BY <1>3, WalkAll, WalkCount
<1>7. ToSet(l) = Visited(at, len)
  <2>1. ASSUME NEW k \in 1 .. len PROVE l[k] \in Visited(at, len)
    <3>1. l[k] = at[k - 1] /\ k - 1 \in 0 .. len - 1
      BY <1>4
    <3> QED
      BY <3>1 DEF Visited
  <2>2. ASSUME NEW k \in 0 .. len - 1 PROVE \E j \in 1 .. len : l[j] = at[k]
    <3>1. k + 1 \in 1 .. len /\ (k + 1) - 1 = k
      BY <1>4
    <3>2. l[k + 1] = at[k]
      BY <1>4, <3>1
    <3> QED
      BY <3>1, <3>2
  <2>3. ToSet(l) = {l[k] : k \in 1 .. len}
    BY <1>5 DEF ToSet
  <2>4. {l[k] : k \in 1 .. len} = {at[k] : k \in 0 .. len - 1}
    BY <2>1, <2>2 DEF Visited
  <2> QED
    BY <2>3, <2>4 DEF Visited
<1>8. ASSUME NEW k \in 1 .. len
      PROVE  /\ pv[l[k]].ref = IF k = 1 THEN head ELSE l[k - 1]
             /\ pv[l[k]].type = KindIn(head)
  <2> DEFINE j == k - 1
  <2>1. j \in 0 .. len - 1 /\ l[k] = at[j] /\ (j = 0 <=> k = 1)
    BY <1>4
  <2>2. k # 1 => l[k - 1] = at[j - 1]
    <3> SUFFICES ASSUME k # 1 PROVE l[k - 1] = at[j - 1]
      OBVIOUS
    <3>1. k - 1 \in 1 .. len
      BY <1>4
    <3> QED
      BY <1>4, <3>1
  <2> HIDE DEF j
  <2>3. /\ pv[at[j]].type = KindIn(head)
        /\ pv[at[j]].ref = IF j = 0 THEN head ELSE at[j - 1]
    BY <1>3, <2>1, WalkBack
  <2> QED
    BY <2>1, <2>2, <2>3
<1> QED
  BY <1>5, <1>6, <1>7, <1>8 DEF l, ExactList

LEMMA ListsAre == Core => ListsExact
<1> SUFFICES ASSUME Core PROVE ListsExact
  OBVIOUS
<1> DEFINE own == Own(slab, bits, Null)
<1>1. /\ slab \in [Pages -> Words] /\ Loose(slab, bits)
  BY LayoutFacts
<1>2. PICK rk : Linked(next, prev, own, rk)
  BY LayoutFacts
<1>3. ASSUME NEW p \in Pages
      PROVE  /\ own[p] = ListOf(slab[p], bits[p])
             /\ slab[p].tag = "cut" => slab[p].n \in Shifts
  BY <1>1, OwnAt, RefsApart DEF Loose, Shifts
<1> HIDE DEF own
<1>4. {p \in Pages : own[p] = Free} = FreeRuns
  <2>1. ASSUME NEW p \in Pages
        PROVE  own[p] = Free <=> slab[p].tag = "run" /\ slab[p].n > 0
    <3>1. CASE IsRun(slab[p])
      BY <1>3, <3>1 DEF ListOf, IsRun
    <3>2. CASE ~IsRun(slab[p])
      <4>1. slab[p].tag = "cut" => SlotHead(slab[p].n - MinShift) # Free
        BY <1>3, RefsApart
      <4> QED
        BY <1>3, <3>2, <4>1, RefsApart DEF ListOf, IsRun
    <3> QED
      BY <3>1, <3>2
  <2> QED
    BY <2>1 DEF FreeRuns
<1>5. ASSUME NEW i \in Slots
      PROVE  {p \in Pages : own[p] = SlotHead(i)} = PartialPages(i)
  <2>1. ASSUME NEW p \in Pages
        PROVE  own[p] = SlotHead(i) <=> /\ slab[p].tag = "cut" /\ slab[p].n = i + MinShift
                                        /\ bits[p] # Chunks(slab[p].n)
    <3>1. SlotHead(i) # Free /\ SlotHead(i) # Null
      BY RefsApart
    <3>2. CASE slab[p].tag # "cut"
      BY <1>3, <3>1, <3>2 DEF ListOf
    <3>3. CASE slab[p].tag = "cut"
      <4>1. own[p] = IF bits[p] # Chunks(slab[p].n) THEN SlotHead(slab[p].n - MinShift) ELSE Null
        BY <1>3, <3>3 DEF ListOf, IsRun
      <4>2. SlotHead(slab[p].n - MinShift) = SlotHead(i) <=> slab[p].n = i + MinShift
        <5>1. NPages \in Nat /\ MinShift \in Nat /\ slab[p].n \in Int /\ i \in Int
          BY <1>3, <3>3, SlabAssumption DEF Shifts, Slots
        <5> QED
          BY <5>1 DEF SlotHead
      <4> QED
        BY <3>1, <3>3, <4>1, <4>2
    <3> QED
      BY <3>2, <3>3
  <2> QED
    BY <2>1 DEF PartialPages, CutPages
<1>6. Free \in Heads /\ KindIn(Free) = "PAGE"
  BY RefsApart DEF KindIn
<1>7. ASSUME NEW i \in Slots
      PROVE  SlotHead(i) \in Heads /\ KindIn(SlotHead(i)) = TypeFor(i + MinShift)
  BY RefsApart
<1>8. ASSUME NEW head \in Heads
      PROVE  ExactList(List(next, head), prev, head, {p \in Pages : own[p] = head}, KindIn(head))
  BY <1>2, ListIs
<1>9. ExactList(List(next, Free), prev, Free, FreeRuns, "PAGE")
  BY <1>4, <1>6, <1>8
<1>10. ASSUME NEW i \in Slots
       PROVE  ExactList(List(next, SlotHead(i)), prev, SlotHead(i), PartialPages(i),
                        TypeFor(i + MinShift))
  BY <1>5, <1>7, <1>8
<1> QED
  BY <1>9, <1>10 DEF ListsExact, ExactList

\* dl_slab_alloc never passes over room: each list holds exactly the pages that
\* belong to it, once each, with back pointers that unlinking can trust.
THEOREM ListsAreExact == Spec => []ListsExact
BY LayoutInvariance, SoundIsCore, ListsAre, PTL
================================================================================
