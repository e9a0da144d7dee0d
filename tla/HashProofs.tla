------------------------------- MODULE HashProofs -------------------------------
(***************************************************************************)
(* Proofs about dl_hash.c and dl_phash.c for every number of slots and     *)
(* nodes and every set of keys and values.  The argument is about the      *)
(* cells: a ghost says which cells hang in each slot's chain and in which  *)
(* order, and every function of the code is shown to keep it.              *)
(***************************************************************************)
EXTENDS Hash, Induction, FiniteSetTheorems, TLAPS

-------------------------------------------------------------------------------
(* Keys and slots.                                                           *)

\* The steps of the loop of dl_hash_key.
Hashing(key, w, i) == IF i = 0 THEN 0 ELSE (w[i - 1] * Radix + key[i]) % UintMod
Hashed(key, n, w) == w = [i \in 0 .. n |-> Hashing(key, w, i)]

\* dl_hash_key answers a natural number.
LEMMA HashKeyNat ==
    ASSUME HashSizes, NEW key \in Seq(Nat)
    PROVE  dl_hash_key(key) \in Nat
<1> DEFINE n == IF Len(key) > HashLen THEN HashLen ELSE Len(key)
           byte(i) == IF i \in 1 .. n THEN key[i] ELSE 0
           F == [x \in Nat \X Nat |-> (x[1] * Radix + byte(x[2])) % UintMod]
           w == CHOOSE g : Hashed(key, n, g)
<1>1. n \in Nat /\ Radix \in Nat /\ UintMod \in Nat \ {0} /\ n <= Len(key) /\ Len(key) \in Nat
  BY DEF HashSizes
<1>2. \A i \in 1 .. n : key[i] \in Nat
  BY <1>1
<1>3. dl_hash_key(key) = w[n]
  BY DEF dl_hash_key, Hashed, Hashing
<1> HIDE DEF n
<1>4. ASSUME NEW a \in Nat, NEW b \in Nat PROVE (a * Radix + b) % UintMod \in Nat
  <2>1. a * Radix \in Nat
    BY <1>1
  <2>2. a * Radix + b \in Nat
    BY <2>1
  <2> DEFINE c == a * Radix + b
  <2> HIDE DEF c
  <2>3. c \in Nat => c % UintMod \in Nat
    BY <1>1
  <2> QED
    BY <2>2, <2>3 DEF c
<1>5. \A i \in Nat : byte(i) \in Nat
  BY <1>2
<1>6. F \in [Nat \X Nat -> Nat]
  <2>1. ASSUME NEW x \in Nat \X Nat PROVE (x[1] * Radix + byte(x[2])) % UintMod \in Nat
    <3>1. x[1] \in Nat /\ x[2] \in Nat
      OBVIOUS
    <3> HIDE DEF byte
    <3> QED
      BY <3>1, <1>4, <1>5
  <2> HIDE DEF byte
  <2> QED
    BY <2>1
<1>8. PICK g \in [0 .. n -> Nat] : Stepwise(g, 0, F, n)
  BY <1>1, <1>6, StepsExist
<1>9. ASSUME NEW k \in 0 .. n PROVE g[k] = Hashing(key, g, k)
  <2>1. CASE k = 0
    BY <1>8, <2>1 DEF Stepwise, Hashing
  <2>2. CASE k # 0
    <3>1. k \in 1 .. n /\ k - 1 \in 0 .. n /\ k \in Nat
      BY <1>1, <2>2
    <3>2. <<g[k - 1], k>> \in Nat \X Nat
      BY <1>8, <3>1
    <3>3. F[<<g[k - 1], k>>] = (g[k - 1] * Radix + byte(k)) % UintMod
      BY <3>2
    <3>4. byte(k) = key[k]
      BY <3>1
    <3> HIDE DEF F, byte
    <3>5. g[k] = F[<<g[k - 1], k>>]
      BY <1>8, <3>1 DEF Stepwise
    <3> QED
      BY <2>2, <3>3, <3>4, <3>5 DEF Hashing
  <2> QED
    BY <2>1, <2>2
<1>10. Hashed(key, n, g)
  <2>1. g = [k \in 0 .. n |-> g[k]]
    BY <1>8
  <2> QED
    BY <1>9, <2>1 DEF Hashed
<1>11. Hashed(key, n, w)
  BY <1>10
<1> HIDE DEF w
<1> DEFINE T == {k \in Nat : k <= n => w[k] \in Nat}
<1>12. \A k \in 0 .. n : w[k] = Hashing(key, w, k)
  BY <1>11 DEF Hashed
<1>13. 0 \in T
  <2>1. 0 \in 0 .. n
    BY <1>1
  <2> QED
    BY <1>12, <2>1 DEF Hashing
<1>14. ASSUME NEW k \in Nat, k \in T PROVE k + 1 \in T
  <2>1. SUFFICES ASSUME k + 1 <= n PROVE w[k + 1] \in Nat
    OBVIOUS
  <2>2. k + 1 \in 0 .. n /\ k + 1 \in 1 .. n /\ k + 1 # 0 /\ (k + 1) - 1 = k /\ k <= n
    BY <1>1, <2>1
  <2>3. w[k] \in Nat /\ key[k + 1] \in Nat
    BY <1>2, <1>14, <2>2
  <2>4. w[k + 1] = (w[k] * Radix + key[k + 1]) % UintMod
    BY <1>12, <2>2 DEF Hashing
  <2> QED
    BY <1>4, <2>3, <2>4
<1> HIDE DEF T
<1>15. n \in T
  BY <1>1, <1>13, <1>14, AllNaturals
<1> QED
  BY <1>1, <1>3, <1>15 DEF T

\* h_key % h->slot_total is a slot.
LEMMA SlotOfType ==
    ASSUME HashSizes, NEW key \in Seq(Nat)
    PROVE  SlotOf(key) \in 1 .. Slots
<1> DEFINE x == dl_hash_key(key)
<1>1. x \in Nat /\ Slots \in Nat \ {0}
  BY HashKeyNat DEF HashSizes
<1> HIDE DEF x
<1>2. x % Slots \in 0 .. Slots - 1
  BY <1>1
<1>3. SlotOf(key) = 1 + (x % Slots)
  BY DEF SlotOf, x
<1> QED
  BY <1>1, <1>2, <1>3

-------------------------------------------------------------------------------
(* Chains.                                                                   *)

Links == {Null} \cup (Slots + 1) .. (Slots + MaxNodes)
Stored == {fill_v(v) : v \in Values}
CellRecords == [key : Seq(Nat), hash : Nat, next : Links, vals : Seq(Stored)]

\* q is what one sees from cell s on: each cell once, up to one without next.
IsChain(h, s, q) ==
    /\ q \in Seq(Cells) /\ Len(q) # 0 /\ q[1] = s
    /\ \A i \in 1 .. Len(q) : h[q[i]].next = IF i = Len(q) THEN Null ELSE q[i + 1]
    /\ \A i, j \in 1 .. Len(q) : q[i] = q[j] => i = j

\* Behind its first cell a chain has none of the slots.
LEMMA ChainBehind ==
    ASSUME HashSizes, NEW h \in [Cells -> CellRecords], NEW s \in 1 .. Slots, NEW q,
           IsChain(h, s, q), NEW i \in 1 .. Len(q), i # 1
    PROVE  q[i] \in (Slots + 1) .. (Slots + MaxNodes)
<1>1. q \in Seq(Cells) /\ Len(q) \in Nat /\ i - 1 \in 1 .. Len(q) /\ i - 1 # Len(q)
  BY DEF IsChain
<1>2. q[i] = h[q[i - 1]].next
  <2>1. h[q[i - 1]].next = IF i - 1 = Len(q) THEN Null ELSE q[(i - 1) + 1]
    BY <1>1 DEF IsChain
  <2>2. (i - 1) + 1 = i
    BY <1>1
  <2> QED
    BY <1>1, <2>1, <2>2
<1>3. q[i - 1] \in Cells /\ q[i] \in Cells
  BY <1>1
<1>4. h[q[i - 1]].next \in Links
  BY <1>3 DEF CellRecords
<1>5. q[i] # Null
  BY <1>3 DEF Cells, Null
<1> QED
  BY <1>2, <1>4, <1>5 DEF Links

\* A chain has no more cells than there are.
LEMMA ChainShort ==
    ASSUME HashSizes, NEW h \in [Cells -> CellRecords], NEW s \in 1 .. Slots, NEW q,
           IsChain(h, s, q)
    PROVE  Len(q) \in Nat /\ Len(q) <= MaxNodes + 1
<1> DEFINE n == Len(q)
           f == [i \in 1 .. n |-> IF i = 1 THEN 0 ELSE q[i] - Slots]
<1>1. n \in Nat /\ MaxNodes \in Nat /\ Slots \in Nat
  BY DEF HashSizes, IsChain
<1>2. \A i \in 1 .. n : i # 1 => q[i] \in (Slots + 1) .. (Slots + MaxNodes)
  BY ChainBehind
<1>3. \A i, j \in 1 .. n : q[i] = q[j] => i = j
  BY DEF IsChain
<1> HIDE DEF n
<1>4. f \in [1 .. n -> 0 .. MaxNodes]
  BY <1>1, <1>2
<1>5. \A i, j \in 1 .. n : f[i] = f[j] => i = j
  <2>1. SUFFICES ASSUME NEW i \in 1 .. n, NEW j \in 1 .. n, f[i] = f[j], i # j PROVE FALSE
    OBVIOUS
  <2>2. i # 1 => q[i] - Slots \in 1 .. MaxNodes
    BY <1>1, <1>2
  <2>3. j # 1 => q[j] - Slots \in 1 .. MaxNodes
    BY <1>1, <1>2
  <2>4. i # 1 /\ j # 1
    BY <2>1, <2>2, <2>3
  <2>5. q[i] = q[j]
    <3>1. q[i] \in Int /\ q[j] \in Int /\ q[i] - Slots = q[j] - Slots
      BY <1>1, <1>2, <2>1, <2>4
    <3> DEFINE a == q[i]
               b == q[j]
    <3> HIDE DEF a, b
    <3>2. a \in Int /\ b \in Int /\ a - Slots = b - Slots
      BY <3>1 DEF a, b
    <3>3. a = b
      BY <1>1, <3>2
    <3> QED
      BY <3>3 DEF a, b
  <2> QED
    BY <1>3, <2>1, <2>5
<1>6. IsFiniteSet(1 .. n) /\ IsFiniteSet(0 .. MaxNodes)
  BY <1>1, FS_Interval
<1>7. Cardinality(1 .. n) = n /\ Cardinality(0 .. MaxNodes) = MaxNodes + 1
  BY <1>1, FS_Interval
<1> HIDE DEF f
<1>8. ~(MaxNodes + 1 < n)
  <2> DEFINE A == 1 .. n
             B == 0 .. MaxNodes
  <2>1. SUFFICES ASSUME MaxNodes + 1 < n PROVE FALSE
    OBVIOUS
  <2>2. Cardinality(B) < Cardinality(A)
    BY <1>7, <2>1
  <2>3. IsFiniteSet(A) /\ IsFiniteSet(B) /\ f \in [A -> B]
    BY <1>4, <1>6
  <2> HIDE DEF A, B
  <2>4. \E x, y \in A : x # y /\ f[x] = f[y]
    BY <2>2, <2>3, FS_PigeonHole
  <2> QED
    BY <1>5, <2>4 DEF A
<1> QED
  BY <1>1, <1>8 DEF n

\* The steps that Chain takes: where one is after k of them.
Stepped(h, slot, w, k) ==
    IF k = 0 THEN slot ELSE IF w[k - 1] = Null THEN Null ELSE h[w[k - 1]].next
Walked(h, slot, w) == w = [k \in 0 .. MaxNodes + 1 |-> Stepped(h, slot, w, k)]

LEMMA WalkExists ==
    ASSUME HashSizes, NEW h \in [Cells -> CellRecords], NEW s \in 1 .. Slots
    PROVE  \E w : Walked(h, s, w)
<1> DEFINE n == MaxNodes + 1
           S == Cells \cup {Null}
           F == [x \in S \X Nat |-> IF x[1] = Null THEN Null ELSE h[x[1]].next]
<1>1. n \in Nat /\ s \in S
  BY DEF HashSizes, Cells
<1>2. F \in [S \X Nat -> S]
  <2>1. ASSUME NEW x \in S \X Nat PROVE (IF x[1] = Null THEN Null ELSE h[x[1]].next) \in S
    <3>1. x[1] \in S
      OBVIOUS
    <3>2. CASE x[1] = Null
      BY <3>2
    <3>3. CASE x[1] # Null
      <4>1. h[x[1]].next \in Links
        BY <3>1, <3>3 DEF CellRecords
      <4>2. Links \subseteq S
        BY DEF Links, Cells, HashSizes
      <4> QED
        BY <3>3, <4>1, <4>2
    <3> QED
      BY <3>2, <3>3
  <2> HIDE DEF S
  <2> QED
    BY <2>1
<1> HIDE DEF F, n
<1>3. PICK w \in [0 .. n -> S] : Stepwise(w, s, F, n)
  BY <1>1, <1>2, StepsExist
<1>4. ASSUME NEW k \in 0 .. n PROVE w[k] = Stepped(h, s, w, k)
  <2>1. CASE k = 0
    BY <1>3, <2>1 DEF Stepwise, Stepped
  <2>2. CASE k # 0
    <3>1. k \in 1 .. n /\ k - 1 \in 0 .. n /\ k \in Nat
      BY <1>1, <2>2
    <3>2. <<w[k - 1], k>> \in S \X Nat
      BY <1>3, <3>1
    <3>3. F[<<w[k - 1], k>>] = IF w[k - 1] = Null THEN Null ELSE h[w[k - 1]].next
      BY <3>2 DEF F
    <3>4. w[k] = F[<<w[k - 1], k>>]
      BY <1>3, <3>1 DEF Stepwise
    <3> QED
      BY <2>2, <3>3, <3>4 DEF Stepped
  <2> QED
    BY <2>1, <2>2
<1>5. w = [k \in 0 .. n |-> w[k]]
  BY <1>3
<1>6. Walked(h, s, w)
  BY <1>4, <1>5 DEF Walked, n
<1> QED
  BY <1>6

\* A walk along a chain meets its cells in order and then nothing.
LEMMA WalkAlong ==
    ASSUME HashSizes, NEW h \in [Cells -> CellRecords], NEW s \in 1 .. Slots,
           NEW q, IsChain(h, s, q), NEW w, Walked(h, s, w), NEW k \in 0 .. MaxNodes + 1
    PROVE  w[k] = IF k < Len(q) THEN q[k + 1] ELSE Null
<1> DEFINE n == MaxNodes + 1
           l == Len(q)
           T == {j \in Nat : j <= n => w[j] = IF j < l THEN q[j + 1] ELSE Null}
<1>1. n \in Nat /\ l \in Nat /\ l # 0 /\ l <= n /\ q[1] = s
  BY ChainShort DEF IsChain, HashSizes
<1>2. \A j \in 0 .. n : w[j] = Stepped(h, s, w, j)
  BY DEF Walked
<1>3. \A i \in 1 .. l : h[q[i]].next = (IF i = l THEN Null ELSE q[i + 1]) /\ q[i] # Null
  <2>1. ASSUME NEW i \in 1 .. l PROVE q[i] # Null
    <3>1. q[i] \in Cells
      BY DEF IsChain
    <3> QED
      BY <3>1 DEF Cells, Null
  <2> QED
    BY <2>1 DEF IsChain
<1> HIDE DEF n, l
<1>4. 0 \in T
  <2>1. w[0] = s
    BY <1>1, <1>2 DEF Stepped
  <2> QED
    BY <1>1, <2>1
<1>5. ASSUME NEW j \in Nat, j \in T PROVE j + 1 \in T
  <2>1. SUFFICES ASSUME j + 1 <= n
                 PROVE w[j + 1] = IF j + 1 < l THEN q[(j + 1) + 1] ELSE Null
    OBVIOUS
  <2>2. w[j + 1] = IF w[j] = Null THEN Null ELSE h[w[j]].next
    <3>1. j + 1 \in 0 .. n /\ j + 1 # 0 /\ (j + 1) - 1 = j
      BY <1>1, <2>1
    <3> QED
      BY <1>2, <3>1 DEF Stepped
  <2>3. w[j] = IF j < l THEN q[j + 1] ELSE Null
    BY <1>1, <1>5, <2>1
  <2>4. CASE j < l
    <3>1. j + 1 \in 1 .. l
      BY <1>1, <2>4
    <3>2. w[j + 1] = h[q[j + 1]].next
      BY <1>3, <2>2, <2>3, <2>4, <3>1
    <3>3. w[j + 1] = IF j + 1 = l THEN Null ELSE q[(j + 1) + 1]
      BY <1>3, <3>1, <3>2
    <3>4. (j + 1 = l) <=> ~(j + 1 < l)
      BY <1>1, <3>1
    <3> QED
      BY <3>3, <3>4
  <2>5. CASE ~(j < l)
    BY <1>1, <2>2, <2>3, <2>5
  <2> QED
    BY <2>4, <2>5
<1> HIDE DEF T
<1>6. k \in T /\ k <= n /\ k \in Nat
  BY <1>1, <1>4, <1>5, AllNaturals DEF n
<1> QED
  BY <1>6 DEF T, l

\* What Chain answers for a slot that is in use.
LEMMA ChainIs ==
    ASSUME HashSizes, NEW h \in [Cells -> CellRecords], NEW s \in 1 .. Slots,
           NEW q, IsChain(h, s, q), h[s].vals # <<>>
    PROVE  Chain(h, s) = q
<1> DEFINE w == CHOOSE g : Walked(h, s, g)
           l == Len(q)
           n == Cardinality({k \in 0 .. MaxNodes + 1 : w[k] # Null})
<1>1. Chain(h, s) = [i \in 1 .. n |-> w[i - 1]]
  BY DEF Chain, Walked, Stepped
<1>2. Walked(h, s, w)
  BY WalkExists
<1>3. l \in Nat /\ l <= MaxNodes + 1 /\ MaxNodes + 1 \in Nat
  BY ChainShort DEF HashSizes
<1>4. q \in Seq(Cells)
  BY DEF IsChain
<1>5. \A i \in 1 .. l : q[i] \in Cells /\ q[i] # Null
  <2>1. Null \notin Cells
    BY DEF Cells, Null
  <2> QED
    BY <1>4, <2>1
<1> HIDE DEF w
<1>6. \A k \in 0 .. MaxNodes + 1 : w[k] = IF k < l THEN q[k + 1] ELSE Null
  BY <1>2, WalkAlong
<1>7. {k \in 0 .. MaxNodes + 1 : w[k] # Null} = 0 .. l - 1
  <2>1. ASSUME NEW k \in 0 .. MaxNodes + 1 PROVE w[k] # Null <=> k \in 0 .. l - 1
    <3>1. CASE k < l
      <4>1. k + 1 \in 1 .. l /\ k \in 0 .. l - 1
        BY <1>3, <3>1
      <4> QED
        BY <1>5, <1>6, <3>1, <4>1
    <3>2. CASE ~(k < l)
      BY <1>3, <1>6, <3>2
    <3> QED
      BY <3>1, <3>2
  <2>2. \A k \in 0 .. l - 1 : k \in 0 .. MaxNodes + 1
    BY <1>3
  <2> QED
    BY <2>1, <2>2
<1> HIDE DEF l
<1>8. n = l
  <2>1. Cardinality(0 .. l - 1) = IF 0 > l - 1 THEN 0 ELSE (l - 1) - 0 + 1
    BY <1>3, FS_Interval
  <2>2. Cardinality(0 .. l - 1) = l
    BY <1>3, <2>1
  <2> QED
    BY <1>7, <2>2
<1> HIDE DEF n
<1>9. \A i \in 1 .. l : w[i - 1] = q[i]
  <2>1. ASSUME NEW i \in 1 .. l PROVE w[i - 1] = q[i]
    <3>1. i - 1 \in 0 .. MaxNodes + 1 /\ i - 1 < l /\ (i - 1) + 1 = i
      BY <1>3
    <3> QED
      BY <1>6, <3>1
  <2> QED
    BY <2>1
<1>10. q = [i \in 1 .. l |-> q[i]]
  BY <1>4 DEF l
<1> QED
  BY <1>1, <1>8, <1>9, <1>10

-------------------------------------------------------------------------------
(* What the table looks like between the calls.                              *)

\* A cell in the chain of slot s.
Belongs(cell, s) ==
    cell.vals # <<>> /\ SlotOf(cell.key) = s /\ cell.hash = dl_hash_key(cell.key)

SlotKept(h, s, q) ==
    /\ q \in Seq(Cells)
    /\ q = <<>> => h[s].vals = <<>>
    /\ q # <<>> => IsChain(h, s, q)
    /\ \A i \in 1 .. Len(q) : Belongs(h[q[i]], s)

\* Q gives the chain of each slot: nothing else is in use.
Layout(h, Q) ==
    /\ h \in [Cells -> CellRecords]
    /\ Q \in [1 .. Slots -> Seq(Cells)]
    /\ \A s \in 1 .. Slots : SlotKept(h, s, Q[s])
    /\ \A c \in Cells : h[c].vals # <<>> => c \in ToSet(Q[SlotOf(h[c].key)])

LEMMA InChain ==
    ASSUME NEW q \in Seq(Cells), NEW c
    PROVE  c \in ToSet(q) <=> \E i \in 1 .. Len(q) : q[i] = c
BY DEF ToSet

\* The first cell of a chain is its slot, and the others are none.
LEMMA SlotInChain ==
    ASSUME HashSizes, NEW h \in [Cells -> CellRecords], NEW s \in 1 .. Slots,
           NEW t \in 1 .. Slots, NEW q, SlotKept(h, s, q), t \in ToSet(q)
    PROVE  t = s /\ q # <<>>
<1>1. q \in Seq(Cells)
  BY DEF SlotKept
<1>2. PICK i \in 1 .. Len(q) : q[i] = t
  BY <1>1, InChain
<1>3. q # <<>> /\ IsChain(h, s, q)
  <2>1. Len(<<>>) = 0
    OBVIOUS
  <2>2. q # <<>>
    BY <1>2, <2>1
  <2> QED
    BY <2>2 DEF SlotKept
<1>4. i # 1 => t \in (Slots + 1) .. (Slots + MaxNodes)
  BY <1>2, <1>3, ChainBehind
<1>5. i = 1
  BY <1>4 DEF HashSizes
<1> QED
  BY <1>2, <1>3, <1>5 DEF IsChain

\* A cell in use is in the chain of its key's slot only.
LEMMA ChainOf ==
    ASSUME HashSizes, NEW h, NEW Q, Layout(h, Q), NEW s \in 1 .. Slots, NEW c \in Cells
    PROVE  c \in ToSet(Q[s]) <=> (h[c].vals # <<>> /\ SlotOf(h[c].key) = s)
<1>1. Q[s] \in Seq(Cells) /\ SlotKept(h, s, Q[s])
  BY DEF Layout
<1>2. ASSUME c \in ToSet(Q[s]) PROVE h[c].vals # <<>> /\ SlotOf(h[c].key) = s
  <2>1. PICK i \in 1 .. Len(Q[s]) : Q[s][i] = c
    BY <1>1, <1>2, InChain
  <2>2. Belongs(h[c], s)
    BY <1>1, <2>1 DEF SlotKept
  <2> QED
    BY <2>2 DEF Belongs
<1>3. ASSUME h[c].vals # <<>>, SlotOf(h[c].key) = s PROVE c \in ToSet(Q[s])
  BY <1>3 DEF Layout
<1> QED
  BY <1>2, <1>3

\* A call that changes one slot: the rest stays as it was.
LEMMA Relayout ==
    ASSUME HashSizes, NEW h, NEW Q, Layout(h, Q), NEW s \in 1 .. Slots,
           NEW g \in [Cells -> CellRecords], NEW q, SlotKept(g, s, q),
           \A c \in Cells : g[c].vals # <<>> /\ c \notin ToSet(q) =>
                                g[c] = h[c] /\ c \notin ToSet(Q[s]),
           \A c \in Cells : h[c].vals # <<>> /\ SlotOf(h[c].key) # s => g[c] = h[c]
    PROVE  Layout(g, [Q EXCEPT ![s] = q])
<1> DEFINE R == [Q EXCEPT ![s] = q]
<1>1. Q \in [1 .. Slots -> Seq(Cells)] /\ q \in Seq(Cells) /\ h \in [Cells -> CellRecords]
  BY DEF Layout, SlotKept
<1>2. R \in [1 .. Slots -> Seq(Cells)] /\ R[s] = q /\ \A t \in 1 .. Slots : t # s => R[t] = Q[t]
  BY <1>1
<1> HIDE DEF R
<1>3. 1 .. Slots \subseteq Cells
  BY DEF Cells, HashSizes
<1>4. ASSUME NEW t \in 1 .. Slots PROVE SlotKept(g, t, R[t])
  <2>1. CASE t = s
    BY <1>2, <2>1
  <2>2. CASE t # s
    <3> DEFINE r == Q[t]
    <3>1. SlotKept(h, t, r) /\ R[t] = r /\ r \in Seq(Cells)
      BY <1>1, <1>2, <2>2 DEF Layout
    <3>2. \A i \in 1 .. Len(r) : g[r[i]] = h[r[i]]
      <4>1. ASSUME NEW i \in 1 .. Len(r) PROVE g[r[i]] = h[r[i]]
        <5>1. r[i] \in Cells /\ Belongs(h[r[i]], t)
          BY <3>1 DEF SlotKept
        <5> QED
          BY <2>2, <5>1 DEF Belongs
      <4> QED
        BY <4>1
    <3> HIDE DEF r
    <3>3. r = <<>> => g[t].vals = <<>>
      <4>1. t \notin ToSet(q)
        BY <2>2, SlotInChain
      <4>2. r = <<>> => h[t].vals = <<>>
        BY <3>1 DEF SlotKept
      <4> QED
        BY <1>3, <4>1, <4>2
    <3>4. r # <<>> => IsChain(g, t, r)
      BY <3>1, <3>2 DEF SlotKept, IsChain
    <3>5. \A i \in 1 .. Len(r) : Belongs(g[r[i]], t)
      BY <3>1, <3>2 DEF SlotKept
    <3> QED
      BY <3>1, <3>3, <3>4, <3>5 DEF SlotKept
  <2> QED
    BY <2>1, <2>2
<1>5. ASSUME NEW c \in Cells, g[c].vals # <<>> PROVE c \in ToSet(R[SlotOf(g[c].key)])
  <2>1. CASE c \in ToSet(q)
    <3>1. PICK i \in 1 .. Len(q) : q[i] = c
      BY <1>1, <2>1, InChain
    <3>2. SlotOf(g[c].key) = s
      BY <3>1 DEF SlotKept, Belongs
    <3> QED
      BY <1>2, <2>1, <3>2
  <2>2. CASE c \notin ToSet(q)
    <3>1. g[c] = h[c] /\ c \notin ToSet(Q[s])
      BY <1>5, <2>2
    <3>2. c \in ToSet(Q[SlotOf(h[c].key)])
      BY <1>5, <3>1 DEF Layout
    <3>3. h[c].key \in Seq(Nat)
      BY <1>1 DEF CellRecords
    <3>4. SlotOf(h[c].key) \in 1 .. Slots
      BY <3>3, SlotOfType
    <3> QED
      BY <1>2, <3>1, <3>2, <3>4
  <2> QED
    BY <2>1, <2>2
<1> QED
  BY <1>2, <1>4, <1>5 DEF Layout, R

-------------------------------------------------------------------------------
(* The functions of the code, one after the other.                           *)

LEMMA FilledType ==
    ASSUME HashSizes, NEW key \in Seq(Nat), NEW v \in Values, NEW next \in Links
    PROVE  /\ Filled(key, v, next) \in CellRecords
           /\ Filled(key, v, next).next = next
           /\ Belongs(Filled(key, v, next), SlotOf(key))
<1>1. dl_hash_key(key) \in Nat
  BY HashKeyNat
<1>2. fill_v(v) \in Stored
  BY DEF Stored
<1> DEFINE val == fill_v(v)
           hash == dl_hash_key(key)
<1>3. <<val>> \in Seq(Stored) /\ <<val>> # <<>>
  BY <1>2
<1>4. Filled(key, v, next) = [key |-> key, hash |-> hash, next |-> next, vals |-> <<val>>]
  BY DEF Filled
<1> HIDE DEF val, hash
<1>5. Filled(key, v, next) \in CellRecords
  BY <1>1, <1>3, <1>4 DEF CellRecords, hash
<1>6. /\ Filled(key, v, next).key = key /\ Filled(key, v, next).hash = hash
      /\ Filled(key, v, next).next = next /\ Filled(key, v, next).vals = <<val>>
  BY <1>4
<1> QED
  BY <1>3, <1>5, <1>6 DEF Belongs, hash

LEMMA EmptyType == Empty \in CellRecords /\ Empty.vals = <<>> /\ Null \in Links
<1>1. <<>> \in Seq(Nat) /\ <<>> \in Seq(Stored) /\ 0 \in Nat
  OBVIOUS
<1>2. Null \in Links
  BY DEF Links
<1> QED
  BY <1>1, <1>2 DEF Empty, CellRecords

\* The first key of a slot is put into the slot itself.
LEMMA FillSlotKeeps ==
    ASSUME HashSizes, NEW h, NEW Q, Layout(h, Q), NEW key \in Seq(Nat), NEW v \in Values,
           NEW s, s = SlotOf(key), h[s].vals = <<>>
    PROVE  Layout([h EXCEPT ![s] = Filled(key, v, Null)], [Q EXCEPT ![s] = <<s>>])
<1> DEFINE e == Filled(key, v, Null)
           g == [h EXCEPT ![s] = e]
           q == <<s>>
<1>1. s \in 1 .. Slots /\ s \in Cells
  BY SlotOfType DEF Cells, HashSizes
<1>2. e \in CellRecords /\ e.next = Null /\ Belongs(e, s)
  BY FilledType, EmptyType
<1>3. h \in [Cells -> CellRecords]
  BY DEF Layout
<1> HIDE DEF e
<1>4. g \in [Cells -> CellRecords] /\ g[s] = e /\ \A c \in Cells : c # s => g[c] = h[c]
  BY <1>1, <1>2, <1>3
<1>5. q \in Seq(Cells) /\ Len(q) = 1 /\ q[1] = s /\ q # <<>> /\ ToSet(q) = {s}
  <2>1. q \in Seq(Cells) /\ Len(q) = 1 /\ q[1] = s /\ q # <<>>
    BY <1>1
  <2> HIDE DEF q
  <2>2. ToSet(q) = {s}
    <3>1. DOMAIN q = {1}
      BY <2>1
    <3> QED
      BY <2>1, <3>1 DEF ToSet
  <2> QED
    BY <2>1, <2>2
<1> HIDE DEF g, q
<1>6. IsChain(g, s, q)
  <2>1. \A i \in 1 .. Len(q) : i = 1
    BY <1>5
  <2> QED
    BY <1>2, <1>4, <1>5, <2>1 DEF IsChain
<1>7. SlotKept(g, s, q)
  <2>1. \A i \in 1 .. Len(q) : i = 1
    BY <1>5
  <2> QED
    BY <1>2, <1>4, <1>5, <1>6, <2>1 DEF SlotKept
<1>8. s \notin ToSet(Q[s])
  BY <1>1, ChainOf
<1>9. \A c \in Cells : g[c].vals # <<>> /\ c \notin ToSet(q) =>
                           g[c] = h[c] /\ c \notin ToSet(Q[s])
  <2>1. ASSUME NEW c \in Cells, c # s, g[c].vals # <<>> PROVE c \notin ToSet(Q[s])
    <3>1. Q[s] = <<>>
      <4>1. SlotKept(h, s, Q[s])
        BY <1>1 DEF Layout
      <4>2. SUFFICES ASSUME Q[s] # <<>> PROVE FALSE
        OBVIOUS
      <4>3. Q[s] \in Seq(Cells) /\ Len(Q[s]) # 0 /\ Q[s][1] = s
        BY <4>1, <4>2 DEF SlotKept, IsChain
      <4>4. s \in ToSet(Q[s])
        <5>1. 1 \in 1 .. Len(Q[s])
          BY <4>3
        <5> QED
          BY <4>3, <5>1, InChain
      <4> QED
        BY <1>8, <4>4
    <3>2. ToSet(Q[s]) = {}
      BY <3>1 DEF ToSet
    <3> QED
      BY <3>2
  <2> QED
    BY <1>4, <1>5, <2>1
<1>10. \A c \in Cells : h[c].vals # <<>> /\ SlotOf(h[c].key) # s => g[c] = h[c]
  BY <1>4
<1>11. Layout(g, [Q EXCEPT ![s] = q])
  BY <1>1, <1>4, <1>7, <1>9, <1>10, Relayout
<1> QED
  BY <1>11 DEF g, q, e

\* A slot without values has no chain.
LEMMA SlotInUse ==
    ASSUME HashSizes, NEW h, NEW Q, Layout(h, Q), NEW s \in 1 .. Slots
    PROVE  /\ Q[s] \in Seq(Cells)
           /\ h[s].vals = <<>> => Q[s] = <<>>
           /\ h[s].vals # <<>> => IsChain(h, s, Q[s]) /\ Chain(h, s) = Q[s]
           /\ \A i \in 1 .. Len(Q[s]) : Q[s][i] \in Cells /\ Belongs(h[Q[s][i]], s)
           /\ h \in [Cells -> CellRecords] /\ s \in Cells
<1>1. SlotKept(h, s, Q[s]) /\ Q[s] \in Seq(Cells) /\ h \in [Cells -> CellRecords] /\ s \in Cells
  BY DEF Layout, SlotKept, Cells, HashSizes
<1>2. \A i \in 1 .. Len(Q[s]) : Q[s][i] \in Cells /\ Belongs(h[Q[s][i]], s)
  BY <1>1 DEF SlotKept
<1>3. ASSUME Q[s] # <<>> PROVE h[s].vals # <<>> /\ IsChain(h, s, Q[s])
  <2>1. IsChain(h, s, Q[s])
    BY <1>1, <1>3 DEF SlotKept
  <2>2. Len(Q[s]) # 0 /\ Q[s][1] = s
    BY <2>1 DEF IsChain
  <2>3. 1 \in 1 .. Len(Q[s])
    BY <1>1, <2>2
  <2>4. Belongs(h[s], s)
    BY <1>2, <2>2, <2>3
  <2> QED
    BY <2>1, <2>4 DEF Belongs
<1>4. h[s].vals # <<>> => Q[s] # <<>>
  BY <1>1 DEF SlotKept
<1>5. h[s].vals # <<>> => Chain(h, s) = Q[s]
  BY <1>1, <1>3, <1>4, ChainIs
<1> QED
  BY <1>1, <1>2, <1>3, <1>4, <1>5

\* A further key gets a new node, which goes behind the slot.
LEMMA BehindFirstKeeps ==
    ASSUME HashSizes, NEW h, NEW Q, Layout(h, Q), NEW key \in Seq(Nat), NEW v \in Values,
           NEW s, s = SlotOf(key), h[s].vals # <<>>,
           NEW c \in Cells, c \notin 1 .. Slots, h[c].vals = <<>>
    PROVE  \E R : Layout(BehindFirst(h, s, c, key, v), R)
<1> DEFINE e == Filled(key, v, h[s].next)
           g == BehindFirst(h, s, c, key, v)
           r == Q[s]
           l == Len(r)
           q == [i \in 1 .. l + 1 |-> IF i = 1 THEN s ELSE IF i = 2 THEN c ELSE r[i - 1]]
<1>1. s \in 1 .. Slots /\ s \in Cells /\ c # s
  BY SlotOfType DEF Cells, HashSizes
<1>2. r \in Seq(Cells) /\ IsChain(h, s, r) /\ h \in [Cells -> CellRecords]
  BY <1>1, SlotInUse
<1>3. l \in Nat /\ l # 0 /\ r[1] = s /\ \A i \in 1 .. l : r[i] \in Cells /\ r[i] # c /\ (r[i] = s => i = 1)
  <2>1. l \in Nat /\ l # 0 /\ r[1] = s
    BY <1>2 DEF IsChain
  <2>2. \A i \in 1 .. l : r[i] \in Cells /\ Belongs(h[r[i]], s)
    BY <1>1, SlotInUse
  <2>3. \A i \in 1 .. l : r[i] # c
    BY <2>2 DEF Belongs
  <2>4. 1 \in 1 .. l
    BY <2>1
  <2>5. \A i \in 1 .. l : r[i] = s => i = 1
    BY <1>2, <2>1, <2>4 DEF IsChain
  <2> QED
    BY <2>1, <2>2, <2>3, <2>5
<1>4. \A i \in 1 .. l : Belongs(h[r[i]], s)
  BY <1>1, SlotInUse
<1>5. \A i, j \in 1 .. l : r[i] = r[j] => i = j
  BY <1>2 DEF IsChain
<1>6. h[s].next \in Links /\ c \in Links
  <2>1. c \in Links
    BY <1>1 DEF Links, Cells, HashSizes
  <2> QED
    BY <1>1, <1>2, <2>1 DEF CellRecords
<1>7. e \in CellRecords /\ e.next = h[s].next /\ Belongs(e, s)
  BY <1>6, FilledType
<1>8. g = [h EXCEPT ![s].next = c, ![c] = e]
  BY DEF BehindFirst
<1> HIDE DEF e, g
<1>9. /\ g[s] = [h[s] EXCEPT !.next = c] /\ g[c] = e
      /\ \A d \in Cells : d # s /\ d # c => g[d] = h[d]
  BY <1>1, <1>2, <1>8
<1>10. g[s] \in CellRecords /\ g[s].next = c /\ Belongs(g[s], s)
  <2>1. h[s] \in CellRecords /\ Belongs(h[s], s)
    <3>1. 1 \in 1 .. l
      BY <1>3
    <3>2. h[s] \in CellRecords
      BY <1>1, <1>2
    <3> QED
      BY <1>3, <1>4, <3>1, <3>2
  <2> DEFINE a == h[s]
             b == g[s]
  <2>2. b = [a EXCEPT !.next = c] /\ a \in CellRecords /\ Belongs(a, s)
    BY <1>9, <2>1
  <2> HIDE DEF a, b
  <2>3. b \in CellRecords /\ b.next = c
    BY <1>6, <2>2 DEF CellRecords
  <2>4. b.key = a.key /\ b.hash = a.hash /\ b.vals = a.vals
    BY <2>2 DEF CellRecords
  <2>5. Belongs(b, s)
    BY <2>2, <2>4 DEF Belongs
  <2> QED
    BY <2>3, <2>5 DEF b
<1>11. g \in [Cells -> CellRecords]
  <2>1. g = [d \in Cells |-> g[d]]
    BY <1>2, <1>8
  <2>2. \A d \in Cells : g[d] \in CellRecords
    BY <1>2, <1>7, <1>9, <1>10
  <2> QED
    BY <2>1, <2>2
<1> HIDE DEF l, r
<1>12. /\ q \in Seq(Cells) /\ Len(q) = l + 1 /\ q[1] = s /\ q[2] = c
       /\ \A i \in 1 .. l + 1 : i # 1 /\ i # 2 => q[i] = r[i - 1] /\ i - 1 \in 2 .. l
  <2>1. \A i \in 1 .. l + 1 : (IF i = 1 THEN s ELSE IF i = 2 THEN c ELSE r[i - 1]) \in Cells
    BY <1>1, <1>3
  <2>2. q \in Seq(Cells) /\ Len(q) = l + 1
    BY <1>3, <2>1
  <2>3. q[1] = s /\ q[2] = c
    BY <1>3
  <2>4. \A i \in 1 .. l + 1 : i # 1 /\ i # 2 => q[i] = r[i - 1] /\ i - 1 \in 2 .. l
    BY <1>3
  <2> HIDE DEF q
  <2> QED
    BY <2>2, <2>3, <2>4
<1> HIDE DEF q
<1>13. \A i \in 1 .. l + 1 : g[q[i]].next = IF i = l + 1 THEN Null ELSE q[i + 1]
  <2>1. ASSUME NEW i \in 1 .. l + 1
        PROVE  g[q[i]].next = IF i = l + 1 THEN Null ELSE q[i + 1]
    <3>1. \A j \in 1 .. l : h[r[j]].next = IF j = l THEN Null ELSE r[j + 1]
      BY <1>2 DEF IsChain, l
    <3>2. CASE i = 1
      BY <1>3, <1>10, <1>12, <3>2
    <3>3. CASE i = 2
      <4>1. g[q[i]].next = h[s].next
        BY <1>7, <1>9, <1>12, <3>3
      <4>2. h[s].next = IF 1 = l THEN Null ELSE r[2]
        <5>1. 1 \in 1 .. l
          BY <1>3
        <5> QED
          BY <1>3, <3>1, <5>1
      <4>3. l # 1 => q[3] = r[2]
        <5>1. l # 1 => 3 \in 1 .. l + 1
          BY <1>3
        <5> QED
          BY <1>12, <5>1
      <4> QED
        BY <1>3, <3>3, <4>1, <4>2, <4>3
    <3>4. CASE i # 1 /\ i # 2
      <4>1. q[i] = r[i - 1] /\ i - 1 \in 2 .. l
        BY <1>12, <3>4
      <4>2. g[r[i - 1]] = h[r[i - 1]]
        BY <1>3, <1>9, <4>1
      <4>3. h[r[i - 1]].next = IF i - 1 = l THEN Null ELSE r[(i - 1) + 1]
        BY <3>1, <4>1
      <4>4. i # l + 1 => q[i + 1] = r[i] /\ i - 1 # l /\ (i - 1) + 1 = i
        <5>1. SUFFICES ASSUME i # l + 1 PROVE q[i + 1] = r[i] /\ i - 1 # l /\ (i - 1) + 1 = i
          OBVIOUS
        <5>2. i + 1 \in 1 .. l + 1 /\ i + 1 # 1 /\ i + 1 # 2 /\ (i + 1) - 1 = i
          BY <1>3, <3>4, <5>1
        <5>3. q[i + 1] = r[i]
          BY <1>12, <5>2
        <5> QED
          BY <1>3, <5>1, <5>3
      <4>5. i = l + 1 => i - 1 = l
        BY <1>3
      <4> QED
        BY <4>1, <4>2, <4>3, <4>4, <4>5
    <3> QED
      BY <3>2, <3>3, <3>4
  <2> QED
    BY <2>1
<1>14. \A i, j \in 1 .. l + 1 : q[i] = q[j] => i = j
  <2>1. ASSUME NEW i \in 1 .. l + 1, NEW j \in 1 .. l + 1, q[i] = q[j], i < j PROVE FALSE
    <3>1. j # 1
      BY <2>1, <1>3
    <3>2. CASE j = 2
      BY <1>1, <1>3, <1>12, <2>1, <3>2
    <3>3. CASE j # 2
      <4>1. q[j] = r[j - 1] /\ j - 1 \in 2 .. l
        BY <1>12, <3>1, <3>3
      <4>2. r[j - 1] # s /\ r[j - 1] # c
        BY <1>3, <4>1
      <4>3. i # 1 /\ i # 2
        BY <1>12, <2>1, <4>1, <4>2
      <4>4. q[i] = r[i - 1] /\ i - 1 \in 2 .. l
        BY <1>12, <4>3
      <4>5. i - 1 = j - 1
        <5>1. i - 1 \in 1 .. l /\ j - 1 \in 1 .. l /\ r[i - 1] = r[j - 1]
          BY <1>3, <2>1, <4>1, <4>4
        <5> QED
          BY <1>5, <5>1
      <4> QED
        BY <1>3, <2>1, <4>5
    <3> QED
      BY <3>2, <3>3
  <2>2. \A i, j \in 1 .. l + 1 : i < j \/ j < i \/ i = j
    BY <1>3
  <2> QED
    BY <2>1, <2>2
<1>15. IsChain(g, s, q)
  BY <1>3, <1>12, <1>13, <1>14 DEF IsChain
<1>16. \A i \in 1 .. Len(q) : Belongs(g[q[i]], s)
  <2>1. ASSUME NEW i \in 1 .. l + 1, i # 1, i # 2 PROVE Belongs(g[q[i]], s)
    <3>1. q[i] = r[i - 1] /\ i - 1 \in 2 .. l
      BY <1>12, <2>1
    <3>2. g[r[i - 1]] = h[r[i - 1]]
      BY <1>3, <1>9, <3>1
    <3>3. i - 1 \in 1 .. l
      BY <1>3, <3>1
    <3> QED
      BY <1>4, <3>1, <3>2, <3>3
  <2> QED
    BY <1>7, <1>9, <1>10, <1>12, <2>1
<1>17. SlotKept(g, s, q)
  <2>1. q # <<>>
    BY <1>3, <1>12
  <2> QED
    BY <1>12, <1>15, <1>16, <2>1 DEF SlotKept
<1>18. ASSUME NEW d \in Cells, g[d].vals # <<>>, d \notin ToSet(q)
       PROVE  g[d] = h[d] /\ d \notin ToSet(r)
  <2>1. \A i \in 1 .. l + 1 : q[i] # d
    BY <1>12, <1>18, InChain
  <2>2. d # s /\ d # c
    <3>1. 1 \in 1 .. l + 1 /\ 2 \in 1 .. l + 1
      BY <1>3
    <3> QED
      BY <1>12, <2>1, <3>1
  <2>3. ASSUME NEW i \in 1 .. l, r[i] = d PROVE FALSE
    <3>1. i # 1
      BY <1>3, <2>2, <2>3
    <3>2. i + 1 \in 1 .. l + 1 /\ i + 1 # 1 /\ i + 1 # 2 /\ (i + 1) - 1 = i
      BY <1>3, <3>1
    <3>3. q[i + 1] = r[i]
      BY <1>12, <3>2
    <3> QED
      BY <2>1, <2>3, <3>2, <3>3
  <2>4. d \notin ToSet(r)
    BY <1>2, <2>3, InChain DEF l
  <2> QED
    BY <1>9, <2>2, <2>4
<1>19. \A d \in Cells : h[d].vals # <<>> /\ SlotOf(h[d].key) # s => g[d] = h[d]
  <2>1. SlotOf(h[s].key) = s
    BY <1>1, <1>3, SlotInUse DEF Belongs, l, r
  <2> QED
    BY <1>9, <2>1
<1>20. Layout(g, [Q EXCEPT ![s] = q])
  BY <1>1, <1>11, <1>17, <1>18, <1>19, Relayout DEF r
<1> QED
  BY <1>20 DEF g

\* The values or the key of a node change, to a key of the same slot.
LEMMA ChangeCellKeeps ==
    ASSUME HashSizes, NEW h, NEW Q, Layout(h, Q), NEW s \in 1 .. Slots,
           NEW c \in Cells, h[c].vals # <<>>, SlotOf(h[c].key) = s,
           NEW e \in CellRecords, e.next = h[c].next, Belongs(e, s)
    PROVE  \E R : Layout([h EXCEPT ![c] = e], R)
<1> DEFINE g == [h EXCEPT ![c] = e]
           q == Q[s]
<1>1. /\ q \in Seq(Cells) /\ h \in [Cells -> CellRecords] /\ SlotKept(h, s, q)
      /\ \A i \in 1 .. Len(q) : q[i] \in Cells /\ Belongs(h[q[i]], s)
  BY SlotInUse DEF Layout
<1>2. c \in ToSet(q)
  BY ChainOf
<1>3. g \in [Cells -> CellRecords] /\ g[c] = e /\ \A d \in Cells : d # c => g[d] = h[d]
  BY <1>1
<1> HIDE DEF g, q
<1>4. \A i \in 1 .. Len(q) : g[q[i]].next = h[q[i]].next /\ Belongs(g[q[i]], s)
  <2>1. ASSUME NEW i \in 1 .. Len(q)
        PROVE  g[q[i]].next = h[q[i]].next /\ Belongs(g[q[i]], s)
    <3>1. CASE q[i] = c
      BY <1>3, <3>1
    <3>2. CASE q[i] # c
      BY <1>1, <1>3, <3>2
    <3> QED
      BY <3>1, <3>2
  <2> QED
    BY <2>1
<1>5. q # <<>> /\ IsChain(h, s, q)
  <2>1. PICK i \in 1 .. Len(q) : q[i] = c
    BY <1>1, <1>2, InChain
  <2>2. q # <<>>
    BY <2>1
  <2> QED
    BY <1>1, <2>2 DEF SlotKept
<1>6. IsChain(g, s, q)
  BY <1>4, <1>5 DEF IsChain
<1>7. SlotKept(g, s, q)
  BY <1>1, <1>4, <1>5, <1>6 DEF SlotKept
<1>8. \A d \in Cells : g[d].vals # <<>> /\ d \notin ToSet(q) => g[d] = h[d] /\ d \notin ToSet(q)
  BY <1>2, <1>3
<1>9. \A d \in Cells : h[d].vals # <<>> /\ SlotOf(h[d].key) # s => g[d] = h[d]
  BY <1>3
<1>10. Layout(g, [Q EXCEPT ![s] = q])
  BY <1>3, <1>7, <1>8, <1>9, Relayout DEF q
<1> QED
  BY <1>10 DEF g

\* InsertAt(vals, 2, v) has values.
LEMMA InsertedType ==
    ASSUME NEW S, NEW vals \in Seq(S), vals # <<>>, NEW v \in S
    PROVE  InsertAt(vals, 2, v) \in Seq(S) /\ InsertAt(vals, 2, v) # <<>>
<1> DEFINE a == SubSeq(vals, 1, 2 - 1)
           b == SubSeq(vals, 2, Len(vals))
<1>1. a \in Seq(S) /\ b \in Seq(S) /\ <<v>> \in Seq(S) /\ Len(<<v>>) = 1
  <2>1. Len(vals) \in Nat /\ Len(vals) # 0 /\ \A i \in 1 .. Len(vals) : vals[i] \in S
    OBVIOUS
  <2>2. a \in Seq(S)
    BY <2>1
  <2>3. b \in Seq(S)
    BY <2>1
  <2> QED
    BY <2>2, <2>3
<1>2. InsertAt(vals, 2, v) = a \o <<v>> \o b
  BY DEF InsertAt
<1> HIDE DEF a, b
<1>3. (a \o <<v>>) \o b \in Seq(S) /\ Len((a \o <<v>>) \o b) = Len(a) + 1 + Len(b)
  BY <1>1
<1> DEFINE all == (a \o <<v>>) \o b
<1>4. all \in Seq(S) /\ Len(all) # 0 /\ InsertAt(vals, 2, v) = all
  BY <1>1, <1>2, <1>3
<1> HIDE DEF all
<1>5. all # <<>>
  BY <1>4
<1> QED
  BY <1>4, <1>5

\* A further value for a key.
LEMMA AddValueKeeps ==
    ASSUME HashSizes, NEW h, NEW Q, Layout(h, Q), NEW c \in Cells, h[c].vals # <<>>,
           NEW v \in Values
    PROVE  \E R : Layout([h EXCEPT ![c].vals = InsertAt(@, 2, fill_v(v))], R)
<1> DEFINE a == h[c]
           vals == InsertAt(a.vals, 2, fill_v(v))
           e == [a EXCEPT !.vals = vals]
           s == SlotOf(a.key)
<1>1. h \in [Cells -> CellRecords] /\ a \in CellRecords
  BY DEF Layout
<1>2. a.vals \in Seq(Stored) /\ a.key \in Seq(Nat) /\ fill_v(v) \in Stored
  BY <1>1 DEF CellRecords, Stored
<1>3. vals \in Seq(Stored) /\ vals # <<>>
  BY <1>2, InsertedType
<1>4. s \in 1 .. Slots
  BY <1>2, SlotOfType
<1>5. c \in ToSet(Q[s])
  BY DEF Layout
<1>6. Belongs(a, s)
  <2>1. PICK i \in 1 .. Len(Q[s]) : Q[s][i] = c
    BY <1>4, <1>5, InChain DEF Layout
  <2> QED
    BY <1>4, <2>1, SlotInUse
<1>7. [h EXCEPT ![c].vals = InsertAt(@, 2, fill_v(v))] = [h EXCEPT ![c] = e]
  BY <1>1
<1> HIDE DEF vals
<1>8. e \in CellRecords /\ e.next = a.next /\ Belongs(e, s)
  <2> HIDE DEF a, s
  <2>1. e \in CellRecords /\ e.next = a.next
    BY <1>1, <1>3 DEF CellRecords
  <2>2. e.key = a.key /\ e.hash = a.hash /\ e.vals = vals
    BY <1>1 DEF CellRecords
  <2> QED
    BY <1>3, <1>6, <2>1, <2>2 DEF Belongs
<1> HIDE DEF e
<1>9. \E R : Layout([h EXCEPT ![c] = e], R)
  BY <1>4, <1>8, ChangeCellKeeps
<1> QED
  BY <1>7, <1>9

\* A key that is replaced by one of the same slot.
LEMMA ReplaceKeeps ==
    ASSUME HashSizes, NEW h, NEW Q, Layout(h, Q), NEW c \in Cells, h[c].vals # <<>>,
           NEW v \in Values, NEW key \in Seq(Nat), SlotOf(h[c].key) = SlotOf(key)
    PROVE  \E R : Layout([h EXCEPT ![c].key = key, ![c].hash = dl_hash_key(key),
                                   ![c].vals = <<fill_v(v)>>], R)
<1> DEFINE a == h[c]
           e == Filled(key, v, a.next)
           s == SlotOf(key)
<1>1. h \in [Cells -> CellRecords] /\ a \in CellRecords /\ a.next \in Links
  BY DEF Layout, CellRecords
<1>2. s \in 1 .. Slots
  BY SlotOfType
<1>3. e \in CellRecords /\ e.next = a.next /\ Belongs(e, s)
  BY <1>1, FilledType
<1>4. [h EXCEPT ![c].key = key, ![c].hash = dl_hash_key(key), ![c].vals = <<fill_v(v)>>]
        = [h EXCEPT ![c] = e]
  <2> DEFINE hash == dl_hash_key(key)
             val == fill_v(v)
             f1 == [a EXCEPT !.key = key]
             f2 == [f1 EXCEPT !.hash = hash]
             f == [f2 EXCEPT !.vals = <<val>>]
  <2>1. e = [key |-> key, hash |-> hash, next |-> a.next, vals |-> <<val>>]
    BY DEF Filled
  <2>2. [h EXCEPT ![c].key = key, ![c].hash = hash, ![c].vals = <<val>>] = [h EXCEPT ![c] = f]
    BY <1>1
  <2> HIDE DEF e, hash, val, a
  <2>3. f = [key |-> key, hash |-> hash, next |-> a.next, vals |-> <<val>>]
    <3>1. PICK x1, x2, x3, x4 : a = [key |-> x1, hash |-> x2, next |-> x3, vals |-> x4]
      BY <1>1 DEF CellRecords
    <3>2. a.next = x3
      BY <3>1
    <3>3. f1 = [key |-> key, hash |-> x2, next |-> x3, vals |-> x4]
      BY <3>1
    <3> HIDE DEF f1
    <3>4. f2 = [key |-> key, hash |-> hash, next |-> x3, vals |-> x4]
      BY <3>3
    <3> HIDE DEF f2
    <3>5. f = [key |-> key, hash |-> hash, next |-> x3, vals |-> <<val>>]
      BY <3>4
    <3> QED
      BY <3>2, <3>5
  <2> HIDE DEF f
  <2> QED
    BY <2>1, <2>2, <2>3 DEF hash, val
<1> HIDE DEF e
<1>5. \E R : Layout([h EXCEPT ![c] = e], R)
  BY <1>2, <1>3, ChangeCellKeeps
<1> QED
  BY <1>4, <1>5

\* A cell is taken out of a chain: what is before it gets its next.
LEMMA CutOutKeeps ==
    ASSUME HashSizes, NEW h, NEW Q, Layout(h, Q), NEW s \in 1 .. Slots,
           h[s].vals # <<>>, NEW k \in 2 .. Len(Q[s]),
           NEW g \in [Cells -> CellRecords], NEW b, NEW n,
           b = Q[s][k - 1], n = Q[s][k],
           g[n] = Empty, g[b].next = h[n].next, Belongs(g[b], s),
           \A c \in Cells : c # b /\ c # n => g[c] = h[c]
    PROVE  \E R : Layout(g, R)
<1> DEFINE r == Q[s]
           l == Len(r)
           m(i) == IF i < k THEN i ELSE i + 1
           q == [i \in 1 .. l - 1 |-> r[m(i)]]
<1>1. r \in Seq(Cells) /\ IsChain(h, s, r) /\ s \in Cells /\ l \in Nat /\ k \in 2 .. l
  BY SlotInUse
<1>2. /\ r[1] = s
      /\ \A i \in 1 .. l : h[r[i]].next = IF i = l THEN Null ELSE r[i + 1]
      /\ \A i, j \in 1 .. l : r[i] = r[j] => i = j
      /\ \A i \in 1 .. l : r[i] \in Cells /\ Belongs(h[r[i]], s)
  BY <1>1, SlotInUse DEF IsChain
<1>3. /\ b = r[k - 1] /\ n = r[k] /\ b \in Cells /\ n \in Cells /\ b # n
      /\ \A i \in 1 .. l : (r[i] = b => i = k - 1) /\ (r[i] = n => i = k)
  <2>1. k - 1 \in 1 .. l /\ k \in 1 .. l /\ k - 1 # k
    BY <1>1
  <2>2. b = r[k - 1] /\ n = r[k]
    OBVIOUS
  <2> QED
    BY <1>2, <2>1, <2>2
<1> HIDE DEF r, l
<1>4. ASSUME NEW i \in 1 .. l - 1 PROVE m(i) \in 1 .. l /\ m(i) # k
  BY <1>1
<1>5. ASSUME NEW i \in 1 .. l - 1, NEW j \in 1 .. l - 1, m(i) = m(j) PROVE i = j
  BY <1>1, <1>5
<1>6. q \in Seq(Cells) /\ Len(q) = l - 1 /\ \A i \in 1 .. l - 1 : q[i] = r[m(i)]
  <2>1. \A i \in 1 .. l - 1 : r[m(i)] \in Cells
    BY <1>2, <1>4
  <2> HIDE DEF m
  <2>2. l - 1 \in Nat
    BY <1>1
  <2> QED
    BY <2>1, <2>2
<1>7. q[1] = s /\ l - 1 # 0 /\ 1 \in 1 .. l - 1
  <2>1. 1 \in 1 .. l - 1 /\ m(1) = 1
    BY <1>1
  <2> HIDE DEF m, q
  <2> QED
    BY <1>1, <1>2, <1>6, <2>1
<1> HIDE DEF q
<1>8. ASSUME NEW i \in 1 .. l - 1
      PROVE  g[q[i]].next = IF i = l - 1 THEN Null ELSE q[i + 1]
  <2>1. CASE i = k - 1
    <3>1. m(i) = k - 1
      BY <1>1, <2>1
    <3>2. q[i] = b
      BY <1>3, <1>6, <3>1
    <3>3. h[n].next = IF k = l THEN Null ELSE r[k + 1]
      BY <1>1, <1>2, <1>3
    <3>4. i # l - 1 => q[i + 1] = r[k + 1] /\ k # l
      <4>1. SUFFICES ASSUME i # l - 1 PROVE q[i + 1] = r[k + 1] /\ k # l
        OBVIOUS
      <4>2. i + 1 \in 1 .. l - 1 /\ m(i + 1) = k + 1 /\ k # l
        BY <1>1, <2>1, <4>1
      <4> HIDE DEF m
      <4> QED
        BY <1>6, <4>2
    <3>5. i = l - 1 => k = l
      BY <1>1, <2>1
    <3> QED
      BY <3>2, <3>3, <3>4, <3>5
  <2>2. CASE i # k - 1
    <3> DEFINE x == m(i)
    <3>1. x \in 1 .. l /\ x # k /\ x # k - 1
      BY <1>1, <2>2
    <3>2. i # l - 1 => m(i + 1) = x + 1 /\ i + 1 \in 1 .. l - 1
      BY <1>1, <2>2
    <3>3. (i = l - 1) <=> (x = l)
      BY <1>1, <2>2
    <3>4. q[i] = r[x]
      BY <1>6
    <3> HIDE DEF m, x
    <3>5. g[r[x]] = h[r[x]]
      BY <1>2, <1>3, <3>1
    <3>6. h[r[x]].next = IF x = l THEN Null ELSE r[x + 1]
      BY <1>2, <3>1
    <3>7. i # l - 1 => q[i + 1] = r[x + 1]
      BY <1>6, <3>2
    <3> QED
      BY <3>3, <3>4, <3>5, <3>6, <3>7
  <2> QED
    BY <2>1, <2>2
<1>9. IsChain(g, s, q)
  <2>1. ASSUME NEW i \in 1 .. l - 1, NEW j \in 1 .. l - 1, q[i] = q[j] PROVE i = j
    <3> HIDE DEF m
    <3>1. r[m(i)] = r[m(j)]
      BY <1>6, <2>1
    <3>2. m(i) = m(j)
      BY <1>2, <1>4, <3>1
    <3> QED
      BY <1>5, <3>2
  <2> QED
    BY <1>6, <1>7, <1>8, <2>1 DEF IsChain
<1>10. SlotKept(g, s, q)
  <2>1. ASSUME NEW i \in 1 .. l - 1 PROVE Belongs(g[q[i]], s)
    <3> HIDE DEF m
    <3>1. q[i] = r[m(i)] /\ m(i) \in 1 .. l /\ m(i) # k
      BY <1>4, <1>6
    <3>2. q[i] # n /\ q[i] \in Cells /\ Belongs(h[q[i]], s)
      BY <1>2, <1>3, <3>1
    <3> QED
      BY <3>2
  <2>2. q # <<>>
    BY <1>6, <1>7
  <2> QED
    BY <1>6, <1>9, <2>1, <2>2 DEF SlotKept
<1>11. ASSUME NEW c \in Cells, g[c].vals # <<>>, c \notin ToSet(q)
       PROVE  g[c] = h[c] /\ c \notin ToSet(r)
  <2>1. \A i \in 1 .. l - 1 : q[i] # c
    BY <1>6, <1>11, InChain
  <2>2. c # n
    BY <1>11, EmptyType
  <2>3. ASSUME NEW j \in 1 .. l, r[j] = c PROVE FALSE
    <3>1. j # k
      BY <1>3, <2>2, <2>3
    <3>2. CASE j < k
      <4>1. j \in 1 .. l - 1 /\ m(j) = j
        BY <1>1, <3>2
      <4> HIDE DEF m
      <4> QED
        BY <1>6, <2>1, <2>3, <4>1
    <3>3. CASE j > k
      <4>1. j - 1 \in 1 .. l - 1 /\ m(j - 1) = j
        BY <1>1, <3>3
      <4> HIDE DEF m
      <4> QED
        BY <1>6, <2>1, <2>3, <4>1
    <3> QED
      BY <1>1, <3>1, <3>2, <3>3
  <2>4. c # b
    BY <1>1, <1>3, <2>3
  <2>5. c \notin ToSet(r)
    BY <1>1, <2>3, InChain DEF l
  <2> QED
    BY <2>2, <2>4, <2>5
<1>12. ASSUME NEW c \in Cells, h[c].vals # <<>>, SlotOf(h[c].key) # s PROVE g[c] = h[c]
  <2>1. Belongs(h[b], s) /\ Belongs(h[n], s)
    <3>1. k - 1 \in 1 .. l /\ k \in 1 .. l
      BY <1>1
    <3> QED
      BY <1>2, <1>3, <3>1
  <2>2. c # b /\ c # n
    BY <1>12, <2>1 DEF Belongs
  <2> QED
    BY <2>2
<1>13. Layout(g, [Q EXCEPT ![s] = q])
  BY <1>10, <1>11, <1>12, Relayout DEF r
<1> QED
  BY <1>13

LEMMA UnchainKeeps ==
    ASSUME HashSizes, NEW h, NEW Q, Layout(h, Q), NEW s \in 1 .. Slots,
           NEW n \in ToSet(Q[s]), n # s
    PROVE  \E R : Layout(Unchain(h, s, n), R)
<1> DEFINE r == Q[s]
           l == Len(r)
           b == CHOOSE c \in ToSet(r) : h[c].next = n
           g == [h EXCEPT ![b].next = h[n].next, ![n] = Empty]
<1>1. r \in Seq(Cells) /\ h \in [Cells -> CellRecords] /\ SlotKept(h, s, r)
  BY SlotInUse DEF Layout
<1>2. PICK k \in 1 .. l : r[k] = n
  BY <1>1, InChain
<1>3. IsChain(h, s, r) /\ h[s].vals # <<>> /\ Chain(h, s) = r
  <2>1. r # <<>>
    BY <1>2
  <2>2. h[s].vals # <<>>
    BY <2>1, SlotInUse
  <2> QED
    BY <2>2, SlotInUse
<1>4. /\ r[1] = s
      /\ \A i \in 1 .. l : h[r[i]].next = IF i = l THEN Null ELSE r[i + 1]
      /\ \A i, j \in 1 .. l : r[i] = r[j] => i = j
      /\ \A i \in 1 .. l : r[i] \in Cells /\ Belongs(h[r[i]], s)
  BY <1>3, SlotInUse DEF IsChain
<1>5. l \in Nat /\ k \in 2 .. l /\ k - 1 \in 1 .. l /\ k - 1 # l /\ (k - 1) + 1 = k
  BY <1>1, <1>2, <1>4
<1>6. n \in Cells /\ n # Null
  <2>1. Null \notin Cells
    BY DEF Cells, Null
  <2> QED
    BY <1>2, <1>4, <2>1
<1>7. Unchain(h, s, n) = g
  BY <1>3 DEF Unchain
<1> HIDE DEF r
<1>8. b \in ToSet(r) /\ h[b].next = n
  <2>1. h[r[k - 1]].next = n /\ r[k - 1] \in ToSet(r)
    BY <1>1, <1>2, <1>4, <1>5, InChain
  <2> QED
    BY <2>1
<1> HIDE DEF b
<1>9. b = r[k - 1] /\ b \in Cells
  <2>1. PICK j \in 1 .. l : r[j] = b
    BY <1>1, <1>8, InChain
  <2>2. j # l /\ r[j + 1] = n
    BY <1>4, <1>6, <1>8, <2>1
  <2>3. j + 1 \in 1 .. l
    BY <1>5, <2>2
  <2>4. j + 1 = k
    BY <1>2, <1>4, <2>2, <2>3
  <2> QED
    BY <1>4, <1>5, <2>1, <2>4
<1>10. b # n
  BY <1>2, <1>4, <1>5, <1>9
<1>11. g[b] = [h[b] EXCEPT !.next = h[n].next] /\ g[n] = Empty
       /\ \A c \in Cells : c # b /\ c # n => g[c] = h[c]
  BY <1>1, <1>6, <1>9, <1>10
<1>12. g[b] \in CellRecords /\ g[b].next = h[n].next /\ Belongs(g[b], s)
  <2> DEFINE a == h[b]
             x == h[n].next
             e == g[b]
  <2>1. a \in CellRecords /\ Belongs(a, s) /\ x \in Links
    <3>1. a \in CellRecords /\ Belongs(a, s)
      BY <1>1, <1>4, <1>5, <1>9
    <3>2. h[n] \in CellRecords
      BY <1>1, <1>6
    <3> QED
      BY <3>1, <3>2 DEF CellRecords
  <2>2. e = [a EXCEPT !.next = x]
    BY <1>11
  <2> HIDE DEF a, x, e
  <2>3. e \in CellRecords /\ e.next = x
    BY <2>1, <2>2 DEF CellRecords
  <2>4. e.key = a.key /\ e.hash = a.hash /\ e.vals = a.vals
    BY <2>1, <2>2 DEF CellRecords
  <2>5. Belongs(e, s)
    BY <2>1, <2>4 DEF Belongs
  <2> QED
    BY <2>3, <2>5 DEF e, x
<1>13. g \in [Cells -> CellRecords]
  <2>1. g = [d \in Cells |-> g[d]]
    BY <1>1
  <2> HIDE DEF g
  <2>2. \A d \in Cells : g[d] \in CellRecords
    BY <1>1, <1>11, <1>12, EmptyType
  <2> QED
    BY <2>1, <2>2
<1> HIDE DEF g, l
<1>14. \E R : Layout(g, R)
  <2>1. k \in 2 .. Len(Q[s]) /\ b = Q[s][k - 1] /\ n = Q[s][k]
    BY <1>2, <1>5, <1>9 DEF r, l
  <2>2. g[n] = Empty /\ \A c \in Cells : c # b /\ c # n => g[c] = h[c]
    BY <1>11
  <2>3. g[b].next = h[n].next /\ Belongs(g[b], s) /\ h[s].vals # <<>>
    BY <1>3, <1>12
  <2> HIDE DEF r
  <2> QED
    BY <1>13, <2>1, <2>2, <2>3, CutOutKeeps
<1> QED
  BY <1>7, <1>14

LEMMA MoveUpKeeps ==
    ASSUME HashSizes, NEW h, NEW Q, Layout(h, Q), NEW s \in 1 .. Slots,
           h[s].vals # <<>>, h[s].next # Null
    PROVE  \E R : Layout(MoveUp(h, s), R)
<1> DEFINE r == Q[s]
           l == Len(r)
           n == h[s].next
           g == MoveUp(h, s)
<1>1. r \in Seq(Cells) /\ h \in [Cells -> CellRecords] /\ IsChain(h, s, r) /\ s \in Cells
  BY SlotInUse
<1>2. /\ l \in Nat /\ l # 0 /\ r[1] = s
      /\ \A i \in 1 .. l : h[r[i]].next = IF i = l THEN Null ELSE r[i + 1]
      /\ \A i, j \in 1 .. l : r[i] = r[j] => i = j
      /\ \A i \in 1 .. l : r[i] \in Cells /\ Belongs(h[r[i]], s)
  BY <1>1, SlotInUse DEF IsChain
<1>3. 2 \in 2 .. l /\ n = r[2] /\ 2 \in 1 .. l /\ 1 \in 1 .. l
  <2>1. 1 \in 1 .. l
    BY <1>2
  <2>2. l # 1 /\ n = r[2]
    BY <1>2, <2>1
  <2> QED
    BY <1>2, <2>1, <2>2
<1> HIDE DEF n
<1>4. n \in Cells /\ n # s /\ Belongs(h[n], s) /\ h[n] \in CellRecords
  <2>1. n \in Cells /\ Belongs(h[n], s)
    BY <1>2, <1>3
  <2>2. r[1] # r[2]
    BY <1>2, <1>3
  <2> QED
    BY <1>1, <1>2, <1>3, <2>1, <2>2
<1>5. g = [h EXCEPT ![s] = h[n], ![n] = Empty]
  BY DEF MoveUp, n
<1> HIDE DEF g
<1>6. g[s] = h[n] /\ g[n] = Empty /\ \A c \in Cells : c # s /\ c # n => g[c] = h[c]
  BY <1>1, <1>4, <1>5
<1>7. g \in [Cells -> CellRecords]
  <2>1. g = [d \in Cells |-> g[d]]
    BY <1>1, <1>5
  <2>2. \A d \in Cells : g[d] \in CellRecords
    BY <1>1, <1>4, <1>6, EmptyType
  <2> QED
    BY <2>1, <2>2
<1>8. s = r[2 - 1]
  BY <1>2
<1> HIDE DEF r
<1>9. \E R : Layout(g, R)
  BY <1>3, <1>4, <1>6, <1>7, <1>8, CutOutKeeps DEF r
<1> QED
  BY <1>9 DEF g

LEMMA EmptySlotKeeps ==
    ASSUME HashSizes, NEW h, NEW Q, Layout(h, Q), NEW s \in 1 .. Slots,
           h[s].vals # <<>>, h[s].next = Null
    PROVE  \E R : Layout([h EXCEPT ![s] = Empty], R)
<1> DEFINE r == Q[s]
           g == [h EXCEPT ![s] = Empty]
<1>1. r \in Seq(Cells) /\ h \in [Cells -> CellRecords] /\ IsChain(h, s, r) /\ s \in Cells
  BY SlotInUse
<1>2. g \in [Cells -> CellRecords] /\ g[s] = Empty /\ \A c \in Cells : c # s => g[c] = h[c]
  BY <1>1, EmptyType
<1> HIDE DEF g
<1>3. SlotKept(g, s, <<>>)
  <2>1. <<>> \in Seq(Cells) /\ Len(<<>>) = 0 /\ 1 .. Len(<<>>) = {}
    OBVIOUS
  <2> QED
    BY <1>2, <2>1, EmptyType DEF SlotKept
<1>4. \A c \in Cells : c \in ToSet(r) => c = s
  <2>1. Len(r) \in Nat /\ Len(r) # 0 /\ r[1] = s
        /\ \A i \in 1 .. Len(r) : h[r[i]].next = (IF i = Len(r) THEN Null ELSE r[i + 1])
                                  /\ r[i] \in Cells
    BY <1>1 DEF IsChain
  <2>2. Len(r) = 1
    <3>1. 1 \in 1 .. Len(r)
      BY <2>1
    <3>2. Len(r) # 1 => r[2] = Null /\ 2 \in 1 .. Len(r)
      <4>1. h[s].next = IF 1 = Len(r) THEN Null ELSE r[1 + 1]
        BY <2>1, <3>1
      <4>2. Len(r) # 1 => r[2] = Null
        BY <4>1
      <4>3. Len(r) \in Nat /\ Len(r) # 0
        BY <2>1
      <4>4. Len(r) # 1 => 2 \in 1 .. Len(r)
        <5> DEFINE l == Len(r)
        <5>1. l \in Nat /\ l # 0
          BY <4>3
        <5> HIDE DEF l
        <5>2. l # 1 => 2 \in 1 .. l
          BY <5>1
        <5> QED
          BY <5>2 DEF l
      <4> QED
        BY <4>2, <4>4
    <3>3. Null \notin Cells
      BY DEF Cells, Null
    <3> QED
      BY <2>1, <3>2, <3>3
  <2> QED
    BY <1>1, <2>1, <2>2, InChain
<1>5. \A c \in Cells : g[c].vals # <<>> /\ c \notin ToSet(<<>>) => g[c] = h[c] /\ c \notin ToSet(r)
  BY <1>2, <1>4, EmptyType
<1>6. SlotOf(h[s].key) = s
  <2>1. 1 \in 1 .. Len(r) /\ r[1] = s
    BY <1>1 DEF IsChain
  <2> QED
    BY <2>1, SlotInUse DEF Belongs
<1>7. \A c \in Cells : h[c].vals # <<>> /\ SlotOf(h[c].key) # s => g[c] = h[c]
  BY <1>2, <1>6
<1>8. Layout(g, [Q EXCEPT ![s] = <<>>])
  BY <1>2, <1>3, <1>5, <1>7, Relayout
<1> QED
  BY <1>8 DEF g

\* Chain answers what the layout says, for an empty slot too.
LEMMA ChainLayout ==
    ASSUME HashSizes, NEW h, NEW Q, Layout(h, Q), NEW s \in 1 .. Slots
    PROVE  Chain(h, s) = Q[s]
<1>1. CASE h[s].vals = <<>>
  <2>1. Chain(h, s) = <<>>
    BY <1>1 DEF Chain
  <2> QED
    BY <1>1, <2>1, SlotInUse
<1>2. CASE h[s].vals # <<>>
  BY <1>2, SlotInUse
<1> QED
  BY <1>1, <1>2

\* dl_hash_find answers a node of the key's slot that matches, if there is one.
LEMMA FindIs ==
    ASSUME HashSizes, NEW h, NEW Q, Layout(h, Q), NEW key \in Seq(Nat), NEW luck,
           NEW n, n = dl_hash_find(h, key, luck)
    PROVE  \/ /\ n = Null
              /\ \A c \in Cells : h[c].vals # <<>> /\ SlotOf(h[c].key) = SlotOf(key) =>
                                      ~Matches(h[c], key, luck)
           \/ /\ n # Null /\ n \in Cells /\ n \in ToSet(Q[SlotOf(key)])
              /\ h[n].vals # <<>> /\ SlotOf(h[n].key) = SlotOf(key)
              /\ Matches(h[n], key, luck)
<1> DEFINE s == SlotOf(key)
           r == Q[s]
           hits == {i \in DOMAIN r : Matches(h[r[i]], key, luck)}
           first == CHOOSE i \in hits : \A j \in hits : i <= j
<1>1. s \in 1 .. Slots
  BY SlotOfType
<1>2. n = IF hits = {} THEN Null ELSE r[first]
  <2>1. Chain(h, s) = r
    BY <1>1, ChainLayout
  <2> QED
    BY <2>1 DEF dl_hash_find
<1>3. r \in Seq(Cells) /\ DOMAIN r = 1 .. Len(r)
  BY <1>1, SlotInUse
<1>4. Null \notin Cells
  BY DEF Cells, Null
<1> HIDE DEF s
<1>5. CASE hits = {}
  <2>1. ASSUME NEW c \in Cells, h[c].vals # <<>>, SlotOf(h[c].key) = s
        PROVE  ~Matches(h[c], key, luck)
    <3>1. c \in ToSet(r)
      BY <1>1, <2>1, ChainOf
    <3>2. PICK i \in 1 .. Len(r) : r[i] = c
      BY <1>3, <3>1, InChain
    <3> QED
      BY <1>3, <1>5, <3>2
  <2> QED
    BY <1>2, <1>5, <2>1 DEF s
<1>6. CASE hits # {}
  <2>1. hits \subseteq Nat
    <3>1. \A i \in 1 .. Len(r) : i \in Nat
      BY <1>3
    <3> QED
      BY <1>3, <3>1
  <2>2. \E i \in hits : \A j \in hits : i <= j
    <3> HIDE DEF hits
    <3> QED
      BY <1>6, <2>1, LeastOf
  <2>3. first \in hits
    <3> HIDE DEF hits
    <3> QED
      BY <2>2
  <2> HIDE DEF first
  <2>4. first \in 1 .. Len(r) /\ Matches(h[r[first]], key, luck)
    BY <1>3, <2>3
  <2>5. n = r[first]
    BY <1>2, <1>6
  <2>6. n \in Cells /\ n # Null /\ n \in ToSet(r)
    BY <1>3, <1>4, <2>4, <2>5, InChain
  <2>7. h[n].vals # <<>> /\ SlotOf(h[n].key) = s
    BY <1>1, <2>6, ChainOf
  <2> QED
    BY <2>4, <2>5, <2>6, <2>7 DEF s
<1> QED
  BY <1>5, <1>6

\* The allocator answers memory that nothing uses.
LEMMA NewNodeIs ==
    ASSUME HashSizes, NEW h, NEW Q, Layout(h, Q), NEW c, c = NewNode(h), c # Null
    PROVE  c \in Cells /\ c \notin 1 .. Slots /\ h[c].vals = <<>>
<1> DEFINE used == UNION {ToSet(Chain(h, s)) : s \in 1 .. Slots}
           free == Cells \ (used \cup 1 .. Slots)
<1>1. c = IF free = {} THEN Null ELSE CHOOSE i \in free : \A j \in free : i <= j
  BY DEF NewNode
<1>2. free # {} /\ free \subseteq Nat
  BY <1>1 DEF Cells, HashSizes
<1>3. c \in free
  <2> HIDE DEF free
  <2>1. \E i \in free : \A j \in free : i <= j
    BY <1>2, LeastOf
  <2> QED
    BY <1>1, <1>2, <2>1
<1>4. c \in Cells /\ c \notin 1 .. Slots /\ c \notin used
  BY <1>3
<1>5. ASSUME h[c].vals # <<>> PROVE FALSE
  <2> DEFINE s == SlotOf(h[c].key)
  <2>1. h[c].key \in Seq(Nat)
    BY <1>4 DEF Layout, CellRecords
  <2>2. s \in 1 .. Slots
    BY <2>1, SlotOfType
  <2>3. c \in ToSet(Q[s])
    BY <1>4, <1>5 DEF Layout
  <2> HIDE DEF s
  <2>4. c \in ToSet(Chain(h, s))
    BY <2>2, <2>3, ChainLayout
  <2> QED
    BY <1>4, <2>2, <2>4
<1> QED
  BY <1>4, <1>5

-------------------------------------------------------------------------------
(* The calls.                                                                *)

Kept(h) == \E Q : Layout(h, Q)

\* malloc or dl_palloc answers NULL for a node.
NoRoom(h, room) == NewNode(h) = Null \/ ~room

LEMMA AddKeyKeeps ==
    ASSUME HashSizes, NEW h, Kept(h), NEW key \in Seq(Nat), NEW v \in Values,
           NEW room, NEW enough
    PROVE  Kept(AddKey(h, key, v, room, enough).cells)
<1> DEFINE s == SlotOf(key)
           c == NewNode(h)
           g == [h EXCEPT ![s] = Filled(key, v, Null)]
<1>1. PICK Q : Layout(h, Q)
  BY DEF Kept
<1>2. AddKey(h, key, v, room, enough).cells =
          IF h[s].vals = <<>> THEN g ELSE IF NoRoom(h, room) THEN h ELSE BehindFirst(h, s, c, key, v)
  BY DEF AddKey, Result, NoRoom
<1>3. h[s].vals = <<>> => Layout(g, [Q EXCEPT ![s] = <<s>>])
  BY <1>1, FillSlotKeeps
<1> HIDE DEF g, c
<1>4. ASSUME h[s].vals # <<>>, ~NoRoom(h, room) PROVE \E R : Layout(BehindFirst(h, s, c, key, v), R)
  <2>1. c \in Cells /\ c \notin 1 .. Slots /\ h[c].vals = <<>>
    BY <1>1, <1>4, NewNodeIs DEF c, NoRoom
  <2> QED
    BY <1>1, <1>4, <2>1, BehindFirstKeeps
<1> QED
  BY <1>1, <1>2, <1>3, <1>4 DEF Kept

LEMMA AddValueCallKeeps ==
    ASSUME HashSizes, NEW h, Kept(h), NEW c \in Cells, h[c].vals # <<>>,
           NEW v \in Values, NEW enough
    PROVE  Kept(AddValue(h, c, v, enough).cells)
<1> DEFINE g == [h EXCEPT ![c].vals = InsertAt(@, 2, fill_v(v))]
<1>1. AddValue(h, c, v, enough).cells = g
  BY DEF AddValue, Result
<1>2. \E R : Layout(g, R)
  BY AddValueKeeps DEF Kept
<1> HIDE DEF g
<1> QED
  BY <1>1, <1>2 DEF Kept

LEMMA SetKeeps ==
    ASSUME HashSizes, NEW h, Kept(h), NEW key \in Seq(Nat), NEW v \in Values,
           NEW luck, NEW room, NEW enough
    PROVE  Kept(dl_hash_set(h, key, v, luck, room, enough).cells)
<1> DEFINE n == dl_hash_find(h, key, luck)
           r == dl_hash_set(h, key, v, luck, room, enough)
<1>1. r = CASE n = Null -> AddKey(h, key, v, room, enough)
            [] n # Null /\ flag = "LIST" -> AddValue(h, n, v, enough)
            [] n # Null /\ flag # "LIST" -> Result(h, "AGAIN", <<>>, FALSE)
  BY DEF dl_hash_set
<1>2. n = Null \/ (n \in Cells /\ h[n].vals # <<>>)
  BY FindIs DEF Kept
<1> HIDE DEF n, r
<1>3. CASE n = Null
  <2>1. r = AddKey(h, key, v, room, enough)
    BY <1>1, <1>3
  <2> QED
    BY <2>1, AddKeyKeeps DEF r
<1>4. CASE n # Null /\ flag = "LIST"
  <2>1. r = AddValue(h, n, v, enough)
    BY <1>1, <1>4
  <2> QED
    BY <1>2, <1>4, <2>1, AddValueCallKeeps DEF r
<1>5. CASE n # Null /\ flag # "LIST"
  <2>1. r = Result(h, "AGAIN", <<>>, FALSE)
    BY <1>1, <1>5
  <2> QED
    BY <2>1 DEF Result, r
<1> QED
  BY <1>3, <1>4, <1>5

LEMMA PhashSetKeeps ==
    ASSUME HashSizes, NEW h, Kept(h), NEW key \in Seq(Nat), NEW v \in Values, NEW luck,
           NEW room, flag \in {"UNIQUE", "LIST", "REPLACE"}
    PROVE  Kept(dl_phash_set(h, key, v, luck, room).cells)
<1> DEFINE n == dl_hash_find(h, key, luck)
           r == dl_phash_set(h, key, v, luck, room)
           g == [h EXCEPT ![n].key = key, ![n].hash = dl_hash_key(key),
                          ![n].vals = <<fill_v(v)>>]
<1>1. r = CASE n = Null -> AddKey(h, key, v, room, TRUE)
            [] n # Null /\ flag = "UNIQUE" -> Result(h, "AGAIN", <<>>, FALSE)
            [] n # Null /\ flag = "REPLACE" -> Result(g, "OK", <<>>, FALSE)
            [] n # Null /\ flag = "LIST" -> AddValue(h, n, v, TRUE)
  BY DEF dl_phash_set
<1>2. n = Null \/ (n \in Cells /\ h[n].vals # <<>> /\ SlotOf(h[n].key) = SlotOf(key))
  BY FindIs DEF Kept
<1>3. ASSUME n # Null PROVE Kept(g)
  <2> HIDE DEF n
  <2> QED
    BY <1>2, <1>3, ReplaceKeeps DEF Kept
<1> HIDE DEF n, r, g
<1>4. CASE n = Null
  <2>1. r = AddKey(h, key, v, room, TRUE)
    BY <1>1, <1>4
  <2> QED
    BY <2>1, AddKeyKeeps DEF r
<1>5. CASE n # Null /\ flag = "UNIQUE"
  <2>1. r = Result(h, "AGAIN", <<>>, FALSE)
    BY <1>1, <1>5
  <2> QED
    BY <2>1 DEF Result, r
<1>6. CASE n # Null /\ flag = "REPLACE"
  <2>1. r = Result(g, "OK", <<>>, FALSE)
    BY <1>1, <1>6
  <2> QED
    BY <1>3, <1>6, <2>1 DEF Result, r
<1>7. CASE n # Null /\ flag = "LIST"
  <2>1. r = AddValue(h, n, v, TRUE)
    BY <1>1, <1>7
  <2> QED
    BY <1>2, <1>7, <2>1, AddValueCallKeeps DEF r
<1> QED
  BY <1>4, <1>5, <1>6, <1>7

LEMMA DelKeeps ==
    ASSUME HashSizes, NEW h, Kept(h), NEW key \in Seq(Nat), NEW luck
    PROVE  Kept(dl_hash_del(h, key, luck).cells)
<1> DEFINE s == SlotOf(key)
           n == dl_hash_find(h, key, luck)
           rest == IF n # s THEN Unchain(h, s, n)
                   ELSE IF h[s].next # Null THEN MoveUp(h, s)
                   ELSE [h EXCEPT ![s] = Empty]
<1>1. dl_hash_del(h, key, luck).cells = IF n = Null THEN h ELSE rest
  BY DEF dl_hash_del, Result
<1>2. PICK Q : Layout(h, Q)
  BY DEF Kept
<1>3. n = Null \/ (n \in Cells /\ h[n].vals # <<>> /\ n \in ToSet(Q[s]))
  BY <1>2, FindIs
<1>4. s \in 1 .. Slots
  BY SlotOfType
<1> HIDE DEF n, s
<1>5. ASSUME n # Null, n # s PROVE Kept(Unchain(h, s, n))
  BY <1>2, <1>3, <1>4, <1>5, UnchainKeeps DEF Kept
<1>6. ASSUME n # Null, n = s, h[s].next # Null PROVE Kept(MoveUp(h, s))
  BY <1>2, <1>3, <1>4, <1>6, MoveUpKeeps DEF Kept
<1>7. ASSUME n # Null, n = s, h[s].next = Null PROVE Kept([h EXCEPT ![s] = Empty])
  BY <1>2, <1>3, <1>4, <1>7, EmptySlotKeeps DEF Kept
<1> QED
  BY <1>1, <1>5, <1>6, <1>7

\* A new table.
LEMMA NewKept ==
    ASSUME HashSizes
    PROVE  Kept([c \in Cells |-> Empty])
<1> DEFINE h == [c \in Cells |-> Empty]
           Q == [s \in 1 .. Slots |-> <<>>]
<1>1. h \in [Cells -> CellRecords] /\ \A c \in Cells : h[c].vals = <<>>
  BY EmptyType
<1>2. <<>> \in Seq(Cells) /\ 1 .. Len(<<>>) = {}
  OBVIOUS
<1>3. 1 .. Slots \subseteq Cells
  BY DEF Cells, HashSizes
<1>4. Q \in [1 .. Slots -> Seq(Cells)] /\ \A s \in 1 .. Slots : Q[s] = <<>>
  BY <1>2
<1> HIDE DEF h, Q
<1>5. \A s \in 1 .. Slots : SlotKept(h, s, Q[s])
  BY <1>1, <1>2, <1>3, <1>4 DEF SlotKept
<1>6. Layout(h, Q)
  BY <1>1, <1>4, <1>5 DEF Layout
<1> QED
  BY <1>6 DEF Kept, h

\* Every function answers a record of the same form.
IsResult(r) == \E h, rc, rel, f : r = Result(h, rc, rel, f)

LEMMA ResultFields ==
    ASSUME NEW r, IsResult(r), NEW x
    PROVE  /\ [r EXCEPT !.fault = x].cells = r.cells
           /\ [r EXCEPT !.fault = x].answer = r.answer
           /\ [r EXCEPT !.fault = x].fault = x
           /\ [r EXCEPT !.released = x].cells = r.cells
           /\ [r EXCEPT !.released = x].answer = r.answer
           /\ [r EXCEPT !.released = x].fault = r.fault
BY DEF IsResult, Result

LEMMA SetsAreResults ==
    ASSUME NEW h, NEW key, NEW v, NEW luck, NEW room, NEW enough
    PROVE  /\ IsResult(dl_hash_set(h, key, v, luck, room, enough))
           /\ flag \in {"UNIQUE", "LIST", "REPLACE"} =>
                 IsResult(dl_phash_set(h, key, v, luck, room))
<1>1. ASSUME NEW b PROVE IsResult(AddKey(h, key, v, room, b))
  BY DEF AddKey, IsResult
<1>2. ASSUME NEW b, NEW n PROVE IsResult(AddValue(h, n, v, b))
  BY DEF AddValue, IsResult
<1>3. ASSUME NEW g, NEW rc PROVE IsResult(Result(g, rc, <<>>, FALSE))
  BY DEF IsResult
<1> DEFINE n == dl_hash_find(h, key, luck)
<1>4. IsResult(dl_hash_set(h, key, v, luck, room, enough))
  <2> DEFINE r == dl_hash_set(h, key, v, luck, room, enough)
  <2>1. r = CASE n = Null -> AddKey(h, key, v, room, enough)
              [] n # Null /\ flag = "LIST" -> AddValue(h, n, v, enough)
              [] n # Null /\ flag # "LIST" -> Result(h, "AGAIN", <<>>, FALSE)
    BY DEF dl_hash_set
  <2> HIDE DEF n, r
  <2>2. \/ r = AddKey(h, key, v, room, enough) \/ r = AddValue(h, n, v, enough)
        \/ r = Result(h, "AGAIN", <<>>, FALSE)
    BY <2>1
  <2>3. IsResult(r)
    BY <1>1, <1>2, <1>3, <2>2
  <2> QED
    BY <2>3 DEF r
<1>5. ASSUME flag \in {"UNIQUE", "LIST", "REPLACE"}
      PROVE  IsResult(dl_phash_set(h, key, v, luck, room))
  <2> DEFINE r == dl_phash_set(h, key, v, luck, room)
             g == [h EXCEPT ![n].key = key, ![n].hash = dl_hash_key(key),
                            ![n].vals = <<fill_v(v)>>]
  <2>1. r = CASE n = Null -> AddKey(h, key, v, room, TRUE)
            [] n # Null /\ flag = "UNIQUE" -> Result(h, "AGAIN", <<>>, FALSE)
            [] n # Null /\ flag = "REPLACE" -> Result(g, "OK", <<>>, FALSE)
            [] n # Null /\ flag = "LIST" -> AddValue(h, n, v, TRUE)
    BY DEF dl_phash_set
  <2> HIDE DEF n, r, g
  <2>2. \/ r = AddKey(h, key, v, room, TRUE) \/ r = AddValue(h, n, v, TRUE)
        \/ r = Result(h, "AGAIN", <<>>, FALSE) \/ r = Result(g, "OK", <<>>, FALSE)
    BY <1>5, <2>1
  <2>3. IsResult(r)
    BY <1>1, <1>2, <1>3, <2>2
  <2> QED
    BY <2>3 DEF r
<1> QED
  BY <1>4, <1>5

Flags == {"UNIQUE", "LIST", "REPLACE"}

\* What every step keeps.
HashInv == flag \in Flags /\ Kept(cells)

LEMMA HashInvInit == HashSizes /\ Init => HashInv
<1>1. ASSUME HashSizes, Init PROVE flag \in Flags /\ cells = [c \in Cells |-> Empty]
  BY <1>1 DEF Init, Flags
<1>2. ASSUME HashSizes PROVE Kept([c \in Cells |-> Empty])
  BY <1>2, NewKept
<1> QED
  BY <1>1, <1>2 DEF HashInv

LEMMA EndsKept ==
    ASSUME HashInv, NEW c, NEW r, Kept(r.cells), Ends(c, r)
    PROVE  HashInv'
<1>1. flag' = flag /\ (cells' = cells \/ cells' = r.cells)
  BY DEF Ends
<1>2. Kept(cells')
  BY <1>1 DEF HashInv
<1>3. Kept(cells)' <=> Kept(cells')
  BY DEF Kept, Layout, SlotKept, Belongs, IsChain, CellRecords, SlotOf
<1> QED
  BY <1>1, <1>2, <1>3 DEF HashInv

LEMMA HashInvStep == HashSizes /\ HashInv /\ [Next]_vars => HashInv'
<1>1. SUFFICES ASSUME HashSizes, HashInv, [Next]_vars PROVE HashInv'
  OBVIOUS
<1>2. Keys \subseteq Seq(Nat) /\ Kept(cells) /\ flag \in Flags
  BY <1>1 DEF HashSizes, HashInv
<1>3. ASSUME NEW key \in Keys, NEW v \in Fresh, NEW luck \in BOOLEAN,
             NEW room \in BOOLEAN, NEW enough \in BOOLEAN,
             HashSet(key, v, luck, room, enough)
      PROVE  HashInv'
  <2>1. Kept(dl_hash_set(cells, key, v, luck, room, enough).cells)
    BY <1>1, <1>2, SetKeeps DEF Fresh
  <2>2. \E c : Ends(c, dl_hash_set(cells, key, v, luck, room, enough))
    BY <1>3 DEF HashSet
  <2> QED
    BY <1>1, <2>1, <2>2, EndsKept
<1>4. ASSUME NEW key \in Keys, NEW v \in Fresh, NEW luck \in BOOLEAN,
             NEW room \in BOOLEAN, NEW enough \in BOOLEAN,
             HashSetRep(key, v, luck, room, enough)
      PROVE  HashInv'
  <2> DEFINE d == dl_hash_del(cells, key, luck)
             r == dl_hash_set(d.cells, key, v, luck, room, enough)
             a == [r EXCEPT !.released = d.released]
  <2>1. Kept(d.cells)
    BY <1>1, <1>2, DelKeeps
  <2>2. \E c : Ends(c, a)
    BY <1>4 DEF HashSetRep
  <2> HIDE DEF d
  <2>3. Kept(r.cells)
    BY <1>1, <1>2, <2>1, SetKeeps DEF Fresh
  <2>4. IsResult(r)
    BY SetsAreResults
  <2> HIDE DEF r
  <2>5. a.cells = r.cells
    BY <2>4, ResultFields
  <2> HIDE DEF a
  <2>6. Kept(a.cells)
    BY <2>3, <2>5
  <2> QED
    BY <1>1, <2>2, <2>6, EndsKept
<1>5. ASSUME NEW key \in Keys, NEW v \in Fresh, NEW luck \in BOOLEAN,
             NEW room \in BOOLEAN, NEW enough \in BOOLEAN,
             PhashSet(key, v, luck, room, enough)
      PROVE  HashInv'
  <2> DEFINE r == dl_phash_set(cells, key, v, luck, room)
             a == [r EXCEPT !.fault = ~enough]
  <2>1. Kept(r.cells)
    BY <1>1, <1>2, PhashSetKeeps DEF Fresh, Flags
  <2>2. \E c : Ends(c, a)
    BY <1>5 DEF PhashSet
  <2>3. IsResult(r)
    BY <1>2, SetsAreResults DEF Flags
  <2> HIDE DEF r
  <2>4. a.cells = r.cells
    BY <2>3, ResultFields
  <2> HIDE DEF a
  <2>5. Kept(a.cells)
    BY <2>1, <2>4
  <2> QED
    BY <1>1, <2>2, <2>5, EndsKept
<1>6. ASSUME NEW key \in Keys, NEW luck \in BOOLEAN, HashDel(key, luck) PROVE HashInv'
  <2>1. Kept(dl_hash_del(cells, key, luck).cells)
    BY <1>1, <1>2, DelKeeps
  <2>2. \E c : Ends(c, dl_hash_del(cells, key, luck))
    BY <1>6 DEF HashDel
  <2> QED
    BY <1>1, <2>1, <2>2, EndsKept
<1>7. CASE HashDestroy
  <2> DEFINE chains == FlattenSeq([s \in 1 .. Slots |-> Chain(cells, s)])
             all == FlattenSeq([i \in DOMAIN chains |-> free_v(cells[chains[i]].vals)])
             r == Result([c \in Cells |-> Empty], answer, all, FALSE)
  <2>1. \E c : Ends(c, r)
    BY <1>7 DEF HashDestroy
  <2> HIDE DEF all
  <2>2. r.cells = [c \in Cells |-> Empty]
    BY DEF Result
  <2> HIDE DEF r
  <2>3. Kept(r.cells)
    BY <1>1, <2>2, NewKept
  <2> QED
    BY <1>1, <2>1, <2>3, EndsKept
<1>8. CASE UNCHANGED vars
  <2>1. flag' = flag /\ cells' = cells
    BY <1>8 DEF vars
  <2>2. Kept(cells)' <=> Kept(cells')
    BY DEF Kept, Layout, SlotKept, Belongs, IsChain, CellRecords, SlotOf
  <2> QED
    BY <1>2, <2>1, <2>2 DEF HashInv
<1> QED
  BY <1>1, <1>3, <1>4, <1>5, <1>6, <1>7, <1>8 DEF Next

\* A cell is in use exactly when it hangs in the chain of its key's slot, there
\* once: dl_hash_set, dl_phash_set and dl_hash_del, which moves nodes between
\* slots and chains, lose no node and link none twice (Maps.TypeOK for the hash).
THEOREM HashTypeAlways ==
    ASSUME HashSizes
    PROVE  Spec => []TypeOK
<1>1. Init => HashInv
  BY HashInvInit
<1>2. HashInv /\ [Next]_vars => HashInv'
  BY HashInvStep
<1>3. HashInv => TypeOK
  <2>1. SUFFICES ASSUME HashInv PROVE TypeOK
    OBVIOUS
  <2>2. PICK Q : Layout(cells, Q)
    BY <2>1 DEF HashInv, Kept
  <2>3. cells \in [Cells -> CellRecords] /\ \A s \in 1 .. Slots : Chain(cells, s) = Q[s]
    BY <2>2, ChainLayout DEF Layout
  <2>4. ASSUME NEW c \in Cells
        PROVE  cells[c].next \in {Null} \cup (Slots + 1) .. (Slots + MaxNodes)
    BY <2>3 DEF CellRecords, Links
  <2>5. ASSUME NEW s \in 1 .. Slots
        PROVE  /\ IsInjective(Chain(cells, s))
               /\ \A c \in ToSet(Chain(cells, s)) :
                     cells[c].vals # <<>> /\ SlotOf(cells[c].key) = s
    <3> DEFINE q == Q[s]
    <3>1. q \in Seq(Cells) /\ SlotKept(cells, s, q) /\ Chain(cells, s) = q
      BY <2>2, <2>3 DEF Layout
    <3>2. ASSUME NEW c \in ToSet(q) PROVE cells[c].vals # <<>> /\ SlotOf(cells[c].key) = s
      <4>1. c \in Cells
        <5>1. PICK i \in 1 .. Len(q) : q[i] = c
          BY <3>1, InChain
        <5> QED
          BY <3>1, <5>1
      <4> QED
        BY <2>2, <4>1, ChainOf
    <3> HIDE DEF q
    <3>3. \A i, j \in 1 .. Len(q) : q[i] = q[j] => i = j
      <4>1. CASE q = <<>>
        BY <4>1
      <4>2. CASE q # <<>>
        BY <3>1, <4>2 DEF SlotKept, IsChain
      <4> QED
        BY <4>1, <4>2
    <3>4. IsInjective(q)
      BY <3>1, <3>3 DEF IsInjective
    <3> QED
      BY <3>1, <3>2, <3>4
  <2>6. ASSUME NEW c \in Cells, cells[c].vals # <<>>
        PROVE  c \in ToSet(Chain(cells, SlotOf(cells[c].key)))
    <3>1. cells[c].key \in Seq(Nat)
      BY <2>3 DEF CellRecords
    <3>2. SlotOf(cells[c].key) \in 1 .. Slots
      BY <3>1, SlotOfType
    <3> QED
      BY <2>2, <2>3, <2>6, <3>2 DEF Layout
  <2> QED
    BY <2>4, <2>5, <2>6 DEF TypeOK
<1> QED
  BY <1>1, <1>2, <1>3, PTL DEF Spec

-------------------------------------------------------------------------------
(* The table is a map.                                                       *)

Used(h, c) == h[c].vals # <<>>

\* Keys are stored as callers gave them, each in one cell.
KeysUsed(h) == \A c \in Cells : Used(h, c) => h[c].key \in Keys
Distinct(h) == \A c, d \in Cells : Used(h, c) /\ Used(h, d) /\ h[c].key = h[d].key => c = d

LEMMA ValuesNone ==
    ASSUME NEW h, NEW k, \A c \in Cells : Used(h, c) => h[c].key # k
    PROVE  ValuesOf(h, k) = <<>>
<1>1. {c \in Cells : h[c].vals # <<>> /\ h[c].key = k} = {}
  BY DEF Used
<1> QED
  BY <1>1 DEF ValuesOf

LEMMA ValuesOne ==
    ASSUME NEW h, Distinct(h), NEW c \in Cells, Used(h, c), NEW k, h[c].key = k
    PROVE  ValuesOf(h, k) = h[c].vals
<1> DEFINE of == {d \in Cells : h[d].vals # <<>> /\ h[d].key = k}
<1>1. of = {c}
  BY DEF Used, Distinct
<1>2. Cardinality(of) = 1
  BY <1>1, FS_Singleton
<1>3. (CHOOSE d \in of : TRUE) = c
  BY <1>1
<1>4. ValuesOf(h, k) = IF of = {} THEN <<>>
                       ELSE IF Cardinality(of) > 1 THEN <<"twice">>
                       ELSE h[CHOOSE d \in of : TRUE].vals
  BY DEF ValuesOf
<1> HIDE DEF of
<1>5. of # {} /\ ~(Cardinality(of) > 1)
  BY <1>1, <1>2
<1> QED
  BY <1>3, <1>4, <1>5

\* g is h with other values for one key.
Turned(h, g, key, new) ==
    /\ KeysUsed(g) /\ Distinct(g)
    /\ ValuesOf(g, key) = new
    /\ \A k \in Keys : k # key => ValuesOf(g, k) = ValuesOf(h, k)

\* A key that keeps its values, wherever they are.
LEMMA OtherKey ==
    ASSUME NEW h, Distinct(h), NEW g, Distinct(g), NEW k,
           \A c \in Cells : Used(h, c) /\ h[c].key = k =>
                \E d \in Cells : g[d].key = k /\ g[d].vals = h[c].vals,
           \A c \in Cells : Used(g, c) /\ g[c].key = k =>
                \E d \in Cells : h[d].key = k /\ h[d].vals = g[c].vals
    PROVE  ValuesOf(g, k) = ValuesOf(h, k)
<1>1. CASE \E c \in Cells : Used(h, c) /\ h[c].key = k
  <2>1. PICK c \in Cells : Used(h, c) /\ h[c].key = k
    BY <1>1
  <2>2. PICK d \in Cells : g[d].key = k /\ g[d].vals = h[c].vals
    BY <2>1
  <2>3. Used(g, d)
    BY <2>1, <2>2 DEF Used
  <2>4. ValuesOf(h, k) = h[c].vals
    BY <2>1, ValuesOne
  <2>5. ValuesOf(g, k) = g[d].vals
    BY <2>2, <2>3, ValuesOne
  <2> QED
    BY <2>2, <2>4, <2>5
<1>2. CASE ~\E c \in Cells : Used(h, c) /\ h[c].key = k
  <2>1. ~\E c \in Cells : Used(g, c) /\ g[c].key = k
    BY <1>2 DEF Used
  <2>2. ValuesOf(h, k) = <<>>
    BY <1>2, ValuesNone
  <2>3. ValuesOf(g, k) = <<>>
    BY <2>1, ValuesNone
  <2> QED
    BY <2>2, <2>3
<1> QED
  BY <1>1, <1>2

\* A call that changes what one cell holds, all of it about one key.
LEMMA OneCellTurns ==
    ASSUME NEW h, KeysUsed(h), Distinct(h), NEW g, NEW key \in Keys, NEW c \in Cells,
           \A d \in Cells : d # c => g[d].key = h[d].key /\ g[d].vals = h[d].vals,
           \A d \in Cells : Used(h, d) => (h[d].key = key <=> d = c),
           Used(g, c) => g[c].key = key
    PROVE  Turned(h, g, key, g[c].vals)
<1>1. KeysUsed(g)
  BY DEF KeysUsed, Used
<1>2. Distinct(g)
  BY DEF Distinct, Used
<1>3. ValuesOf(g, key) = g[c].vals
  <2>1. CASE Used(g, c)
    BY <1>2, <2>1, ValuesOne
  <2>2. CASE ~Used(g, c)
    <3>1. \A d \in Cells : Used(g, d) => g[d].key # key
      BY <2>2 DEF Used
    <3>2. ValuesOf(g, key) = <<>>
      BY <3>1, ValuesNone
    <3> QED
      BY <2>2, <3>2 DEF Used
  <2> QED
    BY <2>1, <2>2
<1>4. ASSUME NEW k \in Keys, k # key PROVE ValuesOf(g, k) = ValuesOf(h, k)
  <2>1. ASSUME NEW d \in Cells, Used(h, d), h[d].key = k
        PROVE  \E e \in Cells : g[e].key = k /\ g[e].vals = h[d].vals
    BY <1>4, <2>1
  <2>2. ASSUME NEW d \in Cells, Used(g, d), g[d].key = k
        PROVE  \E e \in Cells : h[e].key = k /\ h[e].vals = g[d].vals
    BY <1>4, <2>2
  <2> QED
    BY <1>2, <2>1, <2>2, OtherKey
<1> QED
  BY <1>1, <1>2, <1>3, <1>4 DEF Turned

\* A cell's key goes, and another cell's moves there.
LEMMA MoveTurns ==
    ASSUME NEW h, KeysUsed(h), Distinct(h), NEW g, NEW key \in Keys,
           NEW s \in Cells, NEW n \in Cells, s # n, Used(h, s), Used(h, n), h[s].key = key,
           g[s] = h[n], ~Used(g, n), \A d \in Cells : d # s /\ d # n => g[d] = h[d]
    PROVE  Turned(h, g, key, <<>>)
<1>1. KeysUsed(g)
  BY DEF KeysUsed, Used
<1>2. Distinct(g)
  BY DEF Distinct, Used
<1>3. \A d \in Cells : Used(g, d) => g[d].key # key
  <2>1. ASSUME NEW d \in Cells, Used(g, d), g[d].key = key PROVE FALSE
    <3>1. CASE d = s
      BY <2>1, <3>1 DEF Distinct, Used
    <3>2. CASE d # s
      <4>1. d # n /\ g[d] = h[d]
        BY <2>1, <3>2
      <4> QED
        BY <2>1, <3>2, <4>1 DEF Distinct, Used
    <3> QED
      BY <3>1, <3>2
  <2> QED
    BY <2>1
<1>4. ValuesOf(g, key) = <<>>
  BY <1>3, ValuesNone
<1>5. ASSUME NEW k \in Keys, k # key PROVE ValuesOf(g, k) = ValuesOf(h, k)
  <2>1. ASSUME NEW d \in Cells, Used(h, d), h[d].key = k
        PROVE  \E e \in Cells : g[e].key = k /\ g[e].vals = h[d].vals
    <3>1. d # s
      BY <1>5, <2>1
    <3>2. CASE d = n
      BY <2>1, <3>2
    <3>3. CASE d # n
      BY <2>1, <3>1, <3>3
    <3> QED
      BY <3>2, <3>3
  <2>2. ASSUME NEW d \in Cells, Used(g, d), g[d].key = k
        PROVE  \E e \in Cells : h[e].key = k /\ h[e].vals = g[d].vals
    <3>1. CASE d = s
      BY <2>2, <3>1
    <3>2. CASE d # s
      BY <2>2, <3>2
    <3> QED
      BY <3>1, <3>2
  <2> QED
    BY <1>2, <2>1, <2>2, OtherKey
<1> QED
  BY <1>1, <1>2, <1>4, <1>5 DEF Turned

Good(h) == Kept(h) /\ KeysUsed(h) /\ Distinct(h)

\* A search finds the key that is searched for, or there is none.
LEMMA FindGood ==
    ASSUME HashSizes, KeysApart, NEW h, Good(h), NEW key \in Keys, NEW luck,
           NEW n, n = dl_hash_find(h, key, luck)
    PROVE  \/ n = Null /\ \A c \in Cells : Used(h, c) => h[c].key # key
           \/ n # Null /\ n \in Cells /\ Used(h, n) /\ h[n].key = key
<1>1. PICK Q : Layout(h, Q)
  BY DEF Good, Kept
<1>2. key \in Seq(Nat) /\ Keys \subseteq Seq(Nat)
  BY DEF HashSizes
<1>3. ASSUME NEW c \in Cells, Used(h, c) PROVE h[c].hash = dl_hash_key(h[c].key)
  <2> DEFINE s == SlotOf(h[c].key)
  <2>1. s \in 1 .. Slots
    BY <1>1, SlotOfType DEF Layout, CellRecords
  <2>2. c \in ToSet(Q[s])
    BY <1>1, <1>3 DEF Layout, Used
  <2> HIDE DEF s
  <2>3. Q[s] \in Seq(Cells) /\ \A i \in 1 .. Len(Q[s]) : Belongs(h[Q[s][i]], s)
    BY <1>1, <2>1, SlotInUse
  <2>4. PICK i \in 1 .. Len(Q[s]) : Q[s][i] = c
    BY <2>2, <2>3, InChain
  <2> QED
    BY <2>3, <2>4 DEF Belongs
<1>4. CASE n = Null
  <2>1. ASSUME NEW c \in Cells, Used(h, c), h[c].key = key PROVE FALSE
    <3>1. ~Matches(h[c], key, luck)
      <4>1. \A d \in Cells : h[d].vals # <<>> /\ SlotOf(h[d].key) = SlotOf(key) =>
                                 ~Matches(h[d], key, luck)
        BY <1>1, <1>2, <1>4, FindIs
      <4> QED
        BY <2>1, <4>1 DEF Used
    <3>2. IsPrefix(key, key) /\ ~(Len(key) < Len(key))
      BY <1>2 DEF IsPrefix
    <3>3. SameBytes(key, key, luck)
      BY <3>2 DEF SameBytes
    <3> QED
      BY <1>3, <2>1, <3>1, <3>3 DEF Matches
  <2> QED
    BY <1>4, <2>1
<1>5. CASE n # Null
  <2>1. n \in Cells /\ Used(h, n) /\ Matches(h[n], key, luck)
    BY <1>1, <1>2, <1>5, FindIs DEF Used
  <2> DEFINE k == h[n].key
  <2>2. k \in Keys
    BY <2>1 DEF Good, KeysUsed
  <2>3. dl_hash_key(k) = dl_hash_key(key) /\ SameBytes(k, key, luck)
    BY <1>3, <2>1 DEF Matches
  <2> HIDE DEF k
  <2>4. IsPrefix(k, key) \/ IsPrefix(key, k)
    BY <2>3 DEF SameBytes
  <2>5. k = key
    BY <2>2, <2>3, <2>4 DEF KeysApart
  <2> QED
    BY <1>5, <2>1, <2>5 DEF k
<1> QED
  BY <1>4, <1>5

LEMMA SameTurns ==
    ASSUME NEW h, Good(h), NEW key \in Keys
    PROVE  Turned(h, h, key, ValuesOf(h, key))
BY DEF Good, Turned

\* A key that is not there is added, or there is no memory for it.
LEMMA AddKeyTurns ==
    ASSUME HashSizes, NEW h, Good(h), NEW key \in Keys, NEW v \in Values,
           NEW room, NEW enough, \A c \in Cells : Used(h, c) => h[c].key # key,
           NEW r, r = AddKey(h, key, v, room, enough)
    PROVE  \/ r.answer = "OK" /\ Turned(h, r.cells, key, <<fill_v(v)>>)
           \/ r.answer = "ERROR" /\ r.cells = h /\ NoRoom(h, room)
<1> DEFINE s == SlotOf(key)
           c == NewNode(h)
           g == [h EXCEPT ![s] = Filled(key, v, Null)]
           b == BehindFirst(h, s, c, key, v)
           val == fill_v(v)
<1>1. PICK Q : Layout(h, Q)
  BY DEF Good, Kept
<1>2. h \in [Cells -> CellRecords] /\ key \in Seq(Nat)
  BY <1>1 DEF Layout, HashSizes
<1>3. s \in 1 .. Slots /\ s \in Cells
  BY <1>2, SlotOfType DEF Cells, HashSizes
<1>4. \A x : Filled(key, v, x).key = key /\ Filled(key, v, x).vals = <<val>> /\ <<val>> # <<>>
  BY DEF Filled
<1>5. r = IF h[s].vals = <<>> THEN Result(g, "OK", <<>>, ~enough)
          ELSE IF NoRoom(h, room) THEN Result(h, "ERROR", <<>>, FALSE)
          ELSE Result(b, "OK", <<>>, ~enough)
  BY DEF AddKey, NoRoom
<1>6. CASE h[s].vals = <<>>
  <2>1. g[s] = Filled(key, v, Null) /\ \A d \in Cells : d # s => g[d] = h[d]
    BY <1>2, <1>3
  <2>2. r.cells = g /\ r.answer = "OK"
    BY <1>5, <1>6 DEF Result
  <2> HIDE DEF g, s, val
  <2>3. \A d \in Cells : d # s => g[d].key = h[d].key /\ g[d].vals = h[d].vals
    BY <2>1
  <2>4. \A d \in Cells : Used(h, d) => (h[d].key = key <=> d = s)
    BY <1>6 DEF Used
  <2>5. g[s].key = key /\ g[s].vals = <<val>>
    BY <1>4, <2>1
  <2>6. Turned(h, g, key, g[s].vals)
    BY <1>3, <2>3, <2>4, <2>5, OneCellTurns DEF Good
  <2> QED
    BY <2>2, <2>5, <2>6 DEF val
<1>7. CASE h[s].vals # <<>> /\ NoRoom(h, room)
  BY <1>5, <1>7 DEF Result
<1>8. CASE h[s].vals # <<>> /\ ~NoRoom(h, room)
  <2>1. c \in Cells /\ c \notin 1 .. Slots /\ h[c].vals = <<>>
    BY <1>1, <1>8, NewNodeIs DEF NoRoom
  <2>2. r.cells = b /\ r.answer = "OK"
    BY <1>5, <1>8 DEF Result
  <2> DEFINE e == Filled(key, v, h[s].next)
  <2>3. b = [h EXCEPT ![s].next = c, ![c] = e]
    BY DEF BehindFirst
  <2>4. e.key = key /\ e.vals = <<val>>
    BY <1>4
  <2> HIDE DEF e, s, b, c, val
  <2>5. b[c] = e /\ b[s] = [h[s] EXCEPT !.next = c] /\ \A d \in Cells : d # s /\ d # c => b[d] = h[d]
    BY <1>2, <1>3, <2>1, <2>3
  <2>6. b[s].key = h[s].key /\ b[s].vals = h[s].vals
    BY <1>2, <1>3, <2>5 DEF CellRecords
  <2>7. \A d \in Cells : d # c => b[d].key = h[d].key /\ b[d].vals = h[d].vals
    BY <2>5, <2>6
  <2>8. \A d \in Cells : Used(h, d) => (h[d].key = key <=> d = c)
    BY <2>1 DEF Used
  <2>9. Turned(h, b, key, b[c].vals)
    BY <2>1, <2>4, <2>5, <2>7, <2>8, OneCellTurns DEF Good
  <2> QED
    BY <2>2, <2>4, <2>5, <2>9 DEF val
<1> QED
  BY <1>6, <1>7, <1>8

\* A key that is there gets other values.
LEMMA ChangeTurns ==
    ASSUME NEW h, Good(h), NEW key \in Keys, NEW n \in Cells, Used(h, n), h[n].key = key,
           NEW g, \A d \in Cells : d # n => g[d] = h[d], Used(g, n) => g[n].key = key
    PROVE  Turned(h, g, key, g[n].vals)
<1>1. \A d \in Cells : d # n => g[d].key = h[d].key /\ g[d].vals = h[d].vals
  OBVIOUS
<1>2. \A d \in Cells : Used(h, d) => (h[d].key = key <=> d = n)
  BY DEF Good, Distinct
<1> QED
  BY <1>1, <1>2, OneCellTurns DEF Good

\* dl_hash_set.
LEMMA SetTurns ==
    ASSUME HashSizes, KeysApart, NEW h, Good(h), NEW key \in Keys, NEW v \in Values,
           NEW luck, NEW room, NEW enough, NEW old, old = ValuesOf(h, key),
           NEW r, r = dl_hash_set(h, key, v, luck, room, enough)
    PROVE  \/ r.answer = "OK" /\ old = <<>> /\ Turned(h, r.cells, key, <<fill_v(v)>>)
           \/ r.answer = "ERROR" /\ old = <<>> /\ r.cells = h /\ NoRoom(h, room)
           \/ /\ r.answer = "OK" /\ old # <<>> /\ flag = "LIST"
              /\ Turned(h, r.cells, key, InsertAt(old, 2, fill_v(v)))
           \/ r.answer = "AGAIN" /\ old # <<>> /\ flag # "LIST" /\ r.cells = h
<1> DEFINE n == dl_hash_find(h, key, luck)
<1>1. r = CASE n = Null -> AddKey(h, key, v, room, enough)
            [] n # Null /\ flag = "LIST" -> AddValue(h, n, v, enough)
            [] n # Null /\ flag # "LIST" -> Result(h, "AGAIN", <<>>, FALSE)
  BY DEF dl_hash_set
<1>2. \/ n = Null /\ \A c \in Cells : Used(h, c) => h[c].key # key
      \/ n # Null /\ n \in Cells /\ Used(h, n) /\ h[n].key = key
  BY FindGood
<1> HIDE DEF n
<1>3. CASE n = Null
  <2>1. r = AddKey(h, key, v, room, enough)
    BY <1>1, <1>3
  <2>2. old = <<>>
    BY <1>2, <1>3, ValuesNone
  <2>3. \/ r.answer = "OK" /\ Turned(h, r.cells, key, <<fill_v(v)>>)
        \/ r.answer = "ERROR" /\ r.cells = h /\ NoRoom(h, room)
    BY <1>2, <1>3, <2>1, AddKeyTurns
  <2> QED
    BY <2>2, <2>3
<1>4. ASSUME n # Null PROVE old = h[n].vals /\ old # <<>>
  BY <1>2, <1>4, ValuesOne DEF Good, Used
<1>5. CASE n # Null /\ flag = "LIST"
  <2> DEFINE g == [h EXCEPT ![n].vals = InsertAt(@, 2, fill_v(v))]
             new == InsertAt(old, 2, fill_v(v))
  <2>1. r.cells = g /\ r.answer = "OK"
    <3>1. r = AddValue(h, n, v, enough)
      BY <1>1, <1>5
    <3> QED
      BY <3>1 DEF AddValue, Result
  <2>2. h \in [Cells -> CellRecords]
    BY DEF Good, Kept, Layout
  <2>3. g[n].vals = new /\ g[n].key = h[n].key /\ \A d \in Cells : d # n => g[d] = h[d]
    <3>1. g = [h EXCEPT ![n] = [h[n] EXCEPT !.vals = new]]
      BY <1>4, <1>5, <2>2
    <3> DEFINE a == h[n]
               e == [a EXCEPT !.vals = new]
    <3> HIDE DEF g, new
    <3>2. e.vals = new /\ e.key = a.key
      BY <1>2, <1>5, <2>2 DEF CellRecords
    <3>3. g[n] = e /\ \A d \in Cells : d # n => g[d] = h[d]
      BY <1>2, <1>5, <2>2, <3>1
    <3> QED
      BY <3>2, <3>3
  <2> HIDE DEF g, new
  <2>4. Turned(h, g, key, g[n].vals)
    BY <1>2, <1>5, <2>3, ChangeTurns
  <2> QED
    BY <1>4, <1>5, <2>1, <2>3, <2>4 DEF new
<1>6. CASE n # Null /\ flag # "LIST"
  <2>1. r.cells = h /\ r.answer = "AGAIN"
    BY <1>1, <1>6 DEF Result
  <2> QED
    BY <1>4, <1>6, <2>1
<1> QED
  BY <1>3, <1>5, <1>6

\* dl_phash_set.
LEMMA PhashSetTurns ==
    ASSUME HashSizes, KeysApart, NEW h, Good(h), NEW key \in Keys, NEW v \in Values,
           NEW luck, NEW room, NEW old, old = ValuesOf(h, key), flag \in Flags,
           NEW r, r = dl_phash_set(h, key, v, luck, room)
    PROVE  \/ r.answer = "OK" /\ old = <<>> /\ Turned(h, r.cells, key, <<fill_v(v)>>)
           \/ r.answer = "ERROR" /\ old = <<>> /\ r.cells = h /\ NoRoom(h, room)
           \/ /\ r.answer = "OK" /\ old # <<>> /\ flag = "LIST"
              /\ Turned(h, r.cells, key, InsertAt(old, 2, fill_v(v)))
           \/ /\ r.answer = "OK" /\ old # <<>> /\ flag = "REPLACE"
              /\ Turned(h, r.cells, key, <<fill_v(v)>>)
           \/ r.answer = "AGAIN" /\ old # <<>> /\ flag = "UNIQUE" /\ r.cells = h
<1> DEFINE n == dl_hash_find(h, key, luck)
           g == [h EXCEPT ![n].key = key, ![n].hash = dl_hash_key(key),
                          ![n].vals = <<fill_v(v)>>]
<1>1. r = CASE n = Null -> AddKey(h, key, v, room, TRUE)
            [] n # Null /\ flag = "UNIQUE" -> Result(h, "AGAIN", <<>>, FALSE)
            [] n # Null /\ flag = "REPLACE" -> Result(g, "OK", <<>>, FALSE)
            [] n # Null /\ flag = "LIST" -> AddValue(h, n, v, TRUE)
  BY DEF dl_phash_set
<1>2. \/ n = Null /\ \A c \in Cells : Used(h, c) => h[c].key # key
      \/ n # Null /\ n \in Cells /\ Used(h, n) /\ h[n].key = key
  BY FindGood
<1>3. h \in [Cells -> CellRecords]
  BY DEF Good, Kept, Layout
<1> HIDE DEF n
<1>4. CASE n = Null
  <2> HIDE DEF g
  <2>1. r = AddKey(h, key, v, room, TRUE)
    BY <1>1, <1>4
  <2>2. old = <<>>
    BY <1>2, <1>4, ValuesNone
  <2>3. \/ r.answer = "OK" /\ Turned(h, r.cells, key, <<fill_v(v)>>)
        \/ r.answer = "ERROR" /\ r.cells = h /\ NoRoom(h, room)
    <3> DEFINE enough == TRUE
    <3>1. r = AddKey(h, key, v, room, enough)
      BY <2>1
    <3> HIDE DEF enough
    <3> QED
      BY <1>2, <1>4, <3>1, AddKeyTurns
  <2> QED
    BY <2>2, <2>3
<1>5. ASSUME n # Null PROVE old = h[n].vals /\ old # <<>>
  BY <1>2, <1>5, ValuesOne DEF Good, Used
<1>6. CASE n # Null /\ flag = "UNIQUE"
  <2> HIDE DEF g
  <2>1. r = Result(h, "AGAIN", <<>>, FALSE)
    BY <1>1, <1>6
  <2>2. r.cells = h /\ r.answer = "AGAIN"
    BY <2>1 DEF Result
  <2> QED
    BY <1>5, <1>6, <2>2
<1>7. CASE n # Null /\ flag = "REPLACE"
  <2> DEFINE val == fill_v(v)
             a == h[n]
  <2>1. g[n].vals = <<val>> /\ g[n].key = key /\ \A d \in Cells : d # n => g[d] = h[d]
    <3> DEFINE hash == dl_hash_key(key)
               f1 == [a EXCEPT !.key = key]
               f2 == [f1 EXCEPT !.hash = hash]
               f == [f2 EXCEPT !.vals = <<val>>]
    <3>1. g = [h EXCEPT ![n] = f]
      BY <1>3
    <3>2. a \in CellRecords
      BY <1>2, <1>3, <1>7
    <3> HIDE DEF a, hash, val, g
    <3>3. PICK x1, x2, x3, x4 : a = [key |-> x1, hash |-> x2, next |-> x3, vals |-> x4]
      BY <3>2 DEF CellRecords
    <3>4. f1 = [key |-> key, hash |-> x2, next |-> x3, vals |-> x4]
      BY <3>3
    <3> HIDE DEF f1
    <3>5. f2 = [key |-> key, hash |-> hash, next |-> x3, vals |-> x4]
      BY <3>4
    <3> HIDE DEF f2
    <3>6. f = [key |-> key, hash |-> hash, next |-> x3, vals |-> <<val>>]
      BY <3>5
    <3> HIDE DEF f
    <3>7. g[n] = f /\ \A d \in Cells : d # n => g[d] = h[d]
      BY <1>2, <1>3, <1>7, <3>1
    <3> QED
      BY <3>6, <3>7
  <2> HIDE DEF g
  <2>2. r = Result(g, "OK", <<>>, FALSE)
    BY <1>1, <1>7
  <2>3. r.cells = g /\ r.answer = "OK"
    BY <2>2 DEF Result
  <2> HIDE DEF val
  <2>4. Turned(h, g, key, g[n].vals)
    BY <1>2, <1>7, <2>1, ChangeTurns
  <2> QED
    BY <1>5, <1>7, <2>1, <2>3, <2>4 DEF val
<1>8. CASE n # Null /\ flag = "LIST"
  <2> HIDE DEF g
  <2> DEFINE b == [h EXCEPT ![n].vals = InsertAt(@, 2, fill_v(v))]
             new == InsertAt(old, 2, fill_v(v))
             a == h[n]
             e == [a EXCEPT !.vals = new]
  <2>1. r = AddValue(h, n, v, TRUE)
    BY <1>1, <1>8
  <2>2. r.cells = b /\ r.answer = "OK"
    BY <2>1 DEF AddValue, Result
  <2>3. b = [h EXCEPT ![n] = e]
    BY <1>3, <1>5, <1>8
  <2> HIDE DEF b, new
  <2>4. e.vals = new /\ e.key = a.key
    BY <1>2, <1>3, <1>8 DEF CellRecords
  <2>5. b[n] = e /\ \A d \in Cells : d # n => b[d] = h[d]
    BY <1>2, <1>3, <1>8, <2>3
  <2> HIDE DEF e
  <2>6. Turned(h, b, key, b[n].vals)
    BY <1>2, <1>8, <2>4, <2>5, ChangeTurns
  <2> QED
    BY <1>5, <1>8, <2>2, <2>4, <2>5, <2>6 DEF new
<1> QED
  BY <1>4, <1>6, <1>7, <1>8 DEF Flags

\* Behind a slot hangs another node of the slot, or none.
LEMMA NextIs ==
    ASSUME HashSizes, NEW h, NEW Q, Layout(h, Q), NEW s \in 1 .. Slots,
           h[s].vals # <<>>, h[s].next # Null, NEW n, n = h[s].next
    PROVE  n \in Cells /\ n # s /\ Used(h, n)
<1> DEFINE r == Q[s]
           l == Len(r)
<1>1. r \in Seq(Cells) /\ IsChain(h, s, r)
  BY SlotInUse
<1>2. /\ l \in Nat /\ l # 0 /\ r[1] = s
      /\ \A i \in 1 .. l : h[r[i]].next = IF i = l THEN Null ELSE r[i + 1]
      /\ \A i, j \in 1 .. l : r[i] = r[j] => i = j
      /\ \A i \in 1 .. l : r[i] \in Cells /\ Belongs(h[r[i]], s)
  BY <1>1, SlotInUse DEF IsChain
<1> HIDE DEF r, l
<1>3. 1 \in 1 .. l
  BY <1>2
<1>4. l # 1 /\ n = r[2]
  BY <1>2, <1>3
<1>5. 2 \in 1 .. l
  BY <1>2, <1>4
<1> QED
  BY <1>2, <1>3, <1>4, <1>5 DEF Belongs, Used

\* dl_hash_del.
LEMMA DelTurns ==
    ASSUME HashSizes, KeysApart, NEW h, Good(h), NEW key \in Keys, NEW luck,
           NEW r, r = dl_hash_del(h, key, luck)
    PROVE  r.answer = answer /\ Turned(h, r.cells, key, <<>>)
<1> DEFINE s == SlotOf(key)
           n == dl_hash_find(h, key, luck)
           cut == Unchain(h, s, n)
           up == MoveUp(h, s)
           off == [h EXCEPT ![s] = Empty]
<1>1. /\ r.answer = answer
      /\ r.cells = IF n = Null THEN h ELSE IF n # s THEN cut
                   ELSE IF h[s].next # Null THEN up ELSE off
  BY DEF dl_hash_del, Result
<1>2. \/ n = Null /\ \A c \in Cells : Used(h, c) => h[c].key # key
      \/ n # Null /\ n \in Cells /\ Used(h, n) /\ h[n].key = key
  BY FindGood
<1>3. PICK Q : Layout(h, Q)
  BY DEF Good, Kept
<1>4. h \in [Cells -> CellRecords] /\ key \in Seq(Nat)
  BY <1>3 DEF Layout, HashSizes
<1>5. s \in 1 .. Slots /\ s \in Cells
  BY <1>4, SlotOfType DEF Cells, HashSizes
<1> HIDE DEF n, s
<1>6. CASE n = Null
  <2>1. ValuesOf(h, key) = <<>>
    BY <1>2, <1>6, ValuesNone
  <2> QED
    BY <1>1, <1>6, <2>1, SameTurns
<1>7. CASE n # Null /\ n # s
  <2> DEFINE chain == Chain(h, s)
             b == CHOOSE c \in ToSet(chain) : h[c].next = n
             x == h[n].next
  <2>1. cut = [h EXCEPT ![b].next = x, ![n] = Empty]
    BY DEF Unchain
  <2> HIDE DEF cut, b, x
  <2>2. cut[n] = Empty /\ \A d \in Cells : d # n => cut[d] = IF d = b THEN [h[b] EXCEPT !.next = x] ELSE h[d]
    BY <1>2, <1>4, <1>7, <2>1
  <2>3. \A d \in Cells : d # n => cut[d].key = h[d].key /\ cut[d].vals = h[d].vals
    BY <1>4, <2>2 DEF CellRecords
  <2>4. cut[n].vals = <<>>
    BY <2>2, EmptyType
  <2>5. \A d \in Cells : Used(h, d) => (h[d].key = key <=> d = n)
    BY <1>2, <1>7 DEF Good, Distinct
  <2>6. Used(cut, n) => cut[n].key = key
    BY <2>4 DEF Used
  <2>7. Turned(h, cut, key, cut[n].vals)
    BY <1>2, <1>7, <2>3, <2>5, <2>6, OneCellTurns DEF Good
  <2> QED
    BY <1>1, <1>7, <2>4, <2>7
<1>8. CASE n # Null /\ n = s /\ h[s].next # Null
  <2> DEFINE m == h[s].next
  <2>1. m \in Cells /\ m # s /\ Used(h, m)
    BY <1>2, <1>3, <1>5, <1>8, NextIs DEF Used
  <2>2. up = [h EXCEPT ![s] = h[m], ![m] = Empty]
    BY DEF MoveUp
  <2> HIDE DEF m, up
  <2>3. up[s] = h[m] /\ up[m] = Empty /\ \A d \in Cells : d # s /\ d # m => up[d] = h[d]
    BY <1>4, <1>5, <2>1, <2>2
  <2>4. ~Used(up, m)
    BY <2>3, EmptyType DEF Used
  <2>5. Turned(h, up, key, <<>>)
    BY <1>2, <1>5, <1>8, <2>1, <2>3, <2>4, MoveTurns DEF Good
  <2> QED
    BY <1>1, <1>8, <2>5
<1>9. CASE n # Null /\ n = s /\ h[s].next = Null
  <2>1. off[s] = Empty /\ \A d \in Cells : d # s => off[d] = h[d]
    BY <1>4, <1>5
  <2> HIDE DEF off
  <2>2. off[s].vals = <<>>
    BY <2>1, EmptyType
  <2>3. Turned(h, off, key, off[s].vals)
    BY <1>2, <1>5, <1>9, <2>1, <2>2, ChangeTurns DEF Used
  <2> QED
    BY <1>1, <1>9, <2>2, <2>3
<1> QED
  BY <1>6, <1>7, <1>8, <1>9

-------------------------------------------------------------------------------
(* The calls are those of MultiMap.                                          *)

MM == INSTANCE MultiMap WITH keys <- Keys, values <- Stored, map <- Contents, mode <- flag

\* dl_hash has no mode that replaces.
MapInv == flag \in Flags /\ (kind = "hash" => flag # "REPLACE") /\ Good(cells)

\* What MultiMap allows for the values of one key: rc is the answer.
SetAllows(old, new, x, memory, rc) ==
    \/ new = MM!With(old, x) /\ rc = IF flag = "UNIQUE" /\ old # <<>> THEN "AGAIN" ELSE "OK"
    \/ ~memory /\ old = <<>> /\ new = old /\ rc = "ERROR"

RepAllows(new, x, memory, rc) ==
    \/ new = <<x>> /\ rc = "OK"
    \/ ~memory /\ new = <<>> /\ rc = "ERROR"

Permitted(c, key, old, new, rc) ==
    \/ \E x \in Stored, memory \in BOOLEAN :
          c = MM!SetCall(key, x, memory) /\ SetAllows(old, new, x, memory, rc)
    \/ \E x \in Stored, memory \in BOOLEAN :
          c = MM!SetRepCall(key, x, memory) /\ RepAllows(new, x, memory, rc)
    \/ c = MM!DeleteCall(key) /\ new = <<>> /\ rc = answer

LEMMA ContentsNext == Contents' = [k \in Keys |-> ValuesOf(cells', k)]
BY DEF Contents, ValuesOf

LEMMA TurnedIsNext ==
    ASSUME flag' = flag, NEW key \in Keys, NEW old, NEW new, old = ValuesOf(cells, key),
           Turned(cells, cells', key, new), Permitted(call', key, old, new, answer')
    PROVE  MM!Next
<1> DEFINE m == Contents
           n == Contents'
<1>1. n = [m EXCEPT ![key] = new] /\ m[key] = old /\ m = [m EXCEPT ![key] = old]
  BY ContentsNext DEF Contents, Turned
<1>2. UNCHANGED <<Keys, Stored, flag>>
  BY DEF Stored, fill_v
<1> HIDE DEF m, n
<1>3. ASSUME NEW x \in Stored, NEW memory \in BOOLEAN, call' = MM!SetCall(key, x, memory),
             SetAllows(old, new, x, memory, answer')
      PROVE  MM!Set(key, x, memory)
  <2>1. CASE new = MM!With(old, x) /\ answer' = IF flag = "UNIQUE" /\ old # <<>> THEN "AGAIN" ELSE "OK"
    BY <1>1, <1>3, <2>1 DEF MM!Set, m, n
  <2>2. CASE ~memory /\ old = <<>> /\ new = old /\ answer' = "ERROR"
    BY <1>1, <1>3, <2>2 DEF MM!Set, m, n
  <2> QED
    BY <1>3, <2>1, <2>2 DEF SetAllows
<1>4. ASSUME NEW x \in Stored, NEW memory \in BOOLEAN, call' = MM!SetRepCall(key, x, memory),
             RepAllows(new, x, memory, answer')
      PROVE  MM!SetRep(key, x, memory)
  BY <1>1, <1>4 DEF RepAllows, MM!SetRep, m, n
<1>5. ASSUME call' = MM!DeleteCall(key), new = <<>>, answer' = answer
      PROVE  MM!Delete(key)
  BY <1>1, <1>5 DEF MM!Delete, m, n
<1> QED
  BY <1>2, <1>3, <1>4, <1>5 DEF MM!Next, Permitted

\* A step that goes through Ends.
LEMMA EndsIsStep ==
    ASSUME MapInv, NEW key \in Keys, NEW c, NEW r, Ends(c, r), Kept(r.cells), NEW old, NEW new,
           old = ValuesOf(cells, key), Turned(cells, r.cells, key, new),
           Permitted(c, key, old, new, r.answer)
    PROVE  MapInv' /\ [MM!Next]_(MM!vars)
<1>1. flag' = flag /\ kind' = kind
  BY DEF Ends
<1>2. Good(cells)' <=> Good(cells')
  BY DEF Good, Kept, KeysUsed, Distinct, Used, Layout, SlotKept, Belongs, IsChain, CellRecords, SlotOf
<1>3. CASE cells' = cells /\ call' = call /\ answer' = answer
  <2>1. Contents' = Contents
    BY <1>3, ContentsNext DEF Contents
  <2>2. UNCHANGED MM!vars
    BY <1>1, <1>3, <2>1 DEF MM!vars, Stored, fill_v
  <2>3. Good(cells')
    BY <1>3 DEF MapInv
  <2> QED
    BY <1>1, <1>2, <2>2, <2>3 DEF MapInv
<1>4. CASE cells' = r.cells /\ call' = c /\ answer' = r.answer
  <2>1. Turned(cells, cells', key, new) /\ Permitted(call', key, old, new, answer')
    BY <1>4
  <2>2. MM!Next
    BY <1>1, <2>1, TurnedIsNext
  <2>3. Good(cells')
    BY <1>4 DEF Good, Turned
  <2> QED
    BY <1>1, <1>2, <2>2, <2>3 DEF MapInv
<1> QED
  BY <1>3, <1>4 DEF Ends

LEMMA NewGood ==
    ASSUME HashSizes, NEW h, h = [c \in Cells |-> Empty]
    PROVE  Good(h) /\ \A k \in Keys : ValuesOf(h, k) = <<>>
<1>1. Kept(h)
  BY NewKept
<1>2. \A c \in Cells : ~Used(h, c)
  BY EmptyType DEF Used
<1>3. KeysUsed(h) /\ Distinct(h)
  BY <1>2 DEF KeysUsed, Distinct
<1>4. ASSUME NEW k \in Keys PROVE ValuesOf(h, k) = <<>>
  BY <1>2, ValuesNone
<1> QED
  BY <1>1, <1>3, <1>4 DEF Good

LEMMA MapInit ==
    ASSUME HashSizes
    PROVE  Init => MapInv /\ MM!Init
<1>1. SUFFICES ASSUME Init PROVE MapInv /\ MM!Init
  OBVIOUS
<1>2. /\ cells = [c \in Cells |-> Empty] /\ call = MM!OtherCall /\ answer = "OK"
      /\ flag \in Flags /\ (kind = "hash" => flag # "REPLACE")
  BY <1>1 DEF Init, Flags, OtherCall, MM!OtherCall
<1>3. Good(cells) /\ \A k \in Keys : ValuesOf(cells, k) = <<>>
  BY <1>2, NewGood
<1>4. Contents = MM!Nothing
  BY <1>3 DEF Contents, MM!Nothing
<1> QED
  BY <1>2, <1>3, <1>4 DEF MapInv, MM!Init, Flags

\* What a set is allowed to do, by the answer.
LEMMA SetPermitted ==
    ASSUME flag \in Flags, NEW key, NEW old, NEW new, NEW v \in Values, NEW memory \in BOOLEAN,
           NEW rc,
           \/ rc = "OK" /\ old = <<>> /\ new = <<fill_v(v)>>
           \/ rc = "ERROR" /\ old = <<>> /\ new = old /\ ~memory
           \/ rc = "OK" /\ old # <<>> /\ flag = "LIST" /\ new = InsertAt(old, 2, fill_v(v))
           \/ rc = "OK" /\ old # <<>> /\ flag = "REPLACE" /\ new = <<fill_v(v)>>
           \/ rc = "AGAIN" /\ old # <<>> /\ flag = "UNIQUE" /\ new = old
    PROVE  Permitted(SetCall(key, v, memory), key, old, new, rc)
<1> DEFINE x == fill_v(v)
<1>1. x \in Stored /\ SetCall(key, v, memory) = MM!SetCall(key, x, memory)
  BY DEF Stored, SetCall, MM!SetCall
<1> HIDE DEF x
<1>2. /\ old = <<>> \/ flag = "REPLACE" => MM!With(old, x) = <<x>>
      /\ old # <<>> /\ flag = "UNIQUE" => MM!With(old, x) = old
      /\ old # <<>> /\ flag = "LIST" => MM!With(old, x) = InsertAt(old, 2, x)
  BY DEF MM!With, InsertAt, MM!InsertAt
<1>3. SetAllows(old, new, x, memory, rc)
  <2>1. CASE rc = "OK" /\ old = <<>> /\ new = <<x>>
    BY <1>2, <2>1 DEF SetAllows
  <2>2. CASE rc = "ERROR" /\ old = <<>> /\ new = old /\ ~memory
    BY <2>2 DEF SetAllows
  <2>3. CASE rc = "OK" /\ old # <<>> /\ flag = "LIST" /\ new = InsertAt(old, 2, x)
    BY <1>2, <2>3 DEF SetAllows
  <2>4. CASE rc = "OK" /\ old # <<>> /\ flag = "REPLACE" /\ new = <<x>>
    BY <1>2, <2>4 DEF SetAllows
  <2>5. CASE rc = "AGAIN" /\ old # <<>> /\ flag = "UNIQUE" /\ new = old
    BY <1>2, <2>5 DEF SetAllows
  <2> QED
    BY <2>1, <2>2, <2>3, <2>4, <2>5 DEF x
<1> QED
  BY <1>1, <1>3 DEF Permitted

LEMMA MemoryIs ==
    ASSUME NEW h, NEW room \in BOOLEAN, NEW enough \in BOOLEAN, NEW m, m = Memory(h, room, enough)
    PROVE  m \in BOOLEAN /\ (NoRoom(h, room) => ~m)
BY DEF Memory, NoRoom

LEMMA MapStep ==
    ASSUME HashSizes, KeysApart
    PROVE  MapInv /\ [Next]_vars => MapInv' /\ [MM!Next]_(MM!vars)
<1>1. SUFFICES ASSUME MapInv, [Next]_vars PROVE MapInv' /\ [MM!Next]_(MM!vars)
  OBVIOUS
<1>2. /\ Keys \subseteq Seq(Nat) /\ Good(cells) /\ Kept(cells) /\ flag \in Flags
      /\ kind = "hash" => flag # "REPLACE"
  BY <1>1 DEF HashSizes, MapInv, Good
<1>3. ASSUME NEW key \in Keys, NEW v \in Fresh, NEW luck \in BOOLEAN,
             NEW room \in BOOLEAN, NEW enough \in BOOLEAN,
             HashSet(key, v, luck, room, enough)
      PROVE  MapInv' /\ [MM!Next]_(MM!vars)
  <2> DEFINE r == dl_hash_set(cells, key, v, luck, room, enough)
             old == ValuesOf(cells, key)
             m == Memory(cells, room, enough)
             c == SetCall(key, v, m)
  <2>1. Kept(r.cells) /\ Ends(c, r) /\ v \in Values /\ flag # "REPLACE"
    BY <1>2, <1>3, SetKeeps DEF Fresh, HashSet
  <2>6. m \in BOOLEAN /\ (NoRoom(cells, room) => ~m)
    BY MemoryIs
  <2>2. \/ r.answer = "OK" /\ old = <<>> /\ Turned(cells, r.cells, key, <<fill_v(v)>>)
        \/ r.answer = "ERROR" /\ old = <<>> /\ r.cells = cells /\ NoRoom(cells, room)
        \/ /\ r.answer = "OK" /\ old # <<>> /\ flag = "LIST"
           /\ Turned(cells, r.cells, key, InsertAt(old, 2, fill_v(v)))
        \/ r.answer = "AGAIN" /\ old # <<>> /\ flag # "LIST" /\ r.cells = cells
    BY <1>2, <2>1, SetTurns
  <2>3. Turned(cells, cells, key, old)
    BY <1>2, SameTurns
  <2> HIDE DEF r, old, m
  <2>4. \E new : Turned(cells, r.cells, key, new) /\ Permitted(c, key, old, new, r.answer)
    <3>1. ASSUME r.answer = "OK" /\ old = <<>> PROVE Permitted(c, key, old, <<fill_v(v)>>, r.answer)
      BY <1>2, <2>1, <3>1, <2>6, SetPermitted
    <3>2. ASSUME r.answer = "ERROR", old = <<>>, NoRoom(cells, room)
          PROVE  Permitted(c, key, old, old, r.answer)
      BY <1>2, <2>1, <3>2, <2>6, SetPermitted
    <3>3. ASSUME r.answer = "OK" /\ old # <<>> /\ flag = "LIST"
          PROVE  Permitted(c, key, old, InsertAt(old, 2, fill_v(v)), r.answer)
      BY <1>2, <2>1, <3>3, <2>6, SetPermitted
    <3>4. ASSUME r.answer = "AGAIN" /\ old # <<>> /\ flag # "LIST"
          PROVE  Permitted(c, key, old, old, r.answer)
      <4>1. flag = "UNIQUE"
        BY <1>2, <2>1, <3>4 DEF Flags
      <4> QED
        BY <1>2, <2>1, <3>4, <4>1, <2>6, SetPermitted
    <3> QED
      BY <2>2, <2>3, <3>1, <3>2, <3>3, <3>4
  <2>5. PICK new : Turned(cells, r.cells, key, new) /\ Permitted(c, key, old, new, r.answer)
    BY <2>4
  <2> QED
    BY <1>1, <2>1, <2>5, EndsIsStep DEF old
<1>4. ASSUME NEW key \in Keys, NEW v \in Fresh, NEW luck \in BOOLEAN,
             NEW room \in BOOLEAN, NEW enough \in BOOLEAN,
             HashSetRep(key, v, luck, room, enough)
      PROVE  MapInv' /\ [MM!Next]_(MM!vars)
  <2> DEFINE d == dl_hash_del(cells, key, luck)
             h == d.cells
             r == dl_hash_set(h, key, v, luck, room, enough)
             a == [r EXCEPT !.released = d.released]
             m == Memory(h, room, enough)
             c == SetRepCall(key, v, m)
  <2>1. Ends(c, a) /\ v \in Values
    BY <1>4 DEF HashSetRep, Fresh
  <2>12. m \in BOOLEAN /\ (NoRoom(h, room) => ~m)
    BY MemoryIs
  <2>2. Kept(h) /\ Turned(cells, h, key, <<>>)
    BY <1>2, DelKeeps, DelTurns
  <2> HIDE DEF d, h, m
  <2>3. Good(h) /\ ValuesOf(h, key) = <<>>
    BY <2>2 DEF Good, Turned
  <2> DEFINE none == <<>>
  <2>4. none = ValuesOf(h, key)
    BY <2>3
  <2> HIDE DEF none
  <2>5. \/ r.answer = "OK" /\ none = <<>> /\ Turned(h, r.cells, key, <<fill_v(v)>>)
        \/ r.answer = "ERROR" /\ none = <<>> /\ r.cells = h /\ NoRoom(h, room)
        \/ /\ r.answer = "OK" /\ none # <<>> /\ flag = "LIST"
           /\ Turned(h, r.cells, key, InsertAt(none, 2, fill_v(v)))
        \/ r.answer = "AGAIN" /\ none # <<>> /\ flag # "LIST" /\ r.cells = h
    BY <2>1, <2>3, <2>4, SetTurns
  <2>6. Kept(r.cells) /\ IsResult(r)
    BY <1>2, <2>1, <2>2, SetKeeps, SetsAreResults
  <2> HIDE DEF r
  <2>7. a.cells = r.cells /\ a.answer = r.answer
    BY <2>6, ResultFields
  <2> HIDE DEF a
  <2>8. \/ a.answer = "OK" /\ Turned(cells, a.cells, key, <<fill_v(v)>>)
        \/ a.answer = "ERROR" /\ ~m /\ Turned(cells, a.cells, key, <<>>)
    <3>1. ASSUME NEW new, Turned(h, r.cells, key, new) PROVE Turned(cells, r.cells, key, new)
      BY <2>2, <3>1 DEF Turned
    <3> QED
      BY <2>2, <2>5, <2>7, <2>12, <3>1 DEF none
  <2> DEFINE x == fill_v(v)
  <2>9. x \in Stored /\ c = MM!SetRepCall(key, x, m)
    BY <2>1 DEF Stored, SetRepCall, MM!SetRepCall
  <2> HIDE DEF c
  <2> DEFINE old == ValuesOf(cells, key)
  <2> HIDE DEF old
  <2>10. \E new : Turned(cells, a.cells, key, new) /\ Permitted(c, key, old, new, a.answer)
    <3>1. ASSUME a.answer = "OK" PROVE Permitted(c, key, old, <<x>>, a.answer)
      BY <2>9, <2>12, <3>1 DEF Permitted, RepAllows
    <3>2. ASSUME a.answer = "ERROR", ~m PROVE Permitted(c, key, old, <<>>, a.answer)
      BY <2>9, <2>12, <3>2 DEF Permitted, RepAllows
    <3> QED
      BY <2>8, <3>1, <3>2
  <2>11. PICK new : Turned(cells, a.cells, key, new) /\ Permitted(c, key, old, new, a.answer)
    BY <2>10
  <2> QED
    BY <1>1, <2>1, <2>6, <2>7, <2>11, EndsIsStep DEF old
<1>5. ASSUME NEW key \in Keys, NEW v \in Fresh, NEW luck \in BOOLEAN,
             NEW room \in BOOLEAN, NEW enough \in BOOLEAN,
             PhashSet(key, v, luck, room, enough)
      PROVE  MapInv' /\ [MM!Next]_(MM!vars)
  <2> DEFINE r == dl_phash_set(cells, key, v, luck, room)
             a == [r EXCEPT !.fault = ~enough]
             old == ValuesOf(cells, key)
             m == Memory(cells, room, enough)
             c == SetCall(key, v, m)
  <2>1. Kept(r.cells) /\ Ends(c, a) /\ v \in Values
    BY <1>2, <1>5, PhashSetKeeps DEF Fresh, PhashSet, Flags
  <2>8. m \in BOOLEAN /\ (NoRoom(cells, room) => ~m)
    BY MemoryIs
  <2>2. \/ r.answer = "OK" /\ old = <<>> /\ Turned(cells, r.cells, key, <<fill_v(v)>>)
        \/ r.answer = "ERROR" /\ old = <<>> /\ r.cells = cells /\ NoRoom(cells, room)
        \/ /\ r.answer = "OK" /\ old # <<>> /\ flag = "LIST"
           /\ Turned(cells, r.cells, key, InsertAt(old, 2, fill_v(v)))
        \/ /\ r.answer = "OK" /\ old # <<>> /\ flag = "REPLACE"
           /\ Turned(cells, r.cells, key, <<fill_v(v)>>)
        \/ r.answer = "AGAIN" /\ old # <<>> /\ flag = "UNIQUE" /\ r.cells = cells
    BY <1>2, <2>1, PhashSetTurns
  <2>3. Turned(cells, cells, key, old)
    BY <1>2, SameTurns
  <2>4. IsResult(r)
    BY <1>2, SetsAreResults DEF Flags
  <2> HIDE DEF r, old, m
  <2>5. a.cells = r.cells /\ a.answer = r.answer
    BY <2>4, ResultFields
  <2> HIDE DEF a
  <2>6. \E new : Turned(cells, r.cells, key, new) /\ Permitted(c, key, old, new, r.answer)
    <3>1. ASSUME r.answer = "OK" /\ old = <<>> PROVE Permitted(c, key, old, <<fill_v(v)>>, r.answer)
      BY <1>2, <2>1, <3>1, <2>8, SetPermitted
    <3>2. ASSUME r.answer = "ERROR", old = <<>>, NoRoom(cells, room)
          PROVE  Permitted(c, key, old, old, r.answer)
      BY <1>2, <2>1, <3>2, <2>8, SetPermitted
    <3>3. ASSUME r.answer = "OK" /\ old # <<>> /\ flag = "LIST"
          PROVE  Permitted(c, key, old, InsertAt(old, 2, fill_v(v)), r.answer)
      BY <1>2, <2>1, <3>3, <2>8, SetPermitted
    <3>4. ASSUME r.answer = "OK" /\ old # <<>> /\ flag = "REPLACE"
          PROVE  Permitted(c, key, old, <<fill_v(v)>>, r.answer)
      BY <1>2, <2>1, <3>4, <2>8, SetPermitted
    <3>5. ASSUME r.answer = "AGAIN" /\ old # <<>> /\ flag = "UNIQUE"
          PROVE  Permitted(c, key, old, old, r.answer)
      BY <1>2, <2>1, <3>5, <2>8, SetPermitted
    <3> QED
      BY <2>2, <2>3, <3>1, <3>2, <3>3, <3>4, <3>5
  <2>7. PICK new : Turned(cells, r.cells, key, new) /\ Permitted(c, key, old, new, r.answer)
    BY <2>6
  <2> QED
    BY <1>1, <2>1, <2>5, <2>7, EndsIsStep DEF old
<1>6. ASSUME NEW key \in Keys, NEW luck \in BOOLEAN, HashDel(key, luck)
      PROVE  MapInv' /\ [MM!Next]_(MM!vars)
  <2> DEFINE r == dl_hash_del(cells, key, luck)
             old == ValuesOf(cells, key)
             none == <<>>
             c == DeleteCall(key)
  <2>1. Kept(r.cells) /\ Ends(c, r)
    BY <1>2, <1>6, DelKeeps DEF HashDel
  <2>2. r.answer = answer /\ Turned(cells, r.cells, key, none)
    BY <1>2, DelTurns
  <2> HIDE DEF r, old
  <2>3. Permitted(c, key, old, none, r.answer)
    BY <2>2 DEF Permitted, DeleteCall, MM!DeleteCall
  <2> HIDE DEF none, c
  <2> QED
    BY <1>1, <2>1, <2>2, <2>3, EndsIsStep DEF old
<1>7. ASSUME HashDestroy PROVE MapInv' /\ [MM!Next]_(MM!vars)
  <2> DEFINE chains == FlattenSeq([s \in 1 .. Slots |-> Chain(cells, s)])
             all == FlattenSeq([i \in DOMAIN chains |-> free_v(cells[chains[i]].vals)])
             g == [c \in Cells |-> Empty]
             r == Result(g, answer, all, FALSE)
             c == OtherCall
  <2>1. Ends(c, r)
    BY <1>7 DEF HashDestroy
  <2> HIDE DEF all, g
  <2>2. /\ flag' = flag /\ kind' = kind
        /\ cells' = g /\ call' = MM!OtherCall /\ answer' = answer
    BY <2>1 DEF Ends, Result, OtherCall, MM!OtherCall
  <2>3. Good(g) /\ \A k \in Keys : ValuesOf(g, k) = <<>>
    BY NewGood DEF g
  <2>4. Good(cells)' <=> Good(cells')
    BY DEF Good, Kept, KeysUsed, Distinct, Used, Layout, SlotKept, Belongs, IsChain, CellRecords, SlotOf
  <2>5. MapInv'
    BY <1>2, <2>2, <2>3, <2>4 DEF MapInv
  <2>6. Contents' = MM!Nothing
    BY <2>2, <2>3, ContentsNext DEF MM!Nothing
  <2>7. UNCHANGED <<Keys, Stored, flag>>
    BY <2>2 DEF Stored, fill_v
  <2>8. MM!Next
    BY <2>2, <2>6, <2>7 DEF MM!Next, MM!Destroy
  <2> QED
    BY <2>5, <2>8
<1>8. ASSUME UNCHANGED vars PROVE MapInv' /\ [MM!Next]_(MM!vars)
  <2>1. /\ flag' = flag /\ kind' = kind /\ cells' = cells
        /\ call' = call /\ answer' = answer
    BY <1>8 DEF vars
  <2>2. Good(cells)' <=> Good(cells')
    BY DEF Good, Kept, KeysUsed, Distinct, Used, Layout, SlotKept, Belongs, IsChain, CellRecords, SlotOf
  <2>3. Contents' = Contents
    BY <2>1, ContentsNext DEF Contents
  <2>4. UNCHANGED MM!vars
    BY <2>1, <2>3 DEF MM!vars, Stored, fill_v
  <2> QED
    BY <1>2, <2>1, <2>2, <2>4 DEF MapInv
<1> QED
  BY <1>1, <1>3, <1>4, <1>5, <1>6, <1>7, <1>8 DEF Next

\* The calls of dl_hash_set, dl_phash_set and dl_hash_del are the calls of a map
\* from keys to lists of values: through collisions and nodes that move each call
\* does to its key what it is asked for and nothing to another key, and a set fails
\* only for want of memory (Maps.RefinesMultiMap for the hash).
RefinesMultiMap == MM!MultiMapSpec

THEOREM HashRefinesMultiMap ==
    ASSUME HashSizes, KeysApart
    PROVE  Spec => RefinesMultiMap
<1>1. Init => MapInv /\ MM!Init
  BY MapInit
<1>2. MapInv /\ [Next]_vars => MapInv' /\ [MM!Next]_(MM!vars)
  BY MapStep
<1> QED
  BY <1>1, <1>2, PTL DEF Spec, RefinesMultiMap, MM!MultiMapSpec

\* "key already exits" (dl_hash.c:144): the key that a search finds is the key
\* that was searched for, when no key begins like another one with its hash.
THEOREM HashFindExact ==
    ASSUME HashSizes, KeysApart
    PROVE  Spec => []FindExact
<1>1. Init => MapInv
  BY MapInit
<1>2. MapInv /\ [Next]_vars => MapInv'
  BY MapStep
<1>3. MapInv => FindExact
  BY FindGood DEF MapInv, FindExact
<1> QED
  BY <1>1, <1>2, <1>3, PTL DEF Spec
================================================================================
