------------------------------ MODULE FifoProofs ------------------------------
(***************************************************************************)
(* Proofs about Fifo for every ring size, every width of unsigned int and  *)
(* every number of calls.  The argument is an invariant over the absolute  *)
(* stream positions sent and rcvd, of which in and out are the residues.   *)
(***************************************************************************)
EXTENDS Fifo, TLAPS

-------------------------------------------------------------------------------
(* Residues.                                                                 *)

\* Division with remainder.
LEMMA DivMod ==
    ASSUME NEW a \in Int, NEW m \in Nat \ {0}
    PROVE  /\ a % m \in 0 .. m - 1
           /\ a \div m \in Int
           /\ a = m * (a \div m) + (a % m)
OBVIOUS

\* The only multiple of m strictly between -m and m is 0.
LEMMA NoMultipleBetween ==
    ASSUME NEW q \in Int, NEW m \in Nat \ {0}, -m < m * q, m * q < m
    PROVE  q = 0
<1>1. CASE q >= 1
  <2>1. m * q >= m BY <1>1
  <2> QED BY <2>1
<1>2. CASE q <= -1
  <2>1. m * q <= -m BY <1>2
  <2> QED BY <2>1
<1> QED BY <1>1, <1>2

\* The remainder is unique.
LEMMA ModUnique ==
    ASSUME NEW a \in Int, NEW m \in Nat \ {0}, NEW q \in Int,
           NEW r \in 0 .. m - 1, a = m * q + r
    PROVE  a % m = r
<1>1. a % m \in 0 .. m - 1 /\ a \div m \in Int /\ a = m * (a \div m) + (a % m)
  BY DivMod
<1> DEFINE d == q - (a \div m)
<1>2. m * d = (a % m) - r
  <2>1. m * d = m * q - m * (a \div m) BY <1>1
  <2> QED BY <2>1, <1>1
<1>3. d \in Int BY <1>1
<1>4. d = 0
  <2> HIDE DEF d
  <2> QED BY <1>1, <1>2, <1>3, NoMultipleBetween
<1> QED BY <1>1, <1>2, <1>4

\* Adding to a residue: the index arithmetic of fifo->in += len.
LEMMA ModAdd ==
    ASSUME NEW a \in Int, NEW b \in Int, NEW m \in Nat \ {0}
    PROVE  ((a % m) + b) % m = (a + b) % m
<1> DEFINE x == (a % m) + b
<1>1. a % m \in 0 .. m - 1 /\ a \div m \in Int /\ a = m * (a \div m) + (a % m)
  BY DivMod
<1>2. x \in Int BY <1>1
<1>3. x % m \in 0 .. m - 1 /\ x \div m \in Int /\ x = m * (x \div m) + (x % m)
  BY <1>2, DivMod
<1> DEFINE q == (a \div m) + (x \div m)
<1>4. q \in Int BY <1>1, <1>3
<1>5. m * q = m * (a \div m) + m * (x \div m) BY <1>1, <1>3
<1>6. a + b = m * q + (x % m)
  <2> HIDE DEF q
  <2>1. a + b = m * (a \div m) + x BY <1>1
  <2> HIDE DEF x
  <2> QED BY <2>1, <1>1, <1>2, <1>3, <1>5
<1> HIDE DEF q, x
<1>7. a + b \in Int /\ x % m \in 0 .. m - 1 BY <1>3
<1>8. (a + b) % m = x % m BY <1>4, <1>6, <1>7, ModUnique
<1> QED BY <1>8 DEF x

\* Positions closer together than the ring is long use different slots.
LEMMA DistinctSlots ==
    ASSUME NEW a \in Int, NEW b \in Int, NEW m \in Nat \ {0},
           a # b, -m < a - b, a - b < m
    PROVE  a % m # b % m
<1> SUFFICES ASSUME a % m = b % m PROVE FALSE OBVIOUS
<1>1. a % m \in 0 .. m - 1 /\ a \div m \in Int /\ a = m * (a \div m) + (a % m)
  BY DivMod
<1>2. b % m \in 0 .. m - 1 /\ b \div m \in Int /\ b = m * (b \div m) + (b % m)
  BY DivMod
<1> DEFINE d == (a \div m) - (b \div m)
<1>3. m * d = m * (a \div m) - m * (b \div m) BY <1>1, <1>2
<1>4. d \in Int BY <1>1, <1>2
<1>5. m * d = a - b
  <2> HIDE DEF d
  <2> QED BY <1>1, <1>2, <1>3
<1>6. d = 0
  <2> HIDE DEF d
  <2> QED BY <1>4, <1>5, NoMultipleBetween
<1> QED BY <1>5, <1>6

-------------------------------------------------------------------------------
(* The helpers of dl_fifo.c.                                                 *)

\* What FifoAssumption says of the ring and of unsigned int.
LEMMA Constants ==
    /\ Size \in Nat \ {0} /\ UintMod \in Nat \ {0} /\ Size < UintMod
    /\ MaxLen \in Nat \ {0} /\ MaxTotal \in Nat
BY FifoAssumption

\* The range of unsigned int is a multiple of the ring size.
LEMMA UintModMultiple == \E c \in Int : UintMod = Size * c
<1>1. UintMod \div Size \in Int /\ UintMod = Size * (UintMod \div Size) + (UintMod % Size)
  BY Constants, DivMod
<1>2. UintMod = Size * (UintMod \div Size)
  BY <1>1, FifoAssumption, Constants
<1> QED BY <1>1, <1>2

\* An index that wraps at 2^32 selects the same slot as the position it stands
\* for.
LEMMA SlotOfIndex ==
    ASSUME NEW x \in Int
    PROVE  (x % UintMod) % Size = x % Size
<1> DEFINE y == x % UintMod
<1>1. PICK c \in Int : UintMod = Size * c BY UintModMultiple
<1>u. UintMod \in Nat \ {0} BY Constants
<1>2. y \in Int /\ x \div UintMod \in Int /\ x = UintMod * (x \div UintMod) + y
  BY <1>u, DivMod
<1> HIDE DEF y
<1>3. y % Size \in 0 .. Size - 1 /\ y \div Size \in Int
      /\ y = Size * (y \div Size) + (y % Size)
  BY <1>2, DivMod, Constants
<1> DEFINE q == c * (x \div UintMod) + (y \div Size)
<1>4. q \in Int BY <1>1, <1>2, <1>3
<1>5. Size * q = UintMod * (x \div UintMod) + Size * (y \div Size)
  <2> DEFINE z == x \div UintMod
  <2>1. z \in Int /\ (y \div Size) \in Int BY <1>2, <1>3
  <2> HIDE DEF z
  <2>2. Size * (c * z) = (Size * c) * z BY <2>1, Constants
  <2>3. Size * (c * z + (y \div Size)) = Size * (c * z) + Size * (y \div Size)
    BY <2>1, Constants
  <2> QED BY <2>2, <2>3, <1>1 DEF z
<1> HIDE DEF q
<1>6. x = Size * q + (y % Size)
  <2> DEFINE z == UintMod * (x \div UintMod)
             w == Size * (y \div Size)
  <2>1. z \in Int /\ w \in Int BY <1>2, <1>3, Constants
  <2>2. x = z + y BY <1>2
  <2>3. y = w + (y % Size) BY <1>3
  <2>4. Size * q = z + w BY <1>5
  <2> HIDE DEF z, w
  <2> QED BY <2>1, <2>2, <2>3, <2>4, <1>2, <1>3
<1>7. Size \in Nat \ {0} BY Constants
<1>8. x % Size = y % Size BY <1>3, <1>4, <1>6, <1>7, ModUnique
<1> QED BY <1>8 DEF y

\* The two memcpy of a copy put element j of a batch that starts at stream
\* position x into the slot of position x + j.
LEMMA SlotIs ==
    ASSUME NEW x \in Int, NEW len \in 0 .. Size, NEW j \in 0 .. len - 1
    PROVE  Slot(len, x % UintMod, j) = (x + j) % Size
<1> DEFINE r == x % Size
           q == x \div Size
<1>0. Size \in Nat \ {0} BY Constants
<1>1. r \in 0 .. Size - 1 /\ q \in Int /\ x = Size * q + r
  BY <1>0, DivMod
<1>2. Slot(len, x % UintMod, j) =
        IF j < dl_min(len, Size - r) THEN r + j ELSE j - dl_min(len, Size - r)
  BY SlotOfIndex DEF Slot, Split
<1> HIDE DEF r, q
<1>3. CASE j < Size - r
  <2>1. r + j \in 0 .. Size - 1 BY <1>1, <1>3, <1>0
  <2>2. x + j = Size * q + (r + j) BY <1>1, <1>0
  <2>3. x + j \in Int OBVIOUS
  <2>4. (x + j) % Size = r + j BY <2>1, <2>2, <2>3, <1>0, <1>1, ModUnique
  <2>5. j < dl_min(len, Size - r) BY <1>3, <1>1, <1>0 DEF dl_min
  <2> QED BY <1>2, <2>4, <2>5
<1>4. CASE j >= Size - r
  <2>1. r + j - Size \in 0 .. Size - 1 BY <1>1, <1>4, <1>0
  <2>2. Size * (q + 1) = Size * q + Size BY <1>1, <1>0
  <2>3. x + j = Size * (q + 1) + (r + j - Size) BY <1>1, <2>2, <1>0
  <2>4. (x + j) % Size = r + j - Size
    <3> DEFINE q1 == q + 1
               r1 == r + j - Size
    <3>1. q1 \in Int /\ x + j \in Int BY <1>1
    <3>2. r1 \in 0 .. Size - 1 /\ x + j = Size * q1 + r1 BY <2>1, <2>3
    <3> HIDE DEF q1, r1
    <3>3. (x + j) % Size = r1 BY <3>1, <3>2, <1>0, ModUnique
    <3> QED BY <3>3 DEF r1
  <2>5. dl_min(len, Size - r) = Size - r BY <1>4, <1>1, <1>0 DEF dl_min
  <2>6. ~(j < dl_min(len, Size - r)) BY <2>5, <1>4, <1>1, <1>0
  <2>7. Slot(len, x % UintMod, j) = j - (Size - r) BY <1>2, <2>5, <2>6
  <2>8. j - (Size - r) = r + j - Size BY <1>1, <1>0
  <2> QED BY <2>4, <2>7, <2>8
<1> QED BY <1>1, <1>3, <1>4, <1>0

\* in - out in unsigned arithmetic is the number of elements between the two
\* positions, although each index wrapped on its own.
LEMMA UsedIs ==
    ASSUME NEW s \in Nat, NEW r \in Nat, r <= s, s - r <= Size
    PROVE  ((s % UintMod) - (r % UintMod)) % UintMod = s - r
<1> DEFINE ys == s % UintMod
           yr == r % UintMod
           d == (r \div UintMod) - (s \div UintMod)
<1>0. UintMod \in Nat \ {0} BY Constants
<1>1. ys \in Int /\ s \div UintMod \in Int /\ s = UintMod * (s \div UintMod) + ys
  BY <1>0, DivMod
<1>2. yr \in Int /\ r \div UintMod \in Int /\ r = UintMod * (r \div UintMod) + yr
  BY <1>0, DivMod
<1>3. d \in Int BY <1>1, <1>2
<1>4. UintMod * d = UintMod * (r \div UintMod) - UintMod * (s \div UintMod)
  BY <1>1, <1>2, Constants
<1> HIDE DEF ys, yr, d
<1>5. ys - yr = UintMod * d + (s - r) BY <1>1, <1>2, <1>3, <1>4, Constants
<1>6. s - r \in 0 .. UintMod - 1 BY Constants
<1>7. ys - yr \in Int BY <1>1, <1>2
<1>8. (ys - yr) % UintMod = s - r BY <1>3, <1>5, <1>6, <1>7, <1>0, ModUnique
<1> QED BY <1>8 DEF ys, yr
-------------------------------------------------------------------------------
(* The inductive invariant.                                                  *)

\* in and out are the stream positions modulo 2^32.
IndexInv == in = sent % UintMod /\ out = rcvd % UintMod

\* The ring never holds more than its size ...
BoundInv == rcvd <= sent /\ sent - rcvd <= Size

\* ... and holds every element not yet handed out in the slot of its position.
Stored(ring, from, to) == \A k \in from .. to - 1 : ring[k % Size] = k

DataInv == Stored(data, rcvd, sent)

\* A copy-in in progress fits behind the stored elements; those of its elements
\* that are no longer to do are in their slots.
ProducerInv ==
    ppc = "copy" =>
        /\ sent + plen - rcvd <= Size
        /\ ptodo \subseteq 0 .. plen - 1
        /\ \A j \in (0 .. plen - 1) \ ptodo : data[(sent + j) % Size] = sent + j

\* A copy-out in progress reads stored elements only; those of them that are no
\* longer to do are in the caller's buffer.
ConsumerInv ==
    cpc # "idle" =>
        /\ rcvd + clen <= sent
        /\ ctodo \subseteq 0 .. clen - 1
        /\ \A j \in (0 .. clen - 1) \ ctodo : dst[j] = rcvd + j

IInv == TypeOK /\ IndexInv /\ BoundInv /\ DataInv /\ ProducerInv /\ ConsumerInv

\* Under the invariant the code's index arithmetic is exact.
LEMMA ExactUnused ==
    ASSUME IInv
    PROVE  Used = sent - rcvd /\ dl_fifo_unused = Size - (sent - rcvd)
<1>1. Used = sent - rcvd
  BY UsedIs DEF Used, IInv, TypeOK, IndexInv, BoundInv
<1>2. sent - rcvd \in 0 .. Size
  BY Constants DEF IInv, TypeOK, BoundInv
<1>3. (Size - (sent - rcvd)) % UintMod = Size - (sent - rcvd)
  <2> DEFINE d == Size - (sent - rcvd)
  <2>1. d \in 0 .. UintMod - 1 /\ d = UintMod * 0 + d BY <1>2, Constants
  <2> HIDE DEF d
  <2>2. UintMod \in Nat \ {0} /\ d \in Int BY <2>1, Constants
  <2>3. d % UintMod = d BY <2>1, <2>2, ModUnique
  <2> QED BY <2>3 DEF d
<1> QED BY <1>1, <1>3 DEF dl_fifo_unused

\* Initially nothing has been sent.
LEMMA InitIInv == Init => IInv
<1> SUFFICES ASSUME Init PROVE IInv OBVIOUS
<1>1. TypeOK BY Constants DEF Init, TypeOK, Idx, Arg, Undef
<1>2. 0 % UintMod = 0
  <2>1. UintMod \in Nat \ {0} /\ 0 \in 0 .. UintMod - 1 /\ 0 = UintMod * 0 + 0
    BY Constants
  <2> QED BY <2>1, ModUnique
<1>3. IndexInv BY <1>2 DEF Init, IndexInv
<1> QED BY <1>1, <1>3, Constants
        DEF Init, IInv, BoundInv, DataInv, Stored, ProducerInv, ConsumerInv

\* dl_fifo_in decides how much it accepts.
LEMMA InCallIInv == ASSUME IInv, NEW n \in 0 .. MaxLen, InCall(n) PROVE IInv'
<1> DEFINE l == dl_min(n, Size - (sent - rcvd))
<1>0. MaxLen \in Nat /\ Size \in Nat BY Constants
<1>1. plen' = l /\ ptodo' = 0 .. l - 1
  BY ExactUnused DEF InCall
<1>2. l \in 0 .. MaxLen /\ l <= Size - (sent - rcvd)
  BY <1>0 DEF dl_min, IInv, TypeOK, BoundInv
<1> HIDE DEF l
<1>3. 0 .. l - 1 \in SUBSET Arg
  <2>1. \A j \in 0 .. l - 1 : j \in Arg BY <1>0, <1>2 DEF Arg
  <2> QED BY <2>1
<1>4. TypeOK' BY <1>1, <1>2, <1>3 DEF IInv, TypeOK, InCall, cvars
<1>5. ProducerInv'
  <2>1. sent' = sent /\ rcvd' = rcvd /\ sent \in Nat /\ rcvd \in Nat
    BY DEF InCall, cvars, IInv, TypeOK
  <2>2. sent + l - rcvd <= Size BY <1>0, <1>2, <2>1
  <2>3. (0 .. plen' - 1) \ ptodo' = {} BY <1>1
  <2> QED BY <1>1, <2>1, <2>2, <2>3 DEF ProducerInv
<1> QED BY <1>4, <1>5
        DEF IInv, InCall, cvars, IndexInv, BoundInv, DataInv, ConsumerInv

\* dl_fifo_copy_in stores one element: into a slot that holds none of the
\* elements already in the ring and none of the batch's others.
LEMMA CopyInIInv == ASSUME IInv, dl_fifo_copy_in PROVE IInv'
<1>0. /\ Size \in Nat \ {0} /\ sent \in Nat /\ rcvd \in Nat
      /\ plen \in 0 .. MaxLen /\ MaxLen \in Nat
      /\ data \in [Idx -> Nat \cup {Undef}]
  BY Constants DEF IInv, TypeOK
<1>1. PICK j \in ptodo :
          /\ data' = [data EXCEPT ![Slot(plen, in, j)] = sent + j]
          /\ ptodo' = ptodo \ {j}
  BY DEF dl_fifo_copy_in
<1>2. /\ sent + plen - rcvd <= Size /\ rcvd <= sent
      /\ ptodo \subseteq 0 .. plen - 1
      /\ \A i \in (0 .. plen - 1) \ ptodo : data[(sent + i) % Size] = sent + i
      /\ \A k \in rcvd .. sent - 1 : data[k % Size] = k
  BY DEF dl_fifo_copy_in, IInv, ProducerInv, BoundInv, DataInv, Stored
<1>3. j \in 0 .. plen - 1 BY <1>2
<1> DEFINE z == (sent + j) % Size
<1>4. data' = [data EXCEPT ![z] = sent + j]
  <2>1. plen \in 0 .. Size BY <1>0, <1>2
  <2>2. Slot(plen, sent % UintMod, j) = z BY <1>0, <1>3, <2>1, SlotIs
  <2> QED BY <1>1, <2>2 DEF IInv, IndexInv
<1>5. z \in Idx
  <2>1. sent + j \in Int BY <1>0, <1>3
  <2> QED BY <2>1, <1>0, DivMod DEF Idx
<1>6. sent + j \in Nat BY <1>0, <1>3
<1>7. \A k \in Int : (k # sent + j /\ rcvd <= k /\ k < sent + plen) => k % Size # z
  <2> SUFFICES ASSUME NEW k \in Int, k # sent + j, rcvd <= k, k < sent + plen
               PROVE  k % Size # z
    OBVIOUS
  <2> DEFINE p == sent + j
  <2>1. -Size < k - p /\ k - p < Size BY <1>0, <1>2, <1>3
  <2>2. k # p /\ p \in Int BY <1>6
  <2> HIDE DEF p
  <2>3. k % Size # p % Size BY <1>0, <2>1, <2>2, DistinctSlots
  <2> QED BY <2>3 DEF p
<1> HIDE DEF z
<1>8. \A k \in Int : k % Size \in Idx BY <1>0, DivMod DEF Idx
<1>9. data' \in [Idx -> Nat \cup {Undef}] BY <1>0, <1>4, <1>5, <1>6
<1>10. TypeOK'
  BY <1>1, <1>9 DEF IInv, TypeOK, dl_fifo_copy_in, cvars
<1>11. DataInv'
  <2>1. ASSUME NEW k \in rcvd .. sent - 1 PROVE data'[k % Size] = k
    <3>1. k \in Int /\ k # sent + j /\ rcvd <= k /\ k < sent + plen
      BY <1>0, <1>3
    <3>2. k % Size # z BY <1>7, <3>1
    <3> QED BY <1>0, <1>2, <1>4, <1>8, <3>1, <3>2
  <2>2. Stored(data', rcvd, sent) BY <2>1 DEF Stored
  <2> QED BY <2>2 DEF DataInv, dl_fifo_copy_in, cvars
<1>12. ProducerInv'
  <2>1. ptodo' \subseteq 0 .. plen - 1 BY <1>1, <1>2
  <2>2. ASSUME NEW i \in (0 .. plen - 1) \ ptodo'
        PROVE  data'[(sent + i) % Size] = sent + i
    <3>1. CASE i = j
      <4>1. data'[z] = sent + j BY <1>0, <1>4, <1>5
      <4> QED BY <3>1, <4>1 DEF z
    <3>2. CASE i # j
      <4> DEFINE k == sent + i
      <4>1. i \in (0 .. plen - 1) \ ptodo BY <1>1, <3>2
      <4>2. k \in Int /\ k # sent + j /\ rcvd <= k /\ k < sent + plen
        BY <1>0, <1>2, <1>3, <3>2, <4>1
      <4>3. data[k % Size] = k BY <1>2, <4>1
      <4> HIDE DEF k
      <4>4. k % Size # z /\ k % Size \in Idx BY <1>7, <1>8, <4>2
      <4>5. data'[k % Size] = k BY <1>0, <1>4, <4>3, <4>4
      <4> QED BY <4>5 DEF k
    <3> QED BY <3>1, <3>2
  <2> QED BY <1>2, <2>1, <2>2 DEF ProducerInv, dl_fifo_copy_in, cvars
<1> QED BY <1>10, <1>11, <1>12
        DEF IInv, dl_fifo_copy_in, cvars, IndexInv, BoundInv, ConsumerInv

\* The store to fifo->in publishes a batch whose copy is complete.
LEMMA InReturnIInv == ASSUME IInv, InReturn PROVE IInv'
<1>0. /\ Size \in Nat \ {0} /\ UintMod \in Nat \ {0} /\ MaxLen \in Nat
      /\ sent \in Nat /\ rcvd \in Nat /\ plen \in 0 .. MaxLen
  BY Constants DEF IInv, TypeOK
<1>1. in' = (in + plen) % UintMod /\ sent' = sent + plen /\ rcvd' = rcvd
      /\ data' = data /\ out' = out
  BY DEF InReturn, cvars
<1>2. /\ sent + plen - rcvd <= Size /\ rcvd <= sent
      /\ \A j \in 0 .. plen - 1 : data[(sent + j) % Size] = sent + j
      /\ \A k \in rcvd .. sent - 1 : data[k % Size] = k
  BY DEF InReturn, IInv, ProducerInv, BoundInv, DataInv, Stored
<1>3. in' = (sent + plen) % UintMod
  <2>1. plen \in Int /\ sent \in Int BY <1>0
  <2> QED BY <1>0, <1>1, <2>1, ModAdd DEF IInv, IndexInv
<1>4. sent + plen \in Nat BY <1>0
<1>5. (sent + plen) % UintMod \in 0 .. UintMod - 1
  BY <1>0, <1>4, DivMod
<1>6. TypeOK' BY <1>1, <1>3, <1>4, <1>5 DEF IInv, TypeOK, InReturn, cvars
<1>7. IndexInv' BY <1>1, <1>3 DEF IInv, IndexInv
<1>8. BoundInv' BY <1>0, <1>1, <1>2 DEF BoundInv
<1>9. DataInv'
  <2>1. ASSUME NEW k \in rcvd .. sent + plen - 1 PROVE data[k % Size] = k
    <3>1. CASE k < sent BY <1>0, <1>2, <3>1
    <3>2. CASE k >= sent
      <4>1. k - sent \in 0 .. plen - 1 /\ sent + (k - sent) = k BY <1>0, <3>2
      <4>2. data[(sent + (k - sent)) % Size] = sent + (k - sent) BY <1>2, <4>1
      <4> QED BY <4>1, <4>2
    <3> QED BY <1>0, <3>1, <3>2
  <2>2. Stored(data, rcvd, sent + plen) BY <1>0, <2>1 DEF Stored
  <2> QED BY <1>1, <2>2 DEF DataInv
<1>10. ProducerInv' BY DEF InReturn, ProducerInv
<1>11. ConsumerInv'
  BY <1>0, <1>1 DEF IInv, ConsumerInv, InReturn, cvars, TypeOK
<1> QED BY <1>6, <1>7, <1>8, <1>9, <1>10, <1>11 DEF IInv

\* dl_fifo_out and dl_fifo_out_peek decide how much they copy.
LEMMA OutCallIInv ==
    ASSUME IInv, NEW n \in 0 .. MaxLen, NEW op \in {"out", "peek"}, OutCall(n, op)
    PROVE  IInv'
<1> DEFINE l == dl_min(n, sent - rcvd)
<1>0. MaxLen \in Nat /\ Size \in Nat BY Constants
<1>1. clen' = l /\ ctodo' = 0 .. l - 1
  BY ExactUnused DEF OutCall
<1>2. l \in 0 .. MaxLen /\ rcvd + l <= sent
  BY <1>0 DEF dl_min, IInv, TypeOK, BoundInv
<1> HIDE DEF l
<1>3. 0 .. l - 1 \in SUBSET Arg
  <2>1. \A j \in 0 .. l - 1 : j \in Arg BY <1>0, <1>2 DEF Arg
  <2> QED BY <2>1
<1>4. TypeOK' BY <1>1, <1>2, <1>3 DEF IInv, TypeOK, OutCall, pvars
<1>5. ConsumerInv'
  <2>1. sent' = sent /\ rcvd' = rcvd BY DEF OutCall, pvars
  <2>2. (0 .. clen' - 1) \ ctodo' = {} BY <1>1
  <2> QED BY <1>1, <1>2, <2>1, <2>2 DEF ConsumerInv
<1> QED BY <1>4, <1>5
        DEF IInv, OutCall, pvars, IndexInv, BoundInv, DataInv, ProducerInv

\* dl_fifo_copy_out loads one element, which is the one of its position.
LEMMA CopyOutIInv == ASSUME IInv, dl_fifo_copy_out PROVE IInv'
<1>0. /\ Size \in Nat \ {0} /\ sent \in Nat /\ rcvd \in Nat
      /\ clen \in 0 .. MaxLen /\ MaxLen \in Nat
      /\ data \in [Idx -> Nat \cup {Undef}] /\ dst \in [Arg -> Nat \cup {Undef}]
  BY Constants DEF IInv, TypeOK
<1>1. PICK j \in ctodo :
          /\ dst' = [dst EXCEPT ![j] = data[Slot(clen, out, j)]]
          /\ ctodo' = ctodo \ {j}
  BY DEF dl_fifo_copy_out
<1>2. /\ cpc # "idle" /\ rcvd + clen <= sent /\ sent - rcvd <= Size
      /\ ctodo \subseteq 0 .. clen - 1
      /\ \A i \in (0 .. clen - 1) \ ctodo : dst[i] = rcvd + i
      /\ \A k \in rcvd .. sent - 1 : data[k % Size] = k
  BY DEF dl_fifo_copy_out, IInv, ConsumerInv, BoundInv, DataInv, Stored
<1>3. j \in 0 .. clen - 1 BY <1>2
<1>4. Slot(clen, out, j) = (rcvd + j) % Size
  <2>1. clen \in 0 .. Size BY <1>0, <1>2
  <2>2. Slot(clen, rcvd % UintMod, j) = (rcvd + j) % Size
    BY <1>0, <1>3, <2>1, SlotIs
  <2> QED BY <2>2 DEF IInv, IndexInv
<1>5. rcvd + j \in rcvd .. sent - 1 BY <1>0, <1>2, <1>3
<1>6. data[(rcvd + j) % Size] = rcvd + j BY <1>2, <1>5
<1>7. dst' = [dst EXCEPT ![j] = rcvd + j] BY <1>1, <1>4, <1>6
<1>8. rcvd + j \in Nat /\ j \in Arg BY <1>0, <1>3 DEF Arg
<1>9. TypeOK'
  BY <1>0, <1>1, <1>7, <1>8 DEF IInv, TypeOK, dl_fifo_copy_out, pvars
<1>10. ConsumerInv'
  <2>1. \A i \in (0 .. clen - 1) \ ctodo' : dst'[i] = rcvd + i
    <3> SUFFICES ASSUME NEW i \in (0 .. clen - 1) \ ctodo' PROVE dst'[i] = rcvd + i
      OBVIOUS
    <3>1. i \in Arg BY <1>0 DEF Arg
    <3>2. i = j \/ i \in (0 .. clen - 1) \ ctodo BY <1>1
    <3> QED BY <1>0, <1>2, <1>7, <3>1, <3>2
  <2>2. ctodo' \subseteq 0 .. clen - 1 BY <1>1, <1>2
  <2> QED BY <1>2, <2>1, <2>2 DEF ConsumerInv, dl_fifo_copy_out, pvars
<1> QED BY <1>9, <1>10
        DEF IInv, dl_fifo_copy_out, pvars, IndexInv, BoundInv, DataInv, ProducerInv

\* What a finished copy-out has put into the caller's buffer.
LEMMA CopiedOut ==
    ASSUME IInv, cpc # "idle", ctodo = {}
    PROVE  /\ rcvd + clen <= sent
           /\ Returned = [i \in 1 .. clen |-> rcvd + i - 1]
           /\ Returned \in Seq(Nat \cup {Undef})
<1>0. clen \in Nat /\ rcvd \in Nat BY Constants DEF IInv, TypeOK
<1>1. rcvd + clen <= sent /\ \A j \in 0 .. clen - 1 : dst[j] = rcvd + j
  BY DEF IInv, ConsumerInv
<1>2. \A i \in 1 .. clen : dst[i - 1] = rcvd + i - 1
  <2> SUFFICES ASSUME NEW i \in 1 .. clen PROVE dst[i - 1] = rcvd + i - 1
    OBVIOUS
  <2>1. i - 1 \in 0 .. clen - 1 BY <1>0
  <2>2. dst[i - 1] = rcvd + (i - 1) BY <1>1, <2>1
  <2> QED BY <1>0, <2>2
<1>3. Returned = [i \in 1 .. clen |-> rcvd + i - 1] BY <1>2 DEF Returned
<1>4. \A i \in 1 .. clen : rcvd + i - 1 \in Nat BY <1>0
<1> QED BY <1>0, <1>1, <1>3, <1>4

\* The store to fifo->out gives the slots back; it comes after the loads.
LEMMA OutReturnIInv == ASSUME IInv, OutReturn PROVE IInv'
<1>0. /\ Size \in Nat \ {0} /\ UintMod \in Nat \ {0} /\ MaxLen \in Nat
      /\ sent \in Nat /\ rcvd \in Nat /\ clen \in 0 .. MaxLen /\ plen \in 0 .. MaxLen
  BY Constants DEF IInv, TypeOK
<1>1. out' = (out + clen) % UintMod /\ rcvd' = rcvd + clen /\ sent' = sent
      /\ data' = data /\ in' = in /\ cpc' = "idle"
  BY DEF OutReturn, pvars
<1>2. rcvd + clen <= sent /\ Returned \in Seq(Nat \cup {Undef})
  BY CopiedOut DEF OutReturn
<1>3. out' = (rcvd + clen) % UintMod
  <2>1. clen \in Int /\ rcvd \in Int BY <1>0
  <2> QED BY <1>0, <1>1, <2>1, ModAdd DEF IInv, IndexInv
<1>4. rcvd + clen \in Nat BY <1>0
<1>5. (rcvd + clen) % UintMod \in 0 .. UintMod - 1 BY <1>0, <1>4, DivMod
<1>6. TypeOK'
  BY <1>1, <1>2, <1>3, <1>4, <1>5 DEF IInv, TypeOK, OutReturn, pvars
<1>7. IndexInv' BY <1>1, <1>3 DEF IInv, IndexInv
<1>8. BoundInv' BY <1>0, <1>1, <1>2 DEF IInv, BoundInv
<1>9. DataInv'
  <2>1. \A k \in rcvd .. sent - 1 : data[k % Size] = k
    BY DEF IInv, DataInv, Stored
  <2>2. Stored(data, rcvd + clen, sent) BY <1>0, <2>1 DEF Stored
  <2> QED BY <1>1, <2>2 DEF DataInv
<1>10. ProducerInv'
  BY <1>0, <1>1 DEF IInv, ProducerInv, OutReturn, pvars
<1>11. ConsumerInv' BY <1>1 DEF ConsumerInv
<1> QED BY <1>6, <1>7, <1>8, <1>9, <1>10, <1>11 DEF IInv

\* dl_fifo_out_peek changes neither index.
LEMMA PeekReturnIInv == ASSUME IInv, PeekReturn PROVE IInv'
<1>1. Returned \in Seq(Nat \cup {Undef}) BY CopiedOut DEF PeekReturn
<1>2. TypeOK' BY <1>1 DEF IInv, TypeOK, PeekReturn, pvars
<1> QED BY <1>2
        DEF IInv, PeekReturn, pvars, IndexInv, BoundInv, DataInv, ProducerInv,
            ConsumerInv

-------------------------------------------------------------------------------
(* Theorems.                                                                 *)

LEMMA StepIInv == IInv /\ [Next]_vars => IInv'
<1> SUFFICES ASSUME IInv, [Next]_vars PROVE IInv' OBVIOUS
<1>1. CASE Producer
  BY <1>1, InCallIInv, CopyInIInv, InReturnIInv DEF Producer
<1>2. CASE Consumer
  BY <1>2, OutCallIInv, CopyOutIInv, OutReturnIInv, PeekReturnIInv DEF Consumer
<1>3. CASE UNCHANGED vars
  BY <1>3 DEF vars, IInv, TypeOK, IndexInv, BoundInv, DataInv, ProducerInv, ConsumerInv
<1> QED BY <1>1, <1>2, <1>3 DEF Next

\* The invariant holds in every reachable state.
THEOREM Invariance == Spec => []IInv
<1>1. Init => IInv BY InitIInv
<1>2. IInv /\ [Next]_vars => IInv' BY StepIInv
<1> QED BY <1>1, <1>2, PTL DEF Spec

\* Every variable keeps its type; the indices stay in unsigned int.
THEOREM TypeCorrect == Spec => []TypeOK
<1>1. IInv => TypeOK BY DEF IInv
<1> QED BY Invariance, <1>1, PTL

\* in - out never says more than the ring holds, and is what was sent and not
\* yet received.
THEOREM NeverOverfullAlways == Spec => []NeverOverfull
<1>1. IInv => NeverOverfull
  BY ExactUnused DEF NeverOverfull, IInv, BoundInv
<1> QED BY Invariance, <1>1, PTL

\* dl_fifo_out and dl_fifo_out_peek hand out the next elements in order.
THEOREM InOrderDeliveryAlways == Spec => []InOrderDelivery
<1>1. IInv => InOrderDelivery
  BY DEF InOrderDelivery, IInv, ConsumerInv
<1> QED BY Invariance, <1>1, PTL

\* No slot is ever being stored into and loaded from at the same time: the two
\* threads need no lock against each other.
THEOREM NoConcurrentSlotAccessAlways == Spec => []NoConcurrentSlotAccess
<1>1. ASSUME IInv, ppc = "copy", cpc # "idle",
             NEW i \in 0 .. plen - 1, NEW j \in 0 .. clen - 1
      PROVE  Slot(plen, in, i) # Slot(clen, out, j)
  <2> DEFINE a == sent + i
             b == rcvd + j
  <2>0. /\ Size \in Nat \ {0} /\ sent \in Nat /\ rcvd \in Nat
        /\ plen \in 0 .. MaxLen /\ clen \in 0 .. MaxLen /\ MaxLen \in Nat
    BY <1>1, Constants DEF IInv, TypeOK
  <2>1. sent + plen - rcvd <= Size /\ rcvd + clen <= sent
    BY <1>1 DEF IInv, ProducerInv, ConsumerInv
  <2>2. plen \in 0 .. Size /\ clen \in 0 .. Size BY <1>1, <2>0, <2>1 DEF IInv, BoundInv
  <2>3. Slot(plen, in, i) = a % Size
    BY <1>1, <2>0, <2>2, SlotIs DEF IInv, IndexInv
  <2>4. Slot(clen, out, j) = b % Size
    BY <1>1, <2>0, <2>2, SlotIs DEF IInv, IndexInv
  <2>5. a \in Int /\ b \in Int /\ a # b /\ -Size < a - b /\ a - b < Size
    BY <2>0, <2>1
  <2> HIDE DEF a, b
  <2> QED BY <2>0, <2>3, <2>4, <2>5, DistinctSlots
<1>2. IInv => NoConcurrentSlotAccess BY <1>1 DEF NoConcurrentSlotAccess
<1> QED BY Invariance, <1>2, PTL

-------------------------------------------------------------------------------
(* The ring implements the bounded queue.                                    *)

\* The elements from .. to - 1 of the stream.
Run(from, to) == [i \in 1 .. to - from |-> from + i - 1]

\* Runs are sequences that concatenate and split as stream intervals do.
LEMMA RunSplit ==
    \A a, b, c \in Nat : (a <= b /\ b <= c) =>
           /\ Len(Run(a, c)) = c - a
           /\ Run(a, b) \o Run(b, c) = Run(a, c)
           /\ SubSeq(Run(a, c), 1, b - a) = Run(a, b)
           /\ SubSeq(Run(a, c), b - a + 1, c - a) = Run(b, c)
<1> SUFFICES ASSUME NEW a \in Nat, NEW b \in Nat, NEW c \in Nat, a <= b, b <= c
             PROVE  /\ Len(Run(a, c)) = c - a
                    /\ Run(a, b) \o Run(b, c) = Run(a, c)
                    /\ SubSeq(Run(a, c), 1, b - a) = Run(a, b)
                    /\ SubSeq(Run(a, c), b - a + 1, c - a) = Run(b, c)
  OBVIOUS
<1>1. /\ Run(a, b) \in Seq(Int) /\ Len(Run(a, b)) = b - a
      /\ Run(b, c) \in Seq(Int) /\ Len(Run(b, c)) = c - b
      /\ Run(a, c) \in Seq(Int) /\ Len(Run(a, c)) = c - a
  BY DEF Run
<1>2. Run(a, b) \o Run(b, c) = Run(a, c)
  BY <1>1 DEF Run
<1>3. SubSeq(Run(a, c), 1, b - a) = Run(a, b)
  BY <1>1 DEF Run
<1>4. SubSeq(Run(a, c), b - a + 1, c - a) = Run(b, c)
  BY <1>1 DEF Run
<1> QED BY <1>1, <1>2, <1>3, <1>4

\* The slots between out and in hold the run of elements not yet handed out.
ContentsInv == Contents = Run(rcvd, sent)

LEMMA ContentsAre == IInv => ContentsInv
<1> SUFFICES ASSUME IInv PROVE Contents = Run(rcvd, sent) BY DEF ContentsInv
<1>0. sent \in Nat /\ rcvd \in Nat /\ Size \in Nat \ {0}
  BY Constants DEF IInv, TypeOK
<1>1. Contents = [i \in 1 .. sent - rcvd |-> data[(out + i - 1) % Size]]
  BY ExactUnused DEF Contents
<1>2. ASSUME NEW i \in 1 .. sent - rcvd
      PROVE  data[(out + i - 1) % Size] = rcvd + i - 1
  <2> DEFINE k == rcvd + i - 1
  <2>1. k \in rcvd .. sent - 1 /\ k \in Int BY <1>0
  <2>2. (out + i - 1) % Size = k % Size
    <3> DEFINE r == rcvd % UintMod
               e == i - 1
    <3>1. r \in Int /\ UintMod \in Nat \ {0} BY <1>0, Constants, DivMod
    <3>2. r % Size = rcvd % Size BY <1>0, SlotOfIndex
    <3>3. out + i - 1 = r + e BY <3>1 DEF IInv, IndexInv
    <3>4. k = rcvd + e BY <1>0
    <3>5. e \in Int /\ rcvd \in Int BY <1>0
    <3> HIDE DEF r, e, k
    <3>6. (r + e) % Size = ((r % Size) + e) % Size
      BY <1>0, <3>1, <3>5, ModAdd
    <3>7. (rcvd + e) % Size = ((rcvd % Size) + e) % Size
      BY <1>0, <3>5, ModAdd
    <3>8. (r + e) % Size = (rcvd + e) % Size BY <3>2, <3>6, <3>7
    <3> QED BY <3>3, <3>4, <3>8
  <2> HIDE DEF k
  <2>3. data[k % Size] = k BY <2>1 DEF IInv, DataInv, Stored
  <2> QED BY <2>2, <2>3 DEF k
<1> QED BY <1>1, <1>2 DEF Run

\* InReturn is a Put, OutReturn a Get, PeekReturn a Peek.
LEMMA StepRefines ==
    ASSUME IInv, [Next]_vars, ContentsInv, ContentsInv'
    PROVE  [Abs!AbsNext]_(Abs!absVars)
<1>C. Contents = Run(rcvd, sent) /\ Contents' = Run(rcvd', sent')
  BY DEF ContentsInv
<1>0. /\ sent \in Nat /\ rcvd \in Nat /\ Size \in Nat \ {0} /\ rcvd <= sent
      /\ sent - rcvd <= Size /\ plen \in Nat /\ clen \in Nat
  BY Constants DEF IInv, TypeOK, BoundInv
<1>1. ASSUME UNCHANGED <<sent, rcvd, got>> PROVE UNCHANGED Abs!absVars
  BY <1>C, <1>1 DEF Abs!absVars
<1>2. CASE InReturn
  <2>1. sent' = sent + plen /\ rcvd' = rcvd /\ got' = got /\ sent + plen - rcvd <= Size
    BY <1>2 DEF InReturn, cvars, IInv, ProducerInv
  <2>2. Abs!Batch(plen) = Run(sent, sent + plen)
    BY <1>0 DEF Abs!Batch, Run
  <2>3. Len(Contents) = sent - rcvd
        /\ Run(rcvd, sent) \o Run(sent, sent + plen) = Run(rcvd, sent + plen)
    <3> DEFINE e == sent + plen
    <3>1. rcvd \in Nat /\ sent \in Nat /\ rcvd <= sent BY <1>0
    <3>2. e \in Nat /\ sent <= e /\ sent <= sent BY <1>0
    <3> HIDE DEF e
    <3>3. Run(rcvd, sent) \o Run(sent, e) = Run(rcvd, e)
      BY <3>1, <3>2, RunSplit, ZenonT(30)
    <3>4. Len(Run(rcvd, sent)) = sent - rcvd BY <3>1, <3>2, RunSplit, Zenon
    <3> QED BY <1>C, <3>3, <3>4 DEF e
  <2>4. plen <= Size - Len(Contents) /\ plen \in 0 .. Size
    BY <1>0, <2>1, <2>3
  <2>5. Contents' = Contents \o Abs!Batch(plen) BY <1>C, <2>1, <2>2, <2>3
  <2>6. Abs!Put(plen) BY <2>1, <2>4, <2>5 DEF Abs!Put
  <2> QED BY <2>4, <2>6 DEF Abs!AbsNext
<1>3. ASSUME OutReturn \/ PeekReturn
      PROVE  /\ clen \in 0 .. Size /\ clen <= Len(Contents)
             /\ got' = SubSeq(Contents, 1, clen)
             /\ Run(rcvd + clen, sent) = SubSeq(Contents, clen + 1, Len(Contents))
  <2> DEFINE b == rcvd + clen
  <2>1. b <= sent /\ got' = [i \in 1 .. clen |-> rcvd + i - 1]
    BY <1>3, CopiedOut DEF OutReturn, PeekReturn
  <2>2. b \in Nat /\ rcvd <= b /\ b - rcvd = clen BY <1>0
  <2>3. got' = Run(rcvd, b) BY <2>1, <2>2 DEF Run
  <2> HIDE DEF b
  <2>4. /\ Len(Run(rcvd, sent)) = sent - rcvd
        /\ SubSeq(Run(rcvd, sent), 1, b - rcvd) = Run(rcvd, b)
        /\ SubSeq(Run(rcvd, sent), b - rcvd + 1, sent - rcvd) = Run(b, sent)
    <3>1. rcvd \in Nat /\ b \in Nat /\ sent \in Nat /\ rcvd <= b /\ b <= sent
      BY <1>0, <2>1, <2>2
    <3> QED BY <3>1, RunSplit, ZenonT(30)
  <2>5. clen \in 0 .. Size /\ clen <= sent - rcvd
    BY <1>0, <2>1, <2>2
  <2> QED BY <1>C, <2>2, <2>3, <2>4, <2>5 DEF b
<1>4. CASE OutReturn
  <2>1. sent' = sent /\ rcvd' = rcvd + clen BY <1>4 DEF OutReturn, pvars
  <2>2. Abs!Get(clen) BY <1>C, <1>3, <1>4, <2>1 DEF Abs!Get
  <2> QED BY <1>3, <1>4, <2>2 DEF Abs!AbsNext
<1>5. CASE PeekReturn
  <2>1. sent' = sent /\ rcvd' = rcvd BY <1>5 DEF PeekReturn, pvars
  <2>2. Abs!Peek(clen) BY <1>C, <1>3, <1>5, <2>1 DEF Abs!Peek
  <2> QED BY <1>3, <1>5, <2>2 DEF Abs!AbsNext
<1>6. CASE UNCHANGED vars BY <1>1, <1>6 DEF vars
<1>7. CASE dl_fifo_copy_in \/ dl_fifo_copy_out
  BY <1>1, <1>7 DEF dl_fifo_copy_in, dl_fifo_copy_out, cvars, pvars
<1>8. CASE \E n \in 0 .. MaxLen : InCall(n) \/ OutCall(n, "out") \/ OutCall(n, "peek")
  BY <1>1, <1>8 DEF InCall, OutCall, cvars, pvars
<1> QED BY <1>2, <1>4, <1>5, <1>6, <1>7, <1>8 DEF Next, Producer, Consumer

\* dl_fifo implements the bounded queue: whatever the interleaving, the calls
\* of the two threads appear to take effect one at a time.
THEOREM Refinement == Spec => Abs!AbsSpec
<1>1. Init => Abs!AbsInit
  <2> SUFFICES ASSUME Init PROVE Abs!AbsInit OBVIOUS
  <2>1. Contents = Run(0, 0) BY InitIInv, ContentsAre DEF Init, ContentsInv
  <2>2. Run(0, 0) = <<>> BY DEF Run
  <2> QED BY <2>1, <2>2 DEF Init, Abs!AbsInit
<1>2. IInv /\ [Next]_vars /\ ContentsInv /\ ContentsInv'
      => [Abs!AbsNext]_(Abs!absVars)
  BY StepRefines
<1>3. IInv => ContentsInv BY ContentsAre
<1> QED BY <1>1, <1>2, <1>3, Invariance, PTL DEF Spec, Abs!AbsSpec
================================================================================
