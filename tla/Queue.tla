--------------------------------- MODULE Queue ---------------------------------
(***************************************************************************)
(* dl_queue.h and dl_queue.c, pointer by pointer: a ring through a head,   *)
(* the sentinel, and the elements that callers hang into it.  The macros   *)
(* are sequences of assignments in which one node may play two parts, so   *)
(* their order matters and is kept.                                        *)
(*                                                                         *)
(* Elements are 1 .. N, heads are negative.  The caller frees a removed    *)
(* element and a head that was added to another: what dl_queue_remove and  *)
(* dl_queue_add leave in their links is for nobody to follow (Null).       *)
(***************************************************************************)
EXTENDS Integers, Sequences, SequencesExt

CONSTANTS N,        \* number of elements
          KeyDiv    \* element x has the key x \div KeyDiv

VARIABLES link,     \* prev and next of each node
          ready,    \* heads that are initialised
          order     \* history: the elements that were put behind each head

vars == <<link, ready, order>>

Null == 0
Heads == {-1, -2}
Elements == 1 .. N
Nodes == Heads \cup Elements
Sides == {"prev", "next"}

key(x) == x \div KeyDiv

Opp(d) == IF d = "next" THEN "prev" ELSE "next"

Set(l, d, x, y) == [l EXCEPT ![d][x] = y]

-------------------------------------------------------------------------------
(* The macros.                                                               *)

\* dl_queue_insert_head (d = "next"), also called dl_queue_insert_after, and
\* dl_queue_insert_tail (d = "prev")
Insert(l, h, x, d) ==
    LET a == Set(l, d, x, l[d][h])
        b == Set(a, Opp(d), a[d][x], x)
        c == Set(b, Opp(d), x, h)
    IN  Set(c, d, h, x)

dl_queue_remove(l, x) ==
    LET a == Set(l, "prev", l["next"][x], l["prev"][x])
    IN  Set(a, "next", a["prev"][x], a["next"][x])

dl_queue_split(l, h, q, n) ==
    LET a == Set(l, "prev", n, l["prev"][h])
        b == Set(a, "next", a["prev"][n], n)
        c == Set(b, "next", n, q)
        d == Set(c, "prev", h, c["prev"][q])
        e == Set(d, "next", d["prev"][h], h)
    IN  Set(e, "prev", q, n)

dl_queue_add(l, h, n) ==
    LET a == Set(l, "next", l["prev"][h], l["next"][n])
        b == Set(a, "prev", a["next"][n], a["prev"][h])
        c == Set(b, "prev", h, b["prev"][n])
    IN  Set(c, "next", c["prev"][h], h)

dl_queue_empty(l, h) == h = l["prev"][h]

-------------------------------------------------------------------------------
(* dl_queue.c                                                                *)

\* dl_queue_middle: middle makes one step while next makes two.
RECURSIVE Middle(_, _, _, _)
Middle(l, h, middle, next) ==
    LET m == l["next"][middle]
        n == l["next"][next]
    IN  IF l["prev"][h] \in {n, l["next"][n]} THEN m ELSE Middle(l, h, m, l["next"][n])

dl_queue_middle(l, h) ==
    LET head == l["next"][h]
    IN  IF head = l["prev"][h] THEN head ELSE Middle(l, h, head, head)

\* Mutant: elements that compare equal change places.
StaysStrict(prev, q) == key(prev) < key(q)

\* cmp(prev, q) <= 0
Stays(prev, q) == key(prev) <= key(q)

\* The node behind which q goes.
RECURSIVE BehindWhom(_, _, _, _)
BehindWhom(l, h, prev, q) ==
    LET before == l["prev"][prev]
    IN  IF Stays(prev, q) THEN prev
        ELSE IF before = h THEN h
        ELSE BehindWhom(l, h, before, q)

RECURSIVE SortFrom(_, _, _)
SortFrom(l, h, q) ==
    LET prev == l["prev"][q]
        next == l["next"][q]
        without == dl_queue_remove(l, q)
    IN  IF q = h THEN l
        ELSE SortFrom(Insert(without, BehindWhom(without, h, prev, q), q, "next"), h, next)

dl_queue_sort(l, h) ==
    LET q == l["next"][h]
    IN  IF q = l["prev"][h] THEN l ELSE SortFrom(l, h, l["next"][q])

-------------------------------------------------------------------------------
(* What callers do.  "order" says what a list of elements would be then.     *)

Queued == UNION {ToSet(order[h]) : h \in ready}

\* The caller frees x.
Free(l, x) == [d \in Sides |-> [l[d] EXCEPT ![x] = Null]]

Init ==
    /\ link = [d \in Sides |-> [x \in Nodes |-> Null]]
    /\ ready = {}
    /\ order = [h \in Heads |-> <<>>]

dl_queue_init(h) ==
    /\ h \notin ready
    /\ link' = [d \in Sides |-> [link[d] EXCEPT ![h] = h]]
    /\ ready' = ready \cup {h}
    /\ order' = [order EXCEPT ![h] = <<>>]

InsertHead(h, x) ==
    /\ h \in ready /\ x \notin Queued
    /\ link' = Insert(link, h, x, "next")
    /\ order' = [order EXCEPT ![h] = <<x>> \o @]
    /\ UNCHANGED ready

InsertTail(h, x) ==
    /\ h \in ready /\ x \notin Queued
    /\ link' = Insert(link, h, x, "prev")
    /\ order' = [order EXCEPT ![h] = Append(@, x)]
    /\ UNCHANGED ready

InsertAfter(h, i, x) ==
    /\ h \in ready /\ i \in DOMAIN order[h] /\ x \notin Queued
    /\ link' = Insert(link, order[h][i], x, "next")
    /\ order' = [order EXCEPT ![h] = InsertAt(@, i + 1, x)]
    /\ UNCHANGED ready

TakeOut(h, i) ==
    /\ h \in ready /\ i \in DOMAIN order[h]
    /\ link' = Free(dl_queue_remove(link, order[h][i]), order[h][i])
    /\ order' = [order EXCEPT ![h] = RemoveAt(@, i)]
    /\ UNCHANGED ready

\* n need not be initialised: it becomes the head of what is split off.
Split(h, i, n) ==
    /\ h \in ready /\ i \in DOMAIN order[h] /\ n \notin ready
    /\ link' = dl_queue_split(link, h, order[h][i], n)
    /\ order' = [order EXCEPT ![h] = SubSeq(@, 1, i - 1),
                              ![n] = SubSeq(order[h], i, Len(order[h]))]
    /\ ready' = ready \cup {n}

\* The head n is no queue any more.
Add(h, n) ==
    /\ h \in ready /\ n \in ready \ {h}
    /\ link' = Free(dl_queue_add(link, h, n), n)
    /\ order' = [order EXCEPT ![h] = @ \o order[n], ![n] = <<>>]
    /\ ready' = ready \ {n}

\* Positions in the order of keys, equal keys in the order of positions.
Stable(s) ==
    SetToSortSeq(DOMAIN s, LAMBDA i, j : key(s[i]) < key(s[j])
                                         \/ (key(s[i]) = key(s[j]) /\ i < j))

Sort(h) ==
    /\ h \in ready
    /\ link' = dl_queue_sort(link, h)
    /\ order' = [order EXCEPT ![h] = [i \in DOMAIN @ |-> @[Stable(@)[i]]]]
    /\ UNCHANGED ready

Next ==
    \E h \in Heads :
        \/ dl_queue_init(h)
        \/ \E x \in Elements :
              InsertHead(h, x) \/ InsertTail(h, x) \/ \E i \in 1 .. N : InsertAfter(h, i, x)
        \/ \E i \in 1 .. N : TakeOut(h, i) \/ \E n \in Heads : Split(h, i, n)
        \/ \E n \in Heads : Add(h, n)
        \/ Sort(h)

Spec == Init /\ [][Next]_vars

-------------------------------------------------------------------------------
(* Properties.                                                               *)

\* The node that k steps from h lead to.
Steps(h, d, k) ==
    LET at[i \in 0 .. k] == IF i = 0 THEN h ELSE link[d][at[i - 1]]
    IN  at[k]

\* Whatever was inserted, removed, split off, added and sorted, a queue read
\* forwards and backwards is the list of its elements, "the stable insertion
\* sort" (dl_queue.c:38) keeps equal elements in order, dl_queue_empty tells
\* empty queues from others, and dl_queue_middle finds element n / 2.
QueueKept ==
    \A h \in ready :
        LET s == order[h]
        IN  /\ \A i \in DOMAIN s :
                  /\ Steps(h, "next", i) = s[i]
                  /\ Steps(h, "prev", i) = s[Len(s) + 1 - i]
            /\ \A d \in Sides : Steps(h, d, Len(s) + 1) = h
            /\ dl_queue_empty(link, h) = (s = <<>>)
            /\ s # <<>> => dl_queue_middle(link, h) = s[Len(s) \div 2 + 1]
================================================================================
