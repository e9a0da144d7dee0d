-------------------------------- MODULE Table ---------------------------------
(***************************************************************************)
(* dl_table.c, the table of Lua in C: values with the indices 0 ..         *)
(* sizearray - 1 lie in an array, all others in nodes, chained from the    *)
(* main position of their key.  When no node is free the table counts its  *)
(* keys, chooses new sizes for both parts and inserts everything again.    *)
(*                                                                         *)
(* Nodes are counted from 1; 0 is NULL.  No nodes at all is dummynode.  A  *)
(* value has a type and a word: a number, the caller's pointer, or the     *)
(* string that the table made.  A string key is known by its hash and a    *)
(* name; no string key here is a prefix of another, as dl_find_by_str      *)
(* compares over the length of the key it looks for.                       *)
(*                                                                         *)
(* "fault" says that a call did not return with a table that works: an     *)
(* allocation failed after the table was changed ("memory"), an array was  *)
(* used after it was freed ("freed"), or a rehash within a rehash has no   *)
(* end ("endless").  The model ends there.                                 *)
(***************************************************************************)
EXTENDS Integers, FiniteSets, Sequences, SequencesExt, TLC

CONSTANTS Keys,             \* [tt |-> "INT" or "STR", n |-> index or hash, name]
          Values,           \* [tt |-> "INT", "STR" or "VOID", w |-> word]
          NewSizes,         \* pairs narray, nhash that callers ask for
          UintBits,         \* width of uint, half the width of long
          MaxBits,          \* MAXBITS
          MaxDepth,         \* bound: nested rehashes after which there is no end
          ReuseAddresses    \* may a deleted object's address come back at once

VARIABLES t,            \* the table: arr, nodes, lastfree
          call,         \* history: the last call, its key, value and memory
          answer,       \* what it answered
          released,     \* history: values freed or given to void_h by the last call
          fault

vars == <<t, call, answer, released, fault>>

Null == 0
NoKey == [tt |-> "NIL", n |-> 0, name |-> 0]
NilValue == [tt |-> "NIL", w |-> 0]
FreeNode == [key |-> NoKey, val |-> NilValue, next |-> Null]

MaxOf(S) == CHOOSE x \in S : \A y \in S : y <= x

InArray(h, key) == key.tt = "INT" /\ key.n >= 0 /\ key.n < Len(h.arr)

\* The place of a value: an index of the array, counted from 1, or a node.
ArrayPlace(n) == [part |-> "array", i |-> n + 1]
NodePlace(n) == [part |-> "node", i |-> n]
Nowhere == [part |-> "none", i |-> 0]

ValueAt(h, at) == IF at.part = "array" THEN h.arr[at.i] ELSE h.nodes[at.i].val

StoreAt(h, at, v) ==
    IF at.part = "array" THEN [h EXCEPT !.arr[at.i] = v] ELSE [h EXCEPT !.nodes[at.i].val = v]

-------------------------------------------------------------------------------
(* Positions and searches.                                                   *)

\* hashnum adds the two halves of the long as unsigned ints.
hashnum(n) ==
    LET word == 2 ^ UintBits
        long == n % (word * word)
    IN  ((long % word) + (long \div word)) % word

\* main_pos.  The hash of a string is what dl_hash_key makes of it.
main_pos(h, key) ==
    1 + ((IF key.tt = "INT" THEN hashnum(key.n) ELSE key.n) % Len(h.nodes))

\* The nodes from a main position on.
Chain(h, mp) ==
    LET from[i \in 0 .. Len(h.nodes)] ==
            IF i = Null THEN <<>> ELSE <<i>> \o from[h.nodes[i].next]
    IN  from[mp]

\* dl_find_by_index, dl_find_by_str and dl_find_l
dl_find_l(h, key) ==
    LET hits == {i \in ToSet(Chain(h, main_pos(h, key))) : h.nodes[i].key = key}
    IN  IF InArray(h, key) THEN ArrayPlace(key.n)
        ELSE IF h.nodes = <<>> \/ hits = {} THEN Nowhere
        ELSE NodePlace(CHOOSE i \in hits : TRUE)

\* getfreepos: the free node, or Null, and where lastfree is left.
getfreepos(h) ==
    LET free == {i \in 1 .. h.lastfree - 1 : h.nodes[i].key = NoKey}
    IN  IF h.nodes = <<>> \/ free = {} THEN Null ELSE MaxOf(free)

\* The place of a key that was made or found, with the table and the fault.
Result(h, at, f) == [table |-> h, at |-> at, fault |-> f]

Before(h, n) == CHOOSE i \in DOMAIN h.nodes : h.nodes[i].next = n

\* Mutant: the node before it still leads to mp.
MoveAwayUnlinked(h, mp, n, key) ==
    [h EXCEPT !.nodes[n] = h.nodes[mp],
              !.nodes[mp] = [key |-> key, val |-> NilValue, next |-> Null]]

\* The node at mp is not in its main position: it moves to the node n.
MoveAway(h, mp, n, key) ==
    [h EXCEPT !.nodes[Before(h, mp)].next = n, !.nodes[n] = h.nodes[mp],
              !.nodes[mp] = [key |-> key, val |-> NilValue, next |-> Null]]

ChainBehind(h, mp, n, key) ==
    [h EXCEPT !.nodes[n].next = h.nodes[mp].next, !.nodes[n].key = key,
              !.nodes[mp].next = n]

-------------------------------------------------------------------------------
(* Rehash.                                                                   *)

\* The integer keys that numusearray, numusehash and countint count, up to m.
\* The value with index i of the array counts as the key i + 1.
CountUpTo(h, extra, m) ==
      Cardinality({i \in DOMAIN h.arr : h.arr[i].tt # "NIL" /\ i <= m})
    + Cardinality({i \in DOMAIN h.nodes : /\ h.nodes[i].val.tt # "NIL"
                                          /\ h.nodes[i].key.tt = "INT"
                                          /\ h.nodes[i].key.n \in 1 .. m})
    + (IF extra.tt = "INT" /\ extra.n \in 1 .. m THEN 1 ELSE 0)

nums(h, extra, i) ==
    IF i = 0 THEN CountUpTo(h, extra, 1)
    ELSE CountUpTo(h, extra, 2 ^ i) - CountUpTo(h, extra, 2 ^ (i - 1))

\* computesizes: the largest power of two of which more than half is used.
computesizes(h, extra) ==
    MaxOf({0} \cup {2 ^ i : i \in {j \in 0 .. MaxBits :
                       nums(h, extra, j) > 0 /\ CountUpTo(h, extra, 2 ^ j) > (2 ^ j) \div 2}})

\* All values and the extra key.  The value of dummynode has the type 0, which
\* counts as a value.
totaluse(h) ==
      Cardinality({i \in DOMAIN h.arr : h.arr[i].tt # "NIL"})
    + (IF h.nodes = <<>> THEN 1
       ELSE Cardinality({i \in DOMAIN h.nodes : h.nodes[i].val.tt # "NIL"}))
    + 1

\* Mutant: values of the old array beyond the new one are forgotten.
LeftoverNodes(h, nasize) ==
    LET entries == [i \in DOMAIN h.nodes |->
                        LET n == h.nodes[Len(h.nodes) + 1 - i]
                        IN  [key |-> n.key, val |-> n.val, from |-> "node"]]
    IN  SelectSeq(entries, LAMBDA e : e.val.tt # "NIL")

\* dl_array_init_l, and the old values.
ArrayFor(h, size) ==
    [i \in 1 .. size |-> IF i \in DOMAIN h.arr THEN h.arr[i] ELSE NilValue]

\* dl_node_init_l.  ceillog2 rounds up to a power of two.
NodesFor(size) ==
    IF size = 0 THEN <<>>
    ELSE LET n == CHOOSE n \in 0 .. size : 2 ^ n >= size /\ \A m \in 0 .. n - 1 : 2 ^ m < size
         IN  [i \in 1 .. 2 ^ n |-> FreeNode]

\* What resize inserts again: the end of the array in order, and the nodes from
\* the last one down.
Leftover(h, nasize) ==
    LET rest == SubSeq(h.arr, nasize + 1, Len(h.arr))
        tail == [i \in DOMAIN rest |->
                    [key |-> [tt |-> "INT", n |-> nasize + i - 1, name |-> 0],
                     val |-> rest[i], from |-> "array"]]
        entries == tail \o [i \in DOMAIN h.nodes |->
                               LET n == h.nodes[Len(h.nodes) + 1 - i]
                               IN  [key |-> n.key, val |-> n.val, from |-> "node"]]
    IN  SelectSeq(entries, LAMBDA e : e.val.tt # "NIL")

RECURSIVE dl_newkey_l(_, _, _)

\* dl_set_l and dl_set_num_l
dl_set_l(h, key, depth) ==
    LET at == dl_find_l(h, key)
    IN  IF at # Nowhere THEN Result(h, at, "none") ELSE dl_newkey_l(h, key, depth)

\* resize.  While it reads the end of the old array, a resize within dl_set_l
\* would free that array.
resize(h, nasize, nhsize, depth) ==
    LET nodes == NodesFor(nhsize)
        start == [arr |-> ArrayFor(h, nasize), nodes |-> nodes, lastfree |-> Len(nodes) + 1]
        put(r, e) ==
            LET s == dl_set_l(r.table, e.key, depth)
            IN  IF r.fault # "none" THEN r
                ELSE IF s.fault # "none" THEN s
                ELSE IF e.from = "array" /\ Len(s.table.arr) # nasize
                     THEN Result(s.table, s.at, "freed")
                ELSE Result(StoreAt(s.table, s.at, e.val), Nowhere, "none")
    IN  FoldLeft(put, Result(start, Nowhere, "none"), Leftover(h, nasize))

\* dl_rehash
dl_rehash(h, extra, depth) ==
    LET nasize == computesizes(h, extra)
        na == CountUpTo(h, extra, nasize)
    IN  resize(h, nasize, totaluse(h) - na, depth)

\* No node is free: make room and search again.
Grow(h, key, depth) ==
    LET r == dl_rehash(h, key, depth + 1)
    IN  IF depth = MaxDepth THEN Result(h, Nowhere, "endless")
        ELSE IF r.fault # "none" THEN r
        ELSE dl_set_l(r.table, key, depth + 1)

\* dl_newkey_l
dl_newkey_l(h, key, depth) ==
    LET mp == main_pos(h, key)
        n == getfreepos(h)
        g == [h EXCEPT !.lastfree = n]
    IN  CASE h.nodes = <<>> -> Grow(h, key, depth)
          [] h.nodes # <<>> /\ h.nodes[mp].val.tt = "NIL" ->
                Result([h EXCEPT !.nodes[mp].key = key], NodePlace(mp), "none")
          [] OTHER ->
                IF n = Null THEN Grow(g, key, depth)
                ELSE IF main_pos(h, h.nodes[mp].key) # mp
                     THEN Result(MoveAway(g, mp, n, key), NodePlace(mp), "none")
                ELSE Result(ChainBehind(g, mp, n, key), NodePlace(n), "none")

-------------------------------------------------------------------------------
(* Calls.                                                                    *)

\* Mutant: objects are not handed to void_h.
FreedStrings(v) == IF v.tt = "STR" THEN <<v>> ELSE <<>>

\* dl_array_set, dl_node_set and dl_reset_v_l: what is freed or handed to void_h.
Freed(v) == IF v.tt \in {"STR", "VOID"} THEN <<v>> ELSE <<>>

New(sizes) ==
    LET nodes == NodesFor(sizes.nhash)
    IN  [arr |-> [i \in 1 .. sizes.narray |-> NilValue], nodes |-> nodes,
         lastfree |-> Len(nodes) + 1]

\* What callers ask for.
SetCall(key, v, memory) == [op |-> "set", key |-> key, value |-> v, memory |-> memory]
DeleteCall(key) == [op |-> "delete", key |-> key]
OtherCall == [op |-> "new"]

\* dl_table_new
Init ==
    /\ \E sizes \in NewSizes : t = New(sizes)
    /\ call = OtherCall /\ answer = "OK" /\ released = <<>> /\ fault = "none"

ValuesOf(h) == {h.arr[i] : i \in DOMAIN h.arr} \cup {h.nodes[i].val : i \in DOMAIN h.nodes}
Held(h) == {v \in ValuesOf(h) : v.tt # "NIL"}

\* Bound: a value is in one place at a time, but an object may be set again
\* where it is.
MaySet(key, v) ==
    LET at == dl_find_l(t, key)
    IN  \/ v \notin Held(t)
        \/ v.tt = "VOID" /\ at # Nowhere /\ ValueAt(t, at) = v

\* The object has the address of the one that was deleted at this index.
AddressComesBack(key, v) ==
    /\ v.tt = "VOID" /\ InArray(t, key)
    /\ ValueAt(t, ArrayPlace(key.n)).tt = "NIL" /\ ValueAt(t, ArrayPlace(key.n)).w = v.w

Ends(r, key, v) ==
    /\ fault' = r.fault
    /\ IF r.fault # "none" THEN UNCHANGED <<t, call, answer>>
       ELSE /\ t' = StoreAt(r.table, r.at, v)
            /\ call' = SetCall(key, v, TRUE)
            /\ answer' = "OK"

\* dl_array_set_void_l and dl_node_set_void_l compare words before types.
SetAgain(key, v) ==
    LET at == dl_find_l(t, key)
    IN  /\ v.tt = "VOID" /\ at # Nowhere /\ ValueAt(t, at).w = v.w
        /\ call' = SetCall(key, v, TRUE)
        /\ answer' = "OK" /\ released' = <<>>
        /\ UNCHANGED <<t, fault>>

SetFound(key, v) ==
    LET at == dl_find_l(t, key)
    IN  /\ at # Nowhere
        /\ ~(v.tt = "VOID" /\ ValueAt(t, at).w = v.w)
        /\ released' = Freed(ValueAt(t, at))
        /\ Ends(Result(t, at, "none"), key, v)

SetNew(key, v) ==
    /\ dl_find_l(t, key) = Nowhere
    /\ released' = <<>>
    /\ Ends(dl_newkey_l(t, key, 0), key, v)

\* dl_array_set_int_l, dl_array_set_str_l, dl_array_set_void_l, dl_node_set_int_l,
\* dl_node_set_str_l and dl_node_set_void_l
Set(key, v) ==
    /\ fault = "none" /\ MaySet(key, v)
    /\ ReuseAddresses \/ ~AddressComesBack(key, v)
    /\ SetAgain(key, v) \/ SetFound(key, v) \/ SetNew(key, v)

\* No memory for the copy of a string key.
SetNoKeyMemory(key, v) ==
    /\ fault = "none" /\ MaySet(key, v)
    /\ key.tt = "STR" /\ dl_find_l(t, key) = Nowhere
    /\ call' = SetCall(key, v, FALSE)
    /\ answer' = "ERROR" /\ released' = <<>>
    /\ UNCHANGED <<t, fault>>

EmptyInArray(key) ==
    LET at == dl_find_l(t, key) IN at.part = "array" /\ ValueAt(t, at).tt = "NIL"

\* No memory for the copy of a string for a free index of the array: the word
\* there is overwritten, the type is not.
SetNoStringMemory(key, v) ==
    /\ fault = "none" /\ MaySet(key, v)
    /\ v.tt = "STR" /\ EmptyInArray(key)
    /\ t' = StoreAt(t, dl_find_l(t, key), NilValue)
    /\ call' = SetCall(key, v, FALSE)
    /\ answer' = "ERROR" /\ released' = <<>>
    /\ UNCHANGED fault

NeedsRoom(key) ==
    /\ dl_find_l(t, key) = Nowhere /\ getfreepos(t) = Null
    /\ t.nodes # <<>> => t.nodes[main_pos(t, key)].val.tt # "NIL"

\* No memory for any other copied string or for a new part: the old value is
\* freed or overwritten, the node has no value, or array or node is NULL.
SetNoMemory(key, v) ==
    /\ fault = "none" /\ MaySet(key, v)
    /\ (v.tt = "STR" /\ ~EmptyInArray(key)) \/ NeedsRoom(key)
    /\ fault' = "memory"
    /\ UNCHANGED <<t, call, answer, released>>

\* Mutant: a node in front of lastfree is not looked for again.
LastfreeStays(h, n) == h

LastfreeBehind(h, n) == [h EXCEPT !.lastfree = IF @ <= n THEN n + 1 ELSE @]

\* dl_reset_node_l
dl_reset_node_l(h, n) ==
    LET mp == main_pos(h, h.nodes[n].key)
        next == h.nodes[n].next
    IN  CASE mp # n ->
                LastfreeBehind([h EXCEPT !.nodes[Before(h, n)].next = next,
                                         !.nodes[n] = FreeNode], n)
          [] mp = n /\ next # Null ->
                LastfreeBehind([h EXCEPT !.nodes[n] = h.nodes[next],
                                         !.nodes[next] = FreeNode], next)
          [] mp = n /\ next = Null ->
                LastfreeBehind([h EXCEPT !.nodes[n] = FreeNode], n)

\* dl_del_key_index_l and dl_del_key_str_l.  dl_reset_v_l leaves the word in the
\* array.
Delete(key) ==
    LET at == dl_find_l(t, key)
    IN  /\ fault = "none" /\ at # Nowhere
        /\ t' = IF at.part = "array" THEN [t EXCEPT !.arr[at.i].tt = "NIL"]
                ELSE dl_reset_node_l(t, at.i)
        /\ call' = DeleteCall(key)
        /\ released' = Freed(ValueAt(t, at))
        /\ UNCHANGED <<answer, fault>>

\* dl_table_destroy, and a new table.
Destroy(sizes) ==
    LET all == t.arr \o [i \in DOMAIN t.nodes |-> t.nodes[i].val]
    IN  /\ fault = "none"
        /\ released' = SelectSeq(all, LAMBDA v : v.tt \in {"STR", "VOID"})
        /\ t' = New(sizes)
        /\ call' = OtherCall
        /\ UNCHANGED <<answer, fault>>

Next ==
    \/ \E key \in Keys, v \in Values :
          \/ Set(key, v)
          \/ SetNoKeyMemory(key, v)
          \/ SetNoStringMemory(key, v)
          \/ SetNoMemory(key, v)
    \/ \E key \in Keys : Delete(key)
    \/ \E sizes \in NewSizes : Destroy(sizes)

Spec == Init /\ [][Next]_vars

-------------------------------------------------------------------------------
(* Properties.                                                               *)

Used == {i \in DOMAIN t.nodes : t.nodes[i].key # NoKey}

\* A node has a key exactly when it has a value, and is then in the chain of
\* its key's main position, once; free nodes are in no chain; an index that
\* belongs to the array is not in a node.  And resize read no freed array: what
\* the old array leaves over fits into the new nodes.
TypeOK ==
    /\ fault # "freed"
    /\ Len(t.nodes) \in {0} \cup {2 ^ i : i \in 0 .. MaxBits}
    /\ \A i \in DOMAIN t.nodes :
          /\ (t.nodes[i].val.tt # "NIL") = (i \in Used)
          /\ t.nodes[i].next \in {Null} \cup Used
    /\ \A i \in Used :
          /\ i \in ToSet(Chain(t, main_pos(t, t.nodes[i].key)))
          /\ IsInjective(Chain(t, i))
          /\ ~InArray(t, t.nodes[i].key)

\* "any free position is before this position" (dl_table.h:75): no free node is
\* overlooked, whatever was deleted and moved.
FreeBeforeLastfree == \A i \in DOMAIN t.nodes \ Used : i < t.lastfree

\* The table is a map: searching, moving nodes, deleting, growing and shrinking
\* of both parts neither lose nor change a value.
Contents ==
    [key \in Keys |->
        LET at == dl_find_l(t, key)
        IN  IF at = Nowhere \/ ValueAt(t, at).tt = "NIL" THEN <<>> ELSE <<ValueAt(t, at)>>]

\* Strings are freed and objects go to void_h when they leave the table, each
\* once, and only then.
ReleasedExactly ==
    fault' = "none" =>
        /\ IsInjective(released')
        /\ ToSet(released') = {v \in Held(t) \ Held(t') : v.tt # "INT"}

\* "all elements smaller than n will go to array part" (dl_table.c:680): what is
\* left finds room in the nodes, and a rehash makes a place for the new key.
RehashMakesRoom == fault # "endless"
===============================================================================
