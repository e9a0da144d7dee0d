--------------------------------- MODULE Hash ---------------------------------
(***************************************************************************)
(* dl_hash.c and dl_phash.c: string-keyed tables that never grow.  A slot  *)
(* is a node; further nodes of the slot hang behind it, each with the      *)
(* values of one key.  dl_hash copies keys and values into memory from     *)
(* malloc and can delete; dl_phash lives in a pool and cannot.             *)
(*                                                                         *)
(* The cells 1 .. Slots are the slots, the others come from the allocator. *)
(* A cell without values is a slot with v.tt = DL_H_NULL or free memory.   *)
(* The values of a cell are v and the chain v.next.  A key is a sequence   *)
(* of bytes.                                                               *)
(*                                                                         *)
(* Each allocation may fail.  Without memory for a new node nothing has    *)
(* been changed yet.  When an allocation fails later, the table holds a    *)
(* node without key or value or follows NULL: "fault", where the model     *)
(* ends.                                                                   *)
(***************************************************************************)
EXTENDS Integers, FiniteSets, Sequences, SequencesExt

CONSTANTS Slots,        \* slot_total
          HashLen,      \* the bytes that dl_hash_key looks at, 20 in the code
          Radix,        \* 31 in the code
          UintMod,      \* UINT_MAX + 1
          IntBits,      \* width of int
          Keys,         \* keys that callers use
          Values,       \* values that callers store
          MaxNodes      \* bound: nodes besides the slots

\* What dl_hash_init and the types of C see to; a key has its bytes.
HashSizes ==
    /\ Slots \in Nat \ {0} /\ MaxNodes \in Nat
    /\ UintMod \in Nat \ {0} /\ Radix \in Nat /\ HashLen \in Nat
    /\ Keys \subseteq Seq(Nat)

VARIABLES kind,         \* "hash" (dl_hash) or "phash" (dl_phash)
          flag,         \* h->flag
          cells,
          call,         \* history: the last call, its key, value and memory
          answer,       \* what it answered
          released,     \* history: the values that the last call freed, in order
          fault         \* history: an allocation failed in the middle

vars == <<kind, flag, cells, call, answer, released, fault>>

Null == 0
Cells == 1 .. Slots + MaxNodes
Empty == [key |-> <<>>, hash |-> 0, next |-> Null, vals |-> <<>>]

\* dl_hash_key and dl_phash_key
dl_hash_key(key) ==
    LET n == IF Len(key) > HashLen THEN HashLen ELSE Len(key)
        hash[i \in 0 .. n] == IF i = 0 THEN 0 ELSE (hash[i - 1] * Radix + key[i]) % UintMod
    IN  hash[n]

SlotOf(key) == 1 + (dl_hash_key(key) % Slots)

\* memcmp(stored->data, key->data, key->len): the length of the stored key is
\* not looked at.  Behind its end is other memory; luck says if it is equal.
SameBytes(stored, key, luck) ==
    IF Len(stored) < Len(key) THEN IsPrefix(stored, key) /\ luck ELSE IsPrefix(key, stored)

\* Mutant: the hash is enough.
MatchesHash(c, key, luck) == c.hash = dl_hash_key(key)

Matches(c, key, luck) == c.hash = dl_hash_key(key) /\ SameBytes(c.key, key, luck)

\* The cells of a slot, in order: next is followed until it is Null.
Chain(h, slot) ==
    LET at[k \in 0 .. MaxNodes + 1] ==
            IF k = 0 THEN slot ELSE IF at[k - 1] = Null THEN Null ELSE h[at[k - 1]].next
        n == Cardinality({k \in 0 .. MaxNodes + 1 : at[k] # Null})
    IN  IF h[slot].vals = <<>> THEN <<>> ELSE [i \in 1 .. n |-> at[i - 1]]

\* dl_hash_find and dl_phash_find
dl_hash_find(h, key, luck) ==
    LET chain == Chain(h, SlotOf(key))
        hits == {i \in DOMAIN chain : Matches(h[chain[i]], key, luck)}
    IN  IF hits = {} THEN Null ELSE chain[CHOOSE i \in hits : \A j \in hits : i <= j]

\* malloc, dl_palloc: memory that is not in use, or Null.  That a node finds no
\* memory while cells are left is "room" in AddKey.
NewNode(h) ==
    LET used == UNION {ToSet(Chain(h, s)) : s \in 1 .. Slots}
        free == Cells \ (used \cup 1 .. Slots)
    IN  IF free = {} THEN Null ELSE CHOOSE c \in free : \A d \in free : c <= d

\* fill_v, pfill_v: a long is stored through an int pointer.
fill_v(v) ==
    IF v.tt # "INT" THEN v
    ELSE LET half == 2 ^ (IntBits - 1)
         IN  [v EXCEPT !.v = ((v.v + half) % (2 * half)) - half]

Filled(key, v, next) ==
    [key |-> key, hash |-> dl_hash_key(key), next |-> next, vals |-> <<fill_v(v)>>]

\* What a function returns: the cells, the answer, the values freed, the fault.
Result(h, rc, rel, f) == [cells |-> h, answer |-> rc, released |-> rel, fault |-> f]

\* A new node goes behind the slot's first node.
BehindFirst(h, slot, c, key, v) ==
    [h EXCEPT ![slot].next = c, ![c] = Filled(key, v, h[slot].next)]

\* Mutant: the slot forgets its chain before the new node is looked at.
AddKeyLinksFirst(h, key, v, room, enough) ==
    LET slot == SlotOf(key)
        c == NewNode(h)
    IN  IF h[slot].vals = <<>>
        THEN Result([h EXCEPT ![slot] = Filled(key, v, Null)], "OK", <<>>, ~enough)
        ELSE IF c = Null \/ ~room THEN Result([h EXCEPT ![slot].next = Null], "ERROR", <<>>, FALSE)
        ELSE Result(BehindFirst(h, slot, c, key, v), "OK", <<>>, ~enough)

\* The parts of dl_hash_set and dl_phash_set that make a node.  "room" says
\* whether there is memory for the node, "enough" whether there is for what
\* fill_node allocates.
AddKey(h, key, v, room, enough) ==
    LET slot == SlotOf(key)
        c == NewNode(h)
    IN  IF h[slot].vals = <<>>
        THEN Result([h EXCEPT ![slot] = Filled(key, v, Null)], "OK", <<>>, ~enough)
        ELSE IF c = Null \/ ~room THEN Result(h, "ERROR", <<>>, FALSE)
        ELSE Result(BehindFirst(h, slot, c, key, v), "OK", <<>>, ~enough)

AddValue(h, c, v, enough) ==
    Result([h EXCEPT ![c].vals = InsertAt(@, 2, fill_v(v))], "OK", <<>>, ~enough)

\* dl_hash_set
dl_hash_set(h, key, v, luck, room, enough) ==
    LET n == dl_hash_find(h, key, luck)
    IN  CASE n = Null -> AddKey(h, key, v, room, enough)
          [] n # Null /\ flag = "LIST" -> AddValue(h, n, v, enough)
          [] n # Null /\ flag # "LIST" -> Result(h, "AGAIN", <<>>, FALSE)

\* dl_phash_set
dl_phash_set(h, key, v, luck, room) ==
    LET n == dl_hash_find(h, key, luck)
    IN  CASE n = Null -> AddKey(h, key, v, room, TRUE)
          [] n # Null /\ flag = "UNIQUE" -> Result(h, "AGAIN", <<>>, FALSE)
          [] n # Null /\ flag = "REPLACE" ->
                Result([h EXCEPT ![n].key = key, ![n].hash = dl_hash_key(key),
                                 ![n].vals = <<fill_v(v)>>], "OK", <<>>, FALSE)
          [] n # Null /\ flag = "LIST" -> AddValue(h, n, v, TRUE)

\* Mutant: only the first value is freed.
free_v_first(vals) == SelectSeq(SubSeq(vals, 1, 1), LAMBDA v : v.tt # "INT")

\* free_v: strings are freed, void values go to the handler.
free_v(vals) == SelectSeq(vals, LAMBDA v : v.tt # "INT")

\* Mutant: the next node is moved, and the rest of the chain lost.
MoveUpCuts(h, slot) ==
    [h EXCEPT ![slot] = [h[h[slot].next] EXCEPT !.next = Null], ![h[slot].next] = Empty]

\* The first node of a slot goes: the next one moves into the slot.
MoveUp(h, slot) == [h EXCEPT ![slot] = h[h[slot].next], ![h[slot].next] = Empty]

Unchain(h, slot, n) ==
    LET chain == Chain(h, slot)
        parent == CHOOSE c \in ToSet(chain) : h[c].next = n
    IN  [h EXCEPT ![parent].next = h[n].next, ![n] = Empty]

\* dl_hash_del
dl_hash_del(h, key, luck) ==
    LET slot == SlotOf(key)
        n == dl_hash_find(h, key, luck)
        rest == IF n # slot THEN Unchain(h, slot, n)
                ELSE IF h[slot].next # Null THEN MoveUp(h, slot)
                ELSE [h EXCEPT ![slot] = Empty]
    IN  IF n = Null THEN Result(h, answer, <<>>, FALSE)
        ELSE Result(rest, answer, free_v(h[n].vals), FALSE)

\* What a caller must see to: of two keys with the same hash, dl_hash_find takes
\* one for the other when it begins like it.
KeysApart ==
    \A j, k \in Keys : j # k /\ dl_hash_key(j) = dl_hash_key(k) => ~IsPrefix(j, k)

-------------------------------------------------------------------------------
(* What callers do.                                                          *)

Held(h) == UNION {ToSet(h[c].vals) : c \in Cells}

\* The values that a caller can store now.  Bound: each is stored once at a time.
Fresh == {v \in Values : fill_v(v) \notin Held(cells)}

\* What callers ask for.  A value is the one that fill_v reads.
Memory(h, room, enough) == room /\ enough /\ NewNode(h) # Null
SetCall(key, v, memory) == [op |-> "set", key |-> key, value |-> fill_v(v), memory |-> memory]
SetRepCall(key, v, memory) ==
    [op |-> "set_rep", key |-> key, value |-> fill_v(v), memory |-> memory]
DeleteCall(key) == [op |-> "delete", key |-> key]
OtherCall == [op |-> "new"]

\* The call c ends with the result r.  After a fault the rest of the state is
\* not looked at.
Ends(c, r) ==
    /\ ~fault
    /\ fault' = r.fault
    /\ IF r.fault THEN UNCHANGED <<cells, call, answer, released>>
       ELSE cells' = r.cells /\ call' = c /\ answer' = r.answer /\ released' = r.released
    /\ UNCHANGED <<kind, flag>>

\* dl_hash_init and dl_phash_init
Init ==
    /\ \/ kind = "hash" /\ flag \in {"UNIQUE", "LIST"}
       \/ kind = "phash" /\ flag \in {"UNIQUE", "LIST", "REPLACE"}
    /\ cells = [c \in Cells |-> Empty]
    /\ call = OtherCall /\ answer = "OK" /\ released = <<>> /\ fault = FALSE

\* dl_hash_set_str, dl_hash_set_int, dl_hash_set_void
HashSet(key, v, luck, room, enough) ==
    /\ kind = "hash"
    /\ Ends(SetCall(key, v, Memory(cells, room, enough)),
            dl_hash_set(cells, key, v, luck, room, enough))

\* dl_hash_set_str_rep, dl_hash_set_int_rep, dl_hash_set_void_rep
HashSetRep(key, v, luck, room, enough) ==
    LET d == dl_hash_del(cells, key, luck)
        r == dl_hash_set(d.cells, key, v, luck, room, enough)
    IN  /\ kind = "hash"
        /\ Ends(SetRepCall(key, v, Memory(d.cells, room, enough)),
                [r EXCEPT !.released = d.released])

HashDel(key, luck) == kind = "hash" /\ Ends(DeleteCall(key), dl_hash_del(cells, key, luck))

\* dl_hash_destroy, and a new table.
HashDestroy ==
    LET chains == FlattenSeq([s \in 1 .. Slots |-> Chain(cells, s)])
        all == FlattenSeq([i \in DOMAIN chains |-> free_v(cells[chains[i]].vals)])
    IN  kind = "hash" /\ Ends(OtherCall, Result([c \in Cells |-> Empty], answer, all, FALSE))

\* dl_phash_set_str, dl_phash_set_int, dl_phash_set_void.  They make a dl_str for
\* the key first, and nothing that they or dl_phash_set allocate but the node is
\* looked at before it is written to.
PhashSet(key, v, luck, room, enough) ==
    /\ kind = "phash"
    /\ Ends(SetCall(key, v, Memory(cells, room, enough)),
            [dl_phash_set(cells, key, v, luck, room) EXCEPT !.fault = ~enough])

Next ==
    \/ \E key \in Keys, v \in Fresh, luck, room, enough \in BOOLEAN :
          \/ HashSet(key, v, luck, room, enough)
          \/ HashSetRep(key, v, luck, room, enough)
          \/ PhashSet(key, v, luck, room, enough)
    \/ \E key \in Keys, luck \in BOOLEAN : HashDel(key, luck)
    \/ HashDestroy

Spec == Init /\ [][Next]_vars

-------------------------------------------------------------------------------
(* Properties.                                                               *)

\* A cell is in use exactly when it is in the chain of its key's slot.
TypeOK ==
    /\ \A c \in Cells : cells[c].next \in {Null} \cup (Slots + 1) .. (Slots + MaxNodes)
    /\ \A s \in 1 .. Slots :
          /\ IsInjective(Chain(cells, s))
          /\ \A c \in ToSet(Chain(cells, s)) :
                /\ cells[c].vals # <<>>
                /\ SlotOf(cells[c].key) = s
    /\ \A c \in Cells : cells[c].vals # <<>> => c \in ToSet(Chain(cells, SlotOf(cells[c].key)))

\* A key's values, in whichever cell they are; in two cells is an error.
ValuesOf(h, key) ==
    LET of == {c \in Cells : h[c].vals # <<>> /\ h[c].key = key}
    IN  IF of = {} THEN <<>>
        ELSE IF Cardinality(of) > 1 THEN <<"twice">>
        ELSE h[CHOOSE c \in of : TRUE].vals

Contents == [k \in Keys |-> ValuesOf(cells, k)]

\* "will be called before custom data replaced or deleted" (dl_hash.h:60): the
\* strings and objects that leave a table are freed or given to the handler in
\* that call, each once, and nothing that stays is.
ReleasedExactly ==
    (kind = "hash" /\ ~fault') =>
        /\ IsInjective(released')
        /\ ToSet(released') = {v \in Held(cells) \ Held(cells') : v.tt # "INT"}

\* "key already exits" (dl_hash.c:144): the key that a search finds is the key
\* that was searched for.  (Bytes behind the end of a key are taken to differ.)
FindExact ==
    \A key \in Keys :
        LET c == dl_hash_find(cells, key, FALSE) IN c # Null => cells[c].key = key
================================================================================
