------------------------------ MODULE PoolClients ------------------------------
(***************************************************************************)
(* A pool and its callers: either calls of all kinds ("plain"), or one     *)
(* dl_array ("array", dl_array.c) or one dl_list ("list", dl_list.c) that  *)
(* grows in the pool between other requests.                               *)
(*                                                                         *)
(* dl_array looks behind the pool's back: it grows in place, and gives its *)
(* memory back, by moving d.last of the pool's first block.  An array that *)
(* grew elsewhere leaves its old block to the pool until it is reset.  The *)
(* element stored i-th is i.                                               *)
(***************************************************************************)
EXTENDS Pool

CONSTANTS ArraySize,    \* sizeof(dl_array), 40 in the code
          ListSize,     \* sizeof(dl_list), 56 in the code
          PartSize,     \* sizeof(dl_list_part), 24 in the code
          ElemSize,     \* size of an element
          Counts,       \* elements that an array or a part is made for
          Batches,      \* numbers of elements that dl_array_push_n adds
          OtherSize,    \* what is asked for in between
          MaxElements,  \* bound: elements of the array or list
          MaxBlocks     \* bound: blocks in use when one more is asked for

\* An array for no elements would "double" from none: the caller's mistake.
ASSUME ClientsAssumption ==
    /\ {ArraySize, ListSize, PartSize, ElemSize, OtherSize} \subseteq Nat \ {0}
    /\ Counts \subseteq Nat \ {0} /\ Batches \subseteq Nat \ {0} /\ MaxElements \in Nat /\ MaxBlocks \in Nat

VARIABLES kind,     \* "plain", "array" or "list"
          array,    \* the array, or NoArray
          list      \* the list, or NoList

clients == <<kind, array, list>>
allVars == <<vars, clients>>

NoArray == [nalloc |-> 0]
NoList == [nalloc |-> 0]
HasArray == array # NoArray
HasList == list # NoList
Elsewhere == Null   \* a dl_array or dl_list that is not in the pool

\* A structure of some size, if it is in the pool, and n elements behind it.
HeaderAndElements(size, inPool, n, fuel) ==
    LET h == IF inPool THEN Palloc(Call(fuel), size, TRUE) ELSE Call(fuel)
    IN  [header |-> h.at,
         then |-> IF inPool /\ h.at = Null THEN h ELSE Palloc(h, n * ElemSize, TRUE)]

HeaderBlock(at, size) == IF at = Elsewhere THEN {} ELSE {Block(at, size)}
Elements(elts, n) == Block(elts, n * ElemSize)

-------------------------------------------------------------------------------
(* dl_array.c                                                                *)

\* dl_array_create (inPool) and dl_array_init
ArrayInit(n, inPool, fuel) ==
    LET made == HeaderAndElements(ArraySize, inPool, n, fuel)
        s == made.then
    IN  /\ kind = "array" /\ Open /\ ~HasArray /\ held < MaxBlocks
        /\ Keep(s)
        /\ IF s.at = Null THEN Give({}) /\ UNCHANGED array
           ELSE /\ Give(HeaderBlock(made.header, ArraySize) \cup {Elements(s.at, n)})
                /\ array' = [at |-> made.header, elts |-> s.at, nalloc |-> n, data |-> <<>>]
        /\ UNCHANGED <<armed, ran, kind, list>>

AtEnd == array.elts + ElemSize * array.nalloc = pool.chain[1].last

\* Mutant: the end of the block is not looked at.
InPlaceAnyway(n) == AtEnd

InPlace(n) == AtEnd /\ pool.chain[1].last + n * ElemSize <= pool.chain[1].end

Filled(data, n) == data \o [i \in 1 .. n |-> Len(data) + i]

\* memcpy of the first n elements
Copied(n) == [i \in DOMAIN array.data |-> IF i <= n THEN array.data[i] ELSE Wild]

Push(n, full, nalloc, copied, fuel) ==
    LET s == Palloc(Call(fuel), nalloc * ElemSize, TRUE)
        old == Elements(array.elts, array.nalloc)
    IN  /\ kind = "array" /\ Open /\ HasArray
        /\ Len(array.data) + n <= MaxElements
        /\ \/ /\ ~full
              /\ array' = [array EXCEPT !.data = Filled(@, n)]
              /\ UNCHANGED <<pool, heap, live, held>>
           \/ /\ full /\ InPlace(n)
              /\ pool' = [pool EXCEPT !.chain[1].last = @ + n * ElemSize]
              /\ array' = [array EXCEPT !.nalloc = @ + n, !.data = Filled(@, n)]
              /\ live' = (live \ {old}) \cup {Elements(array.elts, array.nalloc + n)}
              /\ UNCHANGED <<heap, held>>
           \/ /\ full /\ ~InPlace(n) /\ Keep(s)
              /\ IF s.at = Null THEN Give({}) /\ UNCHANGED array
                 ELSE /\ Give({Elements(s.at, nalloc)})
                      /\ array' = [array EXCEPT !.elts = s.at, !.nalloc = nalloc,
                                                !.data = Filled(Copied(copied), n)]
        /\ UNCHANGED <<armed, ran, kind, list>>

dl_array_push(fuel) ==
    Push(1, Len(array.data) = array.nalloc, 2 * array.nalloc, array.nalloc, fuel)

dl_array_push_n(n, fuel) ==
    Push(n, Len(array.data) + n > array.nalloc, 2 * MaxOf({n, array.nalloc}),
         Len(array.data), fuel)

\* "in two circumstance, recycle memory": what lies at the end of the first
\* block, first the elements and then the array itself.
dl_array_destroy ==
    LET last == pool.chain[1].last
        less == IF AtEnd THEN last - ElemSize * array.nalloc ELSE last
        header == array.at # Elsewhere /\ array.at + ArraySize = less
        back == (IF AtEnd THEN {Elements(array.elts, array.nalloc)} ELSE {})
                \cup (IF header THEN {Block(array.at, ArraySize)} ELSE {})
    IN  /\ kind = "array" /\ Open /\ HasArray
        /\ pool' = [pool EXCEPT !.chain[1].last = IF header THEN array.at ELSE less]
        /\ live' = live \ back /\ held' = held - Cardinality(back)
        /\ array' = NoArray
        /\ UNCHANGED <<heap, armed, ran, kind, list>>

-------------------------------------------------------------------------------
(* dl_list.c                                                                 *)

Part(at, elts, data) == [at |-> at, elts |-> elts, data |-> data]

\* dl_list_create (inPool) and dl_list_init.  The first part is in the dl_list.
ListInit(n, inPool, fuel) ==
    LET made == HeaderAndElements(ListSize, inPool, n, fuel)
        s == made.then
    IN  /\ kind = "list" /\ Open /\ ~HasList /\ held < MaxBlocks
        /\ Keep(s)
        /\ IF s.at = Null THEN Give({}) /\ UNCHANGED list
           ELSE /\ Give(HeaderBlock(made.header, ListSize) \cup {Elements(s.at, n)})
                /\ list' = [at |-> made.header, nalloc |-> n, nelts |-> 0,
                            parts |-> <<Part(Elsewhere, s.at, <<>>)>>]
        /\ UNCHANGED <<armed, ran, kind, array>>

\* A part without memory for its elements is lost to the pool.
dl_list_push(fuel) ==
    LET k == Len(list.parts)
        made == HeaderAndElements(PartSize, TRUE, list.nalloc, fuel)
        s == made.then
        elt == list.nelts + 1
    IN  /\ kind = "list" /\ Open /\ HasList
        /\ list.nelts < MaxElements
        /\ IF Len(list.parts[k].data) < list.nalloc
           THEN /\ list' = [list EXCEPT !.nelts = elt,
                                        !.parts[k].data = Append(@, elt)]
                /\ UNCHANGED <<pool, heap, live, held>>
           ELSE /\ Keep(s)
                /\ IF s.at = Null THEN Give({}) /\ UNCHANGED list
                   ELSE /\ Give({Block(made.header, PartSize), Elements(s.at, list.nalloc)})
                        /\ list' = [list EXCEPT !.nelts = elt,
                               !.parts = Append(@, Part(made.header, s.at, <<elt>>))]
        /\ UNCHANGED <<armed, ran, kind, array>>

-------------------------------------------------------------------------------
ClientsInit ==
    /\ Init
    /\ kind \in {"plain", "array", "list"}
    /\ array = NoArray /\ list = NoList

Plain == kind = "plain" /\ Next /\ UNCHANGED clients

Other ==
    /\ kind # "plain" /\ held < MaxBlocks
    /\ Create \/ \E fuel \in Fuel : Alloc(OtherSize, TRUE, fuel)
    /\ UNCHANGED clients

\* The structures end with the pool's contents.
EndsAll ==
    /\ kind # "plain"
    /\ Reset \/ Destroy
    /\ array' = NoArray /\ list' = NoList /\ UNCHANGED kind

ClientsNext ==
    \/ Plain
    \/ Other
    \/ EndsAll
    \/ \E n \in Counts, inPool \in BOOLEAN, fuel \in CleanupFuel :
          ArrayInit(n, inPool, fuel) \/ ListInit(n, inPool, fuel)
    \/ \E fuel \in Fuel :
          dl_array_push(fuel) \/ \E n \in Batches : dl_array_push_n(n, fuel)
    \/ dl_array_destroy
    \/ \E fuel \in CleanupFuel : dl_list_push(fuel)

ClientsSpec == ClientsInit /\ [][ClientsNext]_allVars

-------------------------------------------------------------------------------
(* Properties.                                                               *)

\* dl_palloc, dl_pnalloc, dl_pool_cleanup_add and the arrays that grow and shrink
\* in the pool keep the promise of an allocator through new blocks, skipped
\* blocks, large regions, failed mallocs and resets.
A == INSTANCE Allocator
ImplementsAllocator == A!ExtensibleSpec

Mine(b) == b \in live /\ \A c \in live \ {b} : Apart(b, c)

\* The header of part k, the dl_list itself for the first, and its elements.
PartHeader(k) ==
    IF k = 1 THEN HeaderBlock(list.at, ListSize)
    ELSE HeaderBlock(list.parts[k].at, PartSize)

PartElements(k) == Elements(list.parts[k].elts, list.nalloc)

\* What was pushed is there, in order, in memory of the array's or list's own:
\* through growth in place and by copying, other requests in between, and
\* allocations that fail halfway (dl_array_push, dl_array_push_n, dl_list_push).
\* No two headers or runs of elements share their memory either, and all parts
\* of a list but the last one are full.
ElementsKept ==
    /\ HasArray =>
          /\ Mine(Elements(array.elts, array.nalloc))
          /\ \A b \in HeaderBlock(array.at, ArraySize) :
                Mine(b) /\ b # Elements(array.elts, array.nalloc)
          /\ Len(array.data) <= array.nalloc
          /\ \A i \in DOMAIN array.data : array.data[i] = i
    /\ HasList =>
          LET n == Len(list.parts)
              mine(k) == PartHeader(k) \cup {PartElements(k)}
          IN  /\ \A k \in 1 .. n :
                    /\ \A b \in mine(k) : Mine(b)
                    /\ PartElements(k) \notin PartHeader(k)
                    /\ \A l \in 1 .. n : k # l => mine(k) \cap mine(l) = {}
                    /\ k < n => Len(list.parts[k].data) = list.nalloc
                    /\ \A j \in DOMAIN list.parts[k].data :
                          list.parts[k].data[j] = (k - 1) * list.nalloc + j
              /\ list.nelts = (n - 1) * list.nalloc + Len(list.parts[n].data)
================================================================================
