# dlbase in TLA+

dlbase is a C library of containers and allocators: a lock-free ring buffer, memory
pools, a slab allocator in shared memory, hashes, trees, a Lua-like table, a queue and
helpers for strings, time, logs and regular expressions. This directory holds the TLA+
models of its core, the TLC runs that check them on small instances and the theorems
that TLAPS proves for all instances.

## Inventory

| Part | State | Operations | Used by / uses |
|---|---|---|---|
| `dl_fifo.c` ring buffer | `data[]`, `in`, `out`, `mask` | `dl_fifo_in`, `dl_fifo_out`, `dl_fifo_out_peek`, init, destroy | one producer and one consumer thread without a lock; memory from a pool or malloc |
| `example/fifo.c`, `fifo_2.c` | a mutex, two consumer threads, main | send 100000 ages, take and print them | the ring buffer |
| `dl_pool.c` memory pool | chain of blocks (`last`, `end`, `failed`), `current`, `large`, `cleanup` | create, `dl_palloc`, `dl_pnalloc`, `dl_pool_cleanup_add`, reset, destroy | malloc; used by array, list, phash, strings, re, shm, fifo |
| `dl_array.c`, `dl_list.c` | `elts`, `nelts`, `nalloc`; parts | create, init, push, push_n, destroy | allocate from a pool; the array also moves the pool's `d.last` |
| `dl_shm.c` slab | page words (`slab`, `next`, `prev`), bitmaps, slot lists, free list, `stats`, `pfree` | `dl_slab_alloc`, `dl_slab_free`, and `dl_shm_create`, `dl_shm_init`, `dl_shm_slab_init` | memory mapped by several processes |
| `dl_hash.c`, `dl_phash.c` | slots with chains of nodes, each with a chain of values | set, set_rep, find, del, destroy | malloc / a pool |
| `dl_table.c` | array part, node part, `lastfree`, `lsizenode` | set, find, del by index or string, rehash, resize | malloc |
| `dl_rbtree.c`, `dl_bstree.c` | nodes with links, colours or heights | insert, delete, next, min | the caller's nodes |
| `dl_queue.c`, `dl_queue.h` | a ring of links with a sentinel | insert, remove, split, add, middle, sort | the caller's nodes |
| `dl_time.c` | alarm flag of the process, cached time of each thread | get, forced get | `gettimeofday` |
| `dl_string.c`, `crypt/` | none between calls | formatting, codecs, search, split, replace, padding, digests | pools, arrays and lists; OpenSSL |
| `dl_re.c` | none between calls; a temporary pool, match data and code within one | replace, match, capture by pattern | PCRE2, lists, pools |
| `dl_log.c` | a level and a file | init, free, log lines | `dl_vslprintf` |
| `json/` | parser state | parse, print | vendored library, not part of this project |

What is hard in this code, and what makes each part right:

* **ring buffer** - the only concurrent part: producer and consumer run element by element
  against each other; the indices are unsigned and wrap. Right: a bounded first-in
  first-out queue, no slot stored to and loaded from at once, and in the example every
  age printed once and every thread ended.
* **allocators** - long histories of splitting, merging, reuse and half-failed calls.
  Right: blocks handed out are long enough and disjoint, the bookkeeping describes
  exactly what is held, nothing leaks, freed memory becomes usable again.
* **hashes, table, trees, queue** - pointer surgery through any sequence of inserts and
  deletes, and allocations that fail in the middle. Right: each implements a map, an
  ordered set or a sequence.
* **array and list** - they move the pool's own pointer and leave memory to it. Right:
  what was pushed stays, in order, in memory nobody else has.
* **time** - a flag shared by threads, a cache that is not. Right: an answer is recent.
* **strings** - encoders and decoders written apart from each other, lengths counted in one
  loop and used in another, bounds kept by each conversion for itself. Right: round trips,
  exact sizes, no byte past a buffer, pieces that make up the text.
* **regular expressions** - a loop over matches with several things to give back.
  Right: the text between the matches is kept, the loop ends, all is given back.

There is no persistence besides the shared memory file and no message passing, so crashes,
retries and lost messages play no part outside `dl_shm_slab_init`.

## Modules

| Module | Models | Lines of code |
|---|---|---|
| `BoundedFifo` | what the ring buffer promises (abstract) | - |
| `Fifo` | `dl_fifo_in`, `dl_fifo_out`, `dl_fifo_out_peek`, one action per element copied | `dl_fifo.c` 46-130 |
| `FifoClients` | `example/fifo_2.c` over `Fifo` | all of it |
| `FifoProofs` | theorems about `Fifo` | - |
| `FifoClientsProofs` | theorems about `FifoClients` | - |
| `Allocator` | what the slab and the pool promise (abstract) | - |
| `Slab` | `dl_slab_alloc`, `dl_slab_free` and the pool `dl_slab_init` leaves | `dl_shm.c` 76-794 |
| `SlabProofs` | theorems about `Slab` | - |
| `Pool` | `dl_pool.c` with malloc failing at any point | all of it |
| `PoolClients` | `Pool` with an array or a list that grows in it | `dl_array.c`, `dl_list.c` |
| `PoolProofs`, `PoolClientsProofs` | theorems about these two | - |
| `RbTree` | insert, delete and the walk of the red-black tree | `dl_rbtree.c` |
| `BsTree` | insert, delete, find and the walk of the AVL tree | `dl_bstree.c` |
| `Queue` | the macros of the queue, middle and sort | `dl_queue.h`, `dl_queue.c` |
| `Containers` | one of the three above, for their run | - |
| `MultiMap` | what the hashes and the table promise (abstract) | - |
| `Hash` (`MCHash`) | both string-keyed hashes | `dl_hash.c`, `dl_phash.c` |
| `HashProofs` | theorems about `Hash` | - |
| `Table` (`MCTable`) | the table with its array and node parts | `dl_table.c` 59-905 |
| `Maps` (`MCMaps`) | one of the two, against `MultiMap` | - |
| `Time` | the time cache with several threads | all of `dl_time.c` |
| `Codec` | base64, hexadecimal, numbers, URI, HTML, JSON, UTF-8, AES padding, digests | `dl_string.c` 117-166, 734-1602, `crypt/` |
| `Search` | search, split, count, replace | `dl_string.c` 19-66, 173-340 |
| `Printf` | `dl_vslprintf` with its callers, the log among them | `dl_string.c` 346-724, `dl_log.c` |
| `MatchLoop` | replace, match and capture by pattern | `dl_re.c` 25-254 |
| `TextProofs` | theorems about `Printf` and `MatchLoop` | - |
| `Text` (`MCText`) | a program that uses these four | - |
| `Induction` | lemmas on natural numbers and sequences of steps, for the proofs | - |

### Fifo

`in`, `out` are the C variables modulo `UintMod` (2^32 in the code), `ring` is `data`. A
call is split where the other thread can come between: `InCall` reads `out` and fixes
the length, `dl_fifo_copy_in` stores one element, `InReturn` publishes `in`; the consumer
likewise with `OutCall`, `dl_fifo_copy_out`, `OutReturn` or `PeekReturn`. `memcpy`
does not promise an order, so the elements of one copy may go in any order; the code
only orders the two `memcpy` before the barrier and the barrier before the index.
`sent` and `rcvd` are history: positions in the producer's stream.

The barrier in `dl_config.h` stops the compiler, not the processor. That stores and loads of
one thread are seen by the other in program order is what x86 gives and what the library
relies on; the model takes it as given. A weaker memory model is not covered.

`RefinesBoundedFifo` maps the ring to `BoundedFifo`: `queue` is the part of the stream
between `out` and `in`, a `Put` takes effect when `in` is published, a `Get` when `out` is.

### FifoClients

Each thread of `fifo_2.c` is a program counter over the steps of `Fifo`. The
consumers share one `Fifo` consumer side, which is right only because of the mutex:
`LockProtectsOut` says that a consumer in the middle of a call holds it. `NUM` is the number
of ages (100000 in the program). `FairSpecC` assumes weak fairness of main and of each
thread: the operating system runs every runnable thread. No fairness of the mutex is
needed, because a consumer that takes it leaves it only with an element or at the end,
and there are finitely many elements. That a spinning thread sees the other's store
at all is what the barrier, which makes the compiler reload, is for.

### Allocator, Slab

A page is a number, a page word is a record (`Run`, `Start`, `Busy`, `Cut`) in place of the
masked bits, a `prev` word is a pointer and a type in place of a tagged pointer. The
functions on the four words of the pool (`TakeRun`, `FreePages`, `Unlink`, ...) are
the C functions and their steps in the C order. `live` and `held` are history: what
the callers hold. `dl_slab_alloc` is the three actions `AllocPages`, `AllocChunk`
and `AllocFresh`, `dl_slab_free` the two actions `FreeChunk` and `FreeBlock`; their
guards are the early returns. `FreeArgs` is every address that line 507 lets pass, from the first page's start to
`pool->end`, so wrong frees are part of every run. Two of them are special:

* A block at the start of a page is freed, the page is recut for small chunks, and the block is freed again. The
  address is then the one of the page's bitmap, whose own chunks are marked busy, so `dl_shm.c:519-557` accepts it: the
  bit is cleared, `used` counts one less, and a page that was full returns to its list (`FreeChunk`, `InBitmap`). No block
  is lost by that yet, but the chunk under the bitmap is the next one handed out, and its owner overwrites the
  bitmap. `Astray` says that such a chunk is free; the model ends there, which is why the run does not check for deadlock.
* For `pool->end` the code reads the word behind the last page's. It says "free page" (cleared with the others, or the
  padding of a new file) and the call is refused. Only when the pages begin right behind their words, as with 321 pages, it is a part of
  page 0; no model has that.

`TwoTo[k]` is the code's `1 << k`; `SlabAssumption` asks of the sizes what the code has: a word
is a power of two of bits (64) and fits into a page, a byte has at least two bits, and the smallest chunk is less than a page.

`SlabChunks.cfg` has pages of 16 bytes and words of 4 bits: shift 1 is a small
page (its bitmap takes chunks of the page), shift 2 is exact, shift 3 is big, as 3-5,
6 and 7-11 are with 4096-byte pages and 64-bit words. Three pages let every chunk type meet a
page reused from another one, and give a block a free and a busy neighbour on each side.

One caller is inside the allocator at a time. The code takes no lock, so this is the callers' duty.

### Pool

Addresses are numbers and malloc owns `NRegions` regions. The state of a call is a record
that the translated functions pass on (`Small`, `NewBlock`, `Large`); "fuel" says how many
mallocs succeed before one fails, so each call is checked with each possible failure.
`Destroy` walks the cleanup list; a record whose bytes were handed out again is an
unknown handler (`Wild`). `MaxAtReset` is the number of cleanup records that a pool may have
when a caller resets it: `dl_reset_pool` keeps the list `pool->cleanup` and hands the memory of
its records out again, so `HandlersRunOnce` fails as soon as it is 1. The run has 0:
pools with cleanup records are destroyed, not reset.

`PoolAssumption` states what the constructor does not check: a size that is a multiple of
`DL_ALIGNMENT` and large enough for the header and a large record. Without it
`dl_palloc_small` hands out memory behind the block, as `Room` computes
`end - m` modulo the word. `WordMod` is 2^64 in the code; all addresses are below it. `Malloc` answers
requests up to the size of a region and has no memory for longer ones, so that every request may be
made of it. `Handlers` is the walk of `dl_destroy_pool` along the list, one record after the other.

### PoolClients

The composition of the pool with its callers. `kind` is "plain" (the calls of `Pool` as they are),
"array" or "list"; one array or list grows in the pool while `Other` takes memory of its own,
and the pool may be reset or destroyed at any time. `InPlace` and `dl_array_destroy` look at `d.last` of
the pool's first block, which is not where the pool allocates once it has moved on; the
properties say that this never touches memory in use. The i-th element pushed is i, and
`Copied` gives `Wild` to what `memcpy` does not reach; `ElementsKept` says where each element is and that its bytes belong to
a block that holds nothing else. `HeaderAndElements` is the common
shape of create and push: a structure first, then its elements, either of which malloc may
fail, the first of them lost to the pool then. `ClientsAssumption` has no array for zero
elements: `dl_array_push` doubles from zero there, gets an address from `dl_palloc(p, 0)` and
writes where nothing was given out.

`ImplementsAllocator` is `Allocator!ExtensibleSpec`: blocks are given out long enough and
disjoint, one block may be exchanged for a longer one at the same address (growth in
place), and blocks at the end may be given back (destroy).

### RbTree, BsTree

The callers own the nodes; here they are `1 .. N` with fixed keys (`KeyDiv` nodes share
a key). A tree is a record of link functions, and every C function is an operator from
tree to tree, its assignments in the C order; `kid["L"]` and `kid["R"]` are `left` and
`right`, so that one operator stands for a function and its mirror image where the code
has both. One call is one step, since the trees are used by one thread.
`RbTree` has two more memory cells: the sentinel (`Nil`) and the stack copy `bak`
of a node (`Bak`) that `dl_rbtree_delete` links into the tree while it repairs it.

Both files have faults that destroy the tree. A model that went on from there would only
follow wild pointers, so `fault` records that one happened and the model ends; this is
why the runs do not check for deadlock. The properties of the passing runs hold in every state
before a fault. The faults are

* `RbTree`, "inner": the inner case of the insertion repair, see findings;
* `RbTree`, "root": `dl_rbtree.c:292` makes the child of a deleted root the root and leaves its
  parent. Rotations take a node with a parent for "not the root node" (210, 240), so later turns at
  the root do not change `tree->root`: insert 1 and 2, delete 1, insert 3 and 4, and 3 and 4 are lost;
* `BsTree`, "duplicate": see findings;
* `BsTree`, "rotation" and "crash": `dl_bstree.c:167` compares an unsigned balance with
  zero, so a child that leans right counts as leaning left, and a deletion turns once where it must
  turn twice, or follows NULL (insert 2, 1, 3, 4, delete 1);
* `BsTree`, "parent": after a deletion that rotates below the root, the top of the
  rotated subtree has no parent, and `dl_bstree_next` follows NULL.

The operators are recursive as the C functions are, so these modules are for TLC only.

### Queue, Containers

`link` is `prev` and `next` of each node and of two heads. Every macro is an operator that
makes its assignments one after the other, because in `dl_queue_split` and
`dl_queue_add` later ones read what earlier ones wrote. The caller frees a removed element and a head that was
added to another (`Free`), so a link that still led there would lead to NULL next. `order` is the history:
the list that each head should be. `Stable` says what a stable sort of a list is; `dl_queue_sort`
is the code's insertion sort on the links. `Containers` holds a tree or a queue at a time; they
share no code and are checked in one run.

### MultiMap, Hash

`MultiMap` is a map from keys to sequences of values. Its `mode` is what a second value of a key
does: it is refused ("UNIQUE"), comes behind the first ("LIST") or takes its place
("REPLACE"). `call` is the last call with its key and value and whether each of its allocations succeeded; a step
of `MultiMap` does what its call says to the values of that key, and to no other. A set answers
"ERROR" only if an allocation of it failed, and only for a key without values; it changes nothing then, or, in `SetRep`,
has removed the old values already, as `dl_hash_set_void_rep` has.

`Hash` models both hashes; `kind` says which one, and `flag` is `h->flag`, both chosen in
`Init`. Cells are the slots and `MaxNodes` further nodes; a cell has its key, its hash, the link of
its slot's chain and the sequence of its values (the struct's `v` and the chain `v.next`). A key is a
sequence of bytes because two lengths matter: `dl_hash_key` looks at `HashLen` bytes
(20 in the code) and `memcmp` at the length of the searched key. Where the stored key is
shorter, the bytes behind it are unknown, and `luck` says whether they match.

Every allocation may fail. `room` says whether there is memory for a new node: without it `dl_hash_set` and
`dl_phash_set` answer DL_ERROR and have changed nothing (`dl_hash.c:132`, `dl_phash.c:102`), and go on working. `enough` says
whether there is memory for what the call copies after it has changed a cell; if not, the
table has a node without key that later calls follow: `fault`, where the model ends. What `RefinesMultiMap` says of
failed allocations is about the first kind; no property is about a table after the second kind.

`HashSizes` says what the constants are. `KeysApart` is a condition on the keys that callers use: of two keys with
the same hash none begins with the other. The code does not see to it: with keys longer than twenty bytes it
fails, and `hash_prefix` shows what follows. `Maps` assumes it, and TLC evaluates it for the keys of `Maps.cfg`.

### Table

One record holds the array, the nodes and `lastfree`; a node is counted from 1, and no nodes
at all is `dummynode`. The functions are translated with the C names, `dl_newkey_l`, `dl_rehash`
and `resize` calling each other as in C, in the C order of insertions. `fault` is how a call ends
that does not leave a working table: "memory" for a failed allocation in the middle, "freed" when
`resize` would read an array that a resize within it freed (`TypeOK` says that it never does),
"endless" when rehashes nest without end; `MaxDepth` is where the model gives up counting.

A value has a type and a word. `dl_array_set_void_l` and `dl_node_set_void_l` compare the word before
they look at the type, and a deleted index keeps its word: setting an object that has the address
of the one deleted there answers DL_OK and stores nothing. `ReuseAddresses = FALSE` keeps this
case out of the runs; with TRUE, `RefinesMultiMap` fails. A failed allocation changes no value in two places: the copy of
a string key (`SetNoKeyMemory`) and the copy of a string for a free index of the array (`SetNoStringMemory`). All
others are the fault "memory". String keys are known by hash and name; none is a prefix of another, because
`dl_find_by_str` (`dl_table.c:595`) compares over the length of the searched key, so that after
"name", setting "na" overwrites it.

### Maps

`Maps` holds a hash or a table, which share nothing but what they promise: `Contents` is the
map that each stands for, and `RefinesMultiMap` has one mapping for both. `Maps.cfg` declares two of the values
symmetric (`W1`, `W2`): nothing but equality is asked of them, and the properties are invariants and step
properties, for which symmetry is sound. The view leaves out `call`, `answer` and `released`: no guard reads them, the
invariants do not mention them, and of the step properties, which TLC evaluates on every step it generates, they are
looked at after the step only (that a deletion leaves `answer` alone does not depend on its value). `ReleasedOnce` says nothing of `dl_phash`, which frees nothing.

### Time

`Begin`, `Gettimeofday`, `Localtime`, `Strftime`, `Clear` and `Return` are the steps of a call; the
cached values are per thread, the alarm flag and the memory of `localtime` are not. Another thread's
`localtime` between two steps gives a date that is not this thread's; the property looks at answers only. The
clock runs to `MaxNow`.

### Codec, Search, Printf, MatchLoop, Text

The functions of `dl_string.c` and `crypt/` keep nothing between calls, so they are operators on
sequences of bytes, `Text` applies them in turn, and the properties relate one function's answer to
another's: `RoundTrips`, `SizesExact`, `PiecesRight`. What a function reads beyond its
argument is `Wild`: a wrong AES key, a hexadecimal text whose length is no multiple of prefix and
digits, base64 with bytes above 127 (`dl_string.c:873` indexes with a signed char). Bounds are
constants so that small ones are met: `Block` for AES, `IntMax` and `Word` for numbers. The boundaries that
`Expected` and `Ambiguous` name are the code's: `dl_hex2bc` refuses an empty text, and one of odd length, which
an odd number of bytes behind a prefix of one character has; the largest word that `dl_hextoi` can return is
DL_ERROR; `dl_escape_uri` with DL_ESCAPE_REFRESH leaves '%' alone, though the comment at `dl_string.c:1113`
lists it, so that such a text may read back differently; a '?' ends unescaping.

`Printf` starts from parsed directives: a format is a sequence of them with their arguments and flags. Each turn
of the loop is a step, with a buffer of `BufferSize` (1024 in `dl_printf_core` and `dl_log_core`).
`dl_sprintf` has no bound and is the caller's duty: it passes the highest address as `last`, and `Boundless` is the room
it has so. `PrintedIsPrefix` says that every output is the one of `dl_sprintf` cut off at the caller's bound.
Flags that `dl_sprintf_num` cannot work with (a fraction of more than nine digits overflows `scale`) are not among the directives.

`MatchLoop` takes PCRE2 as external: `matches` is any function from beginnings to ends, and a search finds the
leftmost from `offset` on. `held` is what the call has taken and must give back. `PiecesRight` says that calls that
came to match give everything back; the early returns do not (`dl_re.c:57` keeps the temporary pool, 66 too, 204 the match
data and the code), which the model has and no comment or test denies.

## Runs

| Run | Question | Answer |
|---|---|---|
| `fifo` | Ring of 4, indices modulo 8, calls up to 5 elements, 11 elements in all, so both the ring and the indices wrap | all properties hold |
| `fifo_clients` | Ring of 2, two consumers, six ages | each age printed once, all threads end |
| `slab_chunks` | Every chunk type and whole pages, frees of every address up to the pool's end, until a chunk under a bitmap was freed | the allocator is implemented, maps, lists, runs and stats are exact, a free gives back a block only at the start of one held |
| `pool` | Small and large requests, failures, cleanup records and half-failed registrations, resets without records; an array or a list of up to five elements between other requests | the allocator is implemented, regions are exact, only worn blocks are skipped, records stay intact, handlers run once, newest first, elements stay |
| `containers` | Nine nodes and five keys (red-black), eleven and six (balanced), every fault-free sequence of inserts and deletes; five elements in two queues under every sequence of macros and sorts | links, colours, heights, balance, order hold; the queue is a list |
| `rbtree_inner` | "re-balance tree" with the inner case | **violated**: see findings |
| `bstree_duplicate` | A "duplicated" key leaves the tree as it was | **violated**: see findings |
| `maps` | Four keys in two slots, two with equal hashes, four values one of which does not fit into an int, both hashes and all flags; indices 0, 1, 3 and -1 and a string with the hash of 0, tables that start empty or with both parts; failed allocations that change nothing | each call does to its own key what it was asked, values are released once, chains and `lastfree` exact |
| `hash_prefix` | A found key "already exits" | **violated**: see findings |
| `table_rehash` | "all elements smaller than n will go to array part" | **violated**: see findings |
| `text` | Codecs over all texts of up to three bytes from the boundaries (and five from three of them), raw texts of up to four, UTF-8 at both ends of each length, splits of texts of up to five with separators of up to two, formats of up to three of ten directives into six bytes, all matches in a subject of three | round trips, sizes, pieces and bounds hold, the match loop ends |
| `time` | "do not update time within 1 second" | **violated**: see findings |

In `Maps.cfg` hashes have 3 bits and ints 4; a uint of the table has 3 bits, so that `hashnum`
of -1 wraps. With these indices the array grows to 4, shrinks again with values left over
that move to nodes, and a node that is not in its main position is moved.

`PoolClients.cfg` has requests that fit a block and ones that do not (`Sizes`), and cleanup records with
no data and with small data (`DataSizes`). `FailLimit` is 0 (4 in the code) so that blocks are skipped with few
regions; `MaxBlocks` ends requests when five blocks are out. The comment at `dl_pool.c:197` says five failures; the code moves on when the count
goes from five to six, and does not count the last block of the chain.

## Findings

* `rbtree_inner`: `dl_rbtree.c:107` turns around the new node in the left-right case and
  `dl_rbtree.c:111-112` goes on with the wrong node in the right-left case: inserting 3, 1, 2 follows a NULL.
* `bstree_duplicate`: `dl_bstree.c:275` cuts off a subtree when a duplicate key is inserted below the root.
* `hash_prefix`: `dl_hash.c:117` compares over the searched key's length: a 20-byte prefix of a stored longer
  key is found, cannot be set, and deletes the longer key.
* `table_rehash`: `dl_table.c:705` counts array indices from one, the array holds them from zero. Setting index 1
  and then a string in an empty table rehashes until the stack ends.
* `time`: `dl_time.c:35`: the first caller clears the alarm and nothing sets it again. After that a thread answers its
  first time for ever, or zero when it had none.

Further faults that were met while modelling are described with the modules above: the accepted second
free of a page that was recut small (`dl_shm.c:534`), the kept
cleanup list (`dl_pool.c:257`), the new root's parent (`dl_rbtree.c:292`), the unsigned balance
(`dl_bstree.c:167`), the missing parent after a deletion (`dl_bstree.c:204`), the compared word
(`dl_table.c:301`), the compared prefix (`dl_table.c:595`), arrays for no elements (`dl_array.c:66`), the
unchecked last push of the split functions (`dl_string.c:250`), patterns with empty matches, on which the loops of
`dl_re.c` never end, and the leaks of their early returns.

## Proofs

`FifoProofs` proves, for every ring size that divides the index width as `FifoAssumption` says,
every call length and every number of elements: type correctness, `NeverOverfull`, `InOrderDelivery`,
`NoConcurrentSlotAccess`, and that `Fifo` refines `BoundedFifo`. The argument: an invariant in terms of
absolute stream positions. `in` and `out` are the residues of `sent` and `rcvd`, the difference is
at most the ring size, hence the unsigned difference is exact; slot `x` holds stream element
`x` for every position from `rcvd` to `sent`, and the positions a producer stores to are
`Size` or more ahead of those the consumer loads, which makes their slots different. None of the
four properties is inductive without the contents of the ring and of the two copies in
progress. TLC checks the invariant on the instance of `Fifo.cfg` as well.

`FifoClientsProofs` adds the program: any number of threads, ages and slots. `CInv` says that the thread
that holds the mutex is the one between lock and unlock (`MutexInv`), that only such a thread can be inside `dl_fifo_out`
(`CallInv`), and that an age taken from the ring is in one place, the hand of a thread or the output, and all taken ages
are below `rcvd` (`AgesInv`, `OwnersInv`). It rests on `Fifo`'s invariant: that the element a consumer takes is the
next one of the stream is `InOrderDelivery`. It yields `LockProtectsOut` and `EachAgeOnce`.

`PoolProofs` proves all five invariants of the pool for every alignment, pool and header size, every set of
request sizes and every malloc that fails. A call is a function on a record of pool, heap and
mallocs left, so its lemmas follow the code: each C function maps a good record to a good one and says what it adds to what
is handed out. `PoolInv` (`Kept`) says: `last` of every block of the chain is between its header and its end, and the
block starts a region (`BlocksOK`); blocks before `current` have failed too often, and from there on none has failed
more often than one before it (`FailuresOK`); regions are owned by a block, by a large record or by a call in progress, once each, and are
exactly those taken from malloc (`RegionsOK`); and what callers hold is either below `last` of a block or a region of its own, disjoint
from other blocks and from every record (`ExtentsOK`). `RecordsSafe` alone is not inductive, because nothing in it
keeps the free room of a block apart from what was handed out. `CleanupRecordsIntact` and `HandlersRunOnce` are proved for
`MaxAtReset <= 0`, the assumption under which they hold: `dl_reset_pool` keeps the cleanup list (`dl_pool.c:257`). For the
second, the cleanup list is numbered in the order of registration (`Numbered`), and the walk of `dl_destroy_pool`, which is a
recursive function on the list's length, is shown to have a solution and to collect the armed records newest first, by induction over
the natural numbers.

`PoolClientsProofs` proves `ElementsKept` and that the pool together with its arrays and lists implements `Allocator`, and that the
invariants of the pool survive what they do to it: `dl_array_push` and `dl_array_destroy` move `d.last` of the first
block without the pool. `ClientInv` adds to `PoolInv` that blocks and their number agree (`Tallied`), that an array's structure and
its elements are blocks of its own (`ArrayKept`), and that the parts of a list have pairwise different blocks, are all full but
the last, and hold consecutive elements (`ListKept`). The heart is growth in place: that the array ends at `last` of the first
block means that what is behind it belongs to nobody, whether or not the pool still allocates there.

`SlabProofs` proves all eight properties of `Slab`, and with them that it implements `Allocator`, for every number of pages, every page, word
and smallest chunk size that `SlabAssumption` allows and every set of requests. Only the page functions touch several pages at once, so the
argument is about them. `Layout` says five things. Page words tile the pages into runs, blocks and cut pages (`Tiled`), and no run follows a
run (`Apart`). The last page of a run that has a successor points to its first page (`Tails`), which is how the release of the successor
finds the run. Every list is doubly linked, holds the pages whose word and bitmap say so (`ListOf`), and has ranks that fall along it
(`Linked`), so that it has no cycle but the one through its head. A cut page has its bitmap's chunks and at least one more marked, other pages have none
(`Chunked`). The callers' blocks are the marked chunks and the started blocks, one to one (`LiveExact`), and the counters count them
(`Counted`). None of the run's properties is inductive alone: which run is merged with which depends on the tags, the links and the
back pointers together. Ranks are an existential: unlinking keeps them, pushing in front of a list gives the page
the head's rank and the head a higher one.

The lemmas follow the C functions. `TakeRunFit` is about taking pages from a run, with the split and the whole run apart; `FreePagesFit` composes
`ClearedFit` (the pages become a run that is in no list yet), `JoinNextFit`, `RunBeforeFinds`, `JoinPreviousFit`, `TaggedFit` and
`PushFreeFit`: between them the invariant holds with one run outside the lists, which is what the last parameter of `Fit` names. `LeaveFit` and `RelistFit` are a
page that leaves a slot's list when it becomes full and returns to it. `Handed` and `Returned` then say what a call does to the blocks: `Gains` or
`Loses`. Powers of two are a recursive function, whose sums and order are shown by induction (`TwoToAdd`, `TwoToGrows`); that an address leads back to its page
and chunk is `ChunkPlace` and `PlaceOfAddress`. `List` follows `next` for `NPages` steps; that it meets each page of the list once and misses none is
`WalkFalls` (ranks) and `WalkAll` (a missed page would have endlessly many missed ones before it). TLC checked `Layout` as an
invariant on pools of three and of six pages before it was proved.

`Layout` does not survive the free of a chunk under a bitmap. `Sound`, which is what `LayoutInvariance` proves, is therefore `Core`, all of it
but the marks of bitmaps and the number used, together with `Layout` as long as not `Astray`. `StrayFree` is that step: the bit, `used` and
perhaps the slot's list change, and nothing else does. `OnlyStartsAreFreed` (whatever the address, a block is given back only at the start of one that is held)
follows from it, and the other properties but the `used` part of `StatsExact` follow from `Core`.

`TextProofs` proves `NeverPast` and `PrintedIsPrefix` for every buffer size, every format and every argument. The code looks at the
room once per turn ("could copy at least one character"), and a directive then writes several times: sign, padding, digits,
point, fraction. For `NeverPast` the lemmas say of each part that it returns a sequence no longer than the room it was
given, and that the room of the next part is what is left. The invariant `WithinBound` adds
that between turns the text is within the bound `dl_vslprintf` was given (`Capacity`), which is what
leaves a place for the newline and for the Nul; `NeverPast` looks at the whole buffer and is not inductive.
For `PrintedIsPrefix` they say more: a directive has one text to write (`Full`), and writes of it what there is room for, whatever the room;
two texts behind each other that are cut one by one are their concatenation cut once (`CutConcat`). `Whole` is a
recursive function, whose recursion is shown to have one solution by induction. `PrefixInv` adds to the property the time before the
first directive, the head of a log line and the end of the text.
Assumptions: `PrintfAssumption` (sizes; no buffer is longer than the address space) and `DirectivesAssumption`, which says what each
conversion's argument is. `NeverPast` says nothing of `dl_sprintf`.

`TextProofs` also proves of `MatchLoop`, for every subject length and every set of matches, that the pieces of a replacement are chained by
the matches between them from the first character to the last, and that calls that came to match give all back
(`MatchInv`: the next piece begins where the last match ended). They are the parts `PiecesTile` and `GivenBack` of `PiecesRight`.

`HashProofs` proves for every number of slots and nodes, every set of values and every set of keys, through collisions and failed
allocations: `TypeOK` of the hash (a cell is in use exactly when it hangs in the chain of its key's slot, there once), and, for keys
that are `KeysApart`, `FindExact` and that the hash implements `MultiMap` (`RefinesMultiMap`). These are the
hash's halves of the two properties of `Maps`, whose other halves are about `Table`. The first proof needs no condition on keys: that a
search confuses two keys costs values but breaks no chain. `Layout` names the cells of each slot's chain in order, and is kept by
each way in which the functions change cells: a slot is filled (`FillSlotKeeps`), a node goes behind the first (`BehindFirstKeeps`), a cell gets other
contents (`ChangeCellKeeps`), one is unlinked or moves up (`CutOutKeeps`), a slot is emptied (`EmptySlotKeeps`). All that is not in the changed slot stays as it was
(`Relayout`). `Chain` follows `next` by a recursive function; that it has a solution, that it comes to an end within `MaxNodes + 1`
steps (pigeonhole) and that it meets the cells of the layout is shown by induction on the steps (`WalkAlong`, `ChainIs`). The
refinement adds that each key is in one cell (`Distinct`). `TypeOK` is not inductive: it says nothing of the type of keys and values or of the
stored hashes.

`Induction` has the facts on natural numbers that these proofs use: a set of numbers has a least one, and a set that contains 0 and the
successor of each member contains all, so that a chain of steps of any length has a solution (`StepsExist`). They follow from the
library's theorem that < is well-founded.

Only model-checked:

* liveness (`FifoClients`, the match loop), which is out of the prover's reach;
* the containers: `RbTree`, `BsTree` and `Queue` are recursive as the C functions or loops are, which the prover cannot use;
* the table, which is recursive as the C functions are, and with it the table's halves of `TypeOK` and `RefinesMultiMap`;
* `ReleasedOnce`: what a hash frees is gathered with `SelectSeq` and `FlattenSeq`, which the provers do not know;
* the codecs and the search functions: they are folds and recursive functions over the text, each of which would need
  an induction of its own.

Fairness: `FairSpecC` has each thread scheduled, as said with `FifoClients`. `Text` has weak fairness of the
steps of a match call but not of its error: a thread inside a loop goes on by itself, and it must come to its end
without the help of a failing PCRE2.

## Plan

1. `Shm`: processes that open, format and use the same file, with the static page shift.
2. The initialisation of the ring with 32-bit products; requests near the limits of the slab's words.

## Not modelled

* `json/`: the MJSON library, vendored.
* `dl_config.h`, `dl_base.h`, makefiles, `example/aes.c`, `example/table.c`: macros, build rules and straight-line
  demonstrations.
* `dl_strlow`, `dl_pstrdup`, `dl_pstrdup_nt`, `dl_strdup_nt`: one copy each.
* The parsing of flags and widths in `dl_vslprintf` (`dl_string.c` 433-495), `dl_log_init`, `dl_log_free`, `dl_compile_re`: parsing and
  calls into libraries without an effect on later calls that a property could tell.
* `dl_fifo_init`, `dl_fifo_destroy`, and `dl_shm_create`, `dl_shm_init`, `dl_shm_slab_init`: see the plan.
