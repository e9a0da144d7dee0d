------------------------------- MODULE Allocator -------------------------------
(***************************************************************************)
(* What dl_slab_alloc / dl_slab_free and dl_palloc / dl_reset_pool promise *)
(* to their callers: a block that is handed out is as long as asked for    *)
(* and shares no byte with any block the callers still hold.               *)
(***************************************************************************)
EXTENDS Naturals, FiniteSets

VARIABLES live,     \* blocks in the callers' hands: [at, len, want]
          held      \* number of blocks in the callers' hands

Disjoint(b, c) == b.at + b.len <= c.at \/ c.at + c.len <= b.at

NothingLive == live = {} /\ held = 0

\* New blocks of at least the wanted length, apart from all the others.
Grant ==
    LET new == live' \ live
    IN  /\ live \subseteq live'
        /\ new # {}
        /\ held' = held + Cardinality(new)
        /\ \A b \in new :
              /\ b.want <= b.len
              /\ \A c \in live' \ {b} : Disjoint(b, c)

\* The caller gives one block back.
Release == \E b \in live : live' = live \ {b} /\ held' = held - 1

\* All blocks end together: a pool is reset or destroyed.
ReleaseAll == live' = {} /\ held' = 0

\* A block grows where it lies, into room that is nobody's.
Extend ==
    \E b \in live : \E c \in live' \ live :
        /\ live' = (live \ {b}) \cup {c} /\ UNCHANGED held
        /\ c.at = b.at /\ c.len > b.len /\ c.want <= c.len
        /\ \A d \in live \ {b} : Disjoint(c, d)

\* Some blocks go back at the same time.
ReleaseSome ==
    /\ live' \subseteq live
    /\ held' = held - Cardinality(live \ live')

AllocatorSpec == NothingLive /\ [][Grant \/ Release \/ ReleaseAll]_<<live, held>>

\* The same of an allocator whose last block can grow and shrink.
ExtensibleSpec == NothingLive /\ [][Grant \/ Extend \/ ReleaseSome]_<<live, held>>
================================================================================
