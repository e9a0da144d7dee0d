--------------------------------- MODULE Maps ---------------------------------
(***************************************************************************)
(* The two maps of the library, dl_hash (with dl_phash) and dl_table, and  *)
(* what both promise: MultiMap.  They share no code; a program uses one.   *)
(***************************************************************************)
EXTENDS Integers

CONSTANTS Slots, HashLen, Radix, IntBits, MaxNodes, HashUintMod,    \* see Hash
          HashKeys, HashValues,
          NewSizes, MaxBits, MaxDepth, ReuseAddresses, UintBits,    \* see Table
          TableKeys, TableValues

VARIABLES which,                \* "hash" or "table"
          kind, flag, cells,    \* the hash
          t,                    \* the table
          call, answer, released, fault

hashVars == <<kind, flag, cells>>
vars == <<which, hashVars, t, call, answer, released, fault>>

H == INSTANCE Hash WITH Keys <- HashKeys, Values <- HashValues, UintMod <- HashUintMod
T == INSTANCE Table WITH Keys <- TableKeys, Values <- TableValues

ASSUME MapsAssumption == H!HashSizes /\ H!KeysApart

NoHash == kind = "none" /\ flag = "REPLACE" /\ cells = <<>>

Init ==
    \/ which = "hash" /\ H!Init /\ t = <<>>
    \/ which = "table" /\ T!Init /\ NoHash

Next ==
    /\ UNCHANGED which
    /\ \/ which = "hash" /\ H!Next /\ UNCHANGED t
       \/ which = "table" /\ T!Next /\ UNCHANGED hashVars

Spec == Init /\ [][Next]_vars

-------------------------------------------------------------------------------
(* Properties.                                                               *)

\* The chains of both maps: each cell or node in use is in the chain of its key,
\* once, and no other is.
TypeOK == IF which = "hash" THEN H!TypeOK ELSE T!TypeOK

\* getfreepos overlooks no free node of a table.
FreeBeforeLastfree == which = "table" => T!FreeBeforeLastfree

\* The calls of dl_hash_set, dl_phash_set, dl_hash_del and those of dl_table are
\* the calls of a map from keys to lists of values: through collisions, moved
\* nodes and rehashes each call does to the values of its key what it is asked
\* for and nothing to another key; a set fails only when an allocation of that
\* call fails.  A failed allocation that leaves the table as it was (dl_hash.c:132,
\* dl_phash.c:102, dl_table.c:461 and 466, and 279 and 284 for a free index) loses
\* nothing but what dl_hash_set_*_rep has deleted; after any other one the table
\* is broken and the model has ended (fault).
MM == INSTANCE MultiMap WITH
    keys <- IF which = "hash" THEN HashKeys ELSE TableKeys,
    values <- IF which = "hash" THEN {H!fill_v(v) : v \in HashValues} ELSE TableValues,
    map <- IF which = "hash" THEN H!Contents ELSE T!Contents,
    mode <- flag
RefinesMultiMap == MM!MultiMapSpec

\* Strings are freed and objects go to the callers' handlers when they leave a
\* dl_hash or a dl_table, in that call, each once, and nothing that stays does.
\* (dl_phash frees nothing: what it holds ends with its pool.)
ReleasedOnce ==
    [][IF which = "hash" THEN H!ReleasedExactly ELSE T!ReleasedExactly]_vars
================================================================================
