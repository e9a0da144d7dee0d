-------------------------------- MODULE MCMaps --------------------------------
(***************************************************************************)
(* Keys, values and sizes for the runs of the maps.                        *)
(***************************************************************************)
EXTENDS Maps, TLC

\* Words that nothing is done with: they may change places.
CONSTANTS W1, W2
Words == Permutations({W1, W2})

\* With Radix 31 and three bits the hashes are 1, 1, 2 and 3: with two slots the
\* first, second and last share a slot, the first two the hash.
CollidingKeys == {<<1, 2>>, <<2, 3>>, <<1, 3>>, <<3>>}

\* 9 does not fit into an int of four bits.
MixedValues == {[tt |-> "STR", v |-> W1], [tt |-> "VOID", v |-> 2],
                [tt |-> "STR", v |-> W2], [tt |-> "INT", v |-> 9]}

Index(n) == [tt |-> "INT", n |-> n, name |-> 0]
Str(hash, name) == [tt |-> "STR", n |-> hash, name |-> name]

\* Small indices, a negative one and a string.
SomeKeys == {Index(0), Index(1), Index(3), Index(-1), Str(0, 1)}

SomeValues == {[tt |-> "INT", w |-> W1], [tt |-> "VOID", w |-> 2], [tt |-> "STR", w |-> 3],
               [tt |-> "INT", w |-> W2]}

\* What the next call depends on: not what the last one was and answered.
StateWithoutCall == <<which, hashVars, t, fault>>

EmptyOrSome == {[narray |-> 0, nhash |-> 0], [narray |-> 1, nhash |-> 2]}
================================================================================
