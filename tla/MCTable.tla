------------------------------- MODULE MCTable --------------------------------
(***************************************************************************)
(* Keys, values and sizes for the runs of Table.                           *)
(***************************************************************************)
EXTENDS Table

Index(n) == [tt |-> "INT", n |-> n, name |-> 0]
Str(hash, name) == [tt |-> "STR", n |-> hash, name |-> name]

\* Small indices, a negative one and a string.
SomeKeys == {Index(0), Index(1), Index(3), Index(-1), Str(0, 1)}

SomeValues == {[tt |-> "INT", w |-> 1], [tt |-> "VOID", w |-> 2], [tt |-> "STR", w |-> 3],
               [tt |-> "INT", w |-> 4]}

EmptyOrSome == {[narray |-> 0, nhash |-> 0], [narray |-> 1, nhash |-> 2]}
===============================================================================
