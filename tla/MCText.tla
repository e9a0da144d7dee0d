-------------------------------- MODULE MCText --------------------------------
(***************************************************************************)
(* Values for Text: all single bytes, and short texts of the bytes that    *)
(* the codecs treat differently.                                           *)
(***************************************************************************)
EXTENDS Text

SomeBytes == {0, 37, 51, 63, 65, 200}
SomeTexts == {<<b>> : b \in 0 .. 255} \cup BoundedSeq(SomeBytes, 3) \cup BoundedSeq({0, 62, 255}, 5)

\* '%', '2', '3', 'F', '?' and a letter
SomeRaw == BoundedSeq({37, 50, 51, 70, 63, 122}, 4)

\* Both ends of each length.
SomePoints == {65, 127, 128, 2047, 2048, 65535, 65536, 1114111}

SomeNumbers == 0 .. 300
SomeSplits == BoundedSeq({Nul, 97, 98}, 5)
SomeSeparators == BoundedSeq({97, 98}, 2) \cup {<<97, Nul>>, <<Nul>>}
SomeReplacements == {<<>>, <<97>>, <<99, 99>>}
SomeKeys == {<<1>>, <<1, 0>>, <<1, 2>>, <<1, 2, 3>>}

Number10(v, width, zero) ==
    [conv |-> "number", v |-> v, sign |-> TRUE, base |-> 10, letter |-> 0,
     zero |-> zero, width |-> width]
SomeDirectives ==
    {Number10(-7, 3, 48), Number10(42, 0, 32),
     [conv |-> "number", v |-> -1, sign |-> FALSE, base |-> 16, letter |-> 97,
      zero |-> 32, width |-> 3],
     [conv |-> "float", v |-> -1999, frac |-> 1, zero |-> 32, width |-> 0],
     [conv |-> "float", v |-> 50, frac |-> 2, zero |-> 32, width |-> 2],
     [conv |-> "float", v |-> 150, frac |-> 0, zero |-> 32, width |-> 0],
     [conv |-> "char", c |-> 0], [conv |-> "text", s |-> <<97, 0, 98>>],
     [conv |-> "cstring", s |-> <<97, 0, 98>>], [conv |-> "cstring", s |-> <<99, 100>>]}
================================================================================
