-------------------------------- MODULE Search --------------------------------
(***************************************************************************)
(* Searching, splitting and replacing in dl_string.c.  A text is a         *)
(* sequence of characters, Nul is the byte that ends a C string.  The      *)
(* pieces are pointers into the text, which nothing changes, so they are   *)
(* given by their characters.                                              *)
(***************************************************************************)
EXTENDS Integers, Sequences, SequencesExt

Nul == 0
NotFound == -1

\* dl_strnchr: how many characters stand before the first c.
dl_strnchr(s, c) ==
    IF \E i \in DOMAIN s : s[i] = c THEN SelectInSeq(s, LAMBDA x : x = c) - 1
    ELSE NotFound

\* Mutant: the last character of sep is not compared.
CandidateShort(s, sep, at) ==
    /\ SubSeq(s, at + 1, at + Len(sep) - 1) = SubSeq(sep, 1, Len(sep) - 1)
    /\ \A i \in 1 .. at + 1 : s[i] # Nul

\* The search looks for the first character of sep and stops at a Nul; where
\* it stands, the rest is compared, Nul or not.
Candidate(s, sep, at) ==
    /\ SubSeq(s, at + 1, at + Len(sep)) = sep
    /\ \A i \in 1 .. at + 1 : s[i] # Nul

dl_strnstr(s, sep) ==
    LET found == {at \in 0 .. Len(s) - Len(sep) : sep # <<>> /\ Candidate(s, sep, at)}
    IN  IF found = {} THEN NotFound ELSE CHOOSE at \in found : \A x \in found : at <= x

Behind(s, n) == SubSeq(s, n + 1, Len(s))

\* The loop of dl_split_by_s, dl_split_by_s_l and dl_str_replace: a piece up to
\* each separator, and what is left.
Pieces(s, sep) ==
    LET from[at \in 0 .. Len(s)] ==
            LET rest == Behind(s, at)
                n == dl_strnstr(rest, sep)
            IN  IF n = NotFound THEN <<rest>>
                ELSE <<SubSeq(rest, 1, n)>> \o from[at + n + Len(sep)]
    IN  from[0]

\* Each piece is pushed to an array or list, which works "room" times.  NULL
\* is answered when a push in the loop fails; the last one is not looked at.
Split(s, sep, room) ==
    LET pieces == Pieces(s, sep)
    IN  CASE Len(pieces) <= room -> [end |-> "done", pieces |-> pieces]
          [] Len(pieces) = room + 1 -> [end |-> "crash", pieces |-> <<>>]
          [] OTHER -> [end |-> "null", pieces |-> <<>>]

\* dl_split_by_c looks at each push.
dl_split_by_c(s, c, room) ==
    LET from[at \in 0 .. Len(s)] ==
            LET rest == Behind(s, at)
                n == dl_strnchr(rest, c)
            IN  IF n = NotFound THEN <<rest>> ELSE <<SubSeq(rest, 1, n)>> \o from[at + n + 1]
    IN  IF Len(from[0]) > room THEN [end |-> "null", pieces |-> <<>>]
        ELSE [end |-> "done", pieces |-> from[0]]

dl_substr_num(s, sep) ==
    LET from[at \in 0 .. Len(s)] ==
            LET n == dl_strnstr(Behind(s, at), sep)
                next == at + n + Len(sep)
            IN  IF n = NotFound THEN 0
                ELSE 1 + IF Len(s) - next < Len(sep) THEN 0 ELSE from[next]
    IN  from[0]

\* The copying loop of dl_str_replace: with behind each piece but the last.
JoinedBy(pieces, with) ==
    FlattenSeq([i \in DOMAIN pieces |->
        IF i = Len(pieces) THEN pieces[i] ELSE pieces[i] \o with])

\* dl_str_replace: the buffer is as long as the loop has counted.
dl_str_replace(s, sep, with) ==
    LET pieces == Pieces(s, sep)
    IN  [total |-> FoldLeft(LAMBDA n, p : n + Len(p), 0, pieces)
                   + Len(with) * (Len(pieces) - 1),
         text |-> JoinedBy(pieces, with)]
================================================================================
