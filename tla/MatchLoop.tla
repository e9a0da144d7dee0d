------------------------------- MODULE MatchLoop -------------------------------
(***************************************************************************)
(* dl_re.c: dl_str_replace_re, dl_str_capture_re and dl_str_match_re.      *)
(* PCRE2 is external: from an offset it finds the leftmost match of those  *)
(* the pattern has in the subject, one for each place it may begin at.     *)
(* One search is one step.  "held" is what a call has not given back.      *)
(* Every call may be short of memory or be told that matching failed; that *)
(* a piece can be added is taken for granted, as the code does.            *)
(***************************************************************************)
EXTENDS Integers, Sequences

CONSTANTS SubjectLen,  \* length of the subject
          MaxPieces    \* bound: an endless loop is followed so far

ASSUME MatchAssumption == SubjectLen \in Nat /\ MaxPieces \in Nat

VARIABLES fn,       \* "replace", "capture_all", "capture_one" or "match"
          matches,  \* for each begin the end of the match there, or NoMatch
          own,      \* whether the call compiles the pattern (rep == NULL)
          pc,       \* "start", "loop", "last" or "done"
          offset,   \* where the next search begins
          pieces,   \* what the list holds, as <<from, to>>
          result,   \* "none", "text", "list", "count" or "null"
          held      \* "tmp_p", "code" and "match_data"

matchVars == <<fn, matches, own, pc, offset, pieces, result, held>>

NoMatch == -1
Functions == {"replace", "capture_all", "capture_one", "match"}
Ends == 0 .. SubjectLen

MatchInit ==
    /\ fn \in Functions
    /\ matches \in {m \in [Ends -> Ends \cup {NoMatch}] :
                        \A b \in Ends : m[b] = NoMatch \/ m[b] >= b}
    /\ own \in BOOLEAN
    /\ pc = "start" /\ offset = 0 /\ pieces = <<>> /\ result = "none" /\ held = {}

Return(answer, kept) == pc' = "done" /\ result' = answer /\ held' = kept

\* "*pattern == '\0'": the copy of the subject is the answer.
BlankPattern ==
    /\ pc = "start" /\ fn = "replace"
    /\ pieces' = <<<<0, SubjectLen>>>>
    /\ Return("text", {})
    /\ UNCHANGED <<fn, matches, own, offset>>

\* What is taken up to the match data, and the early returns on the way.
Prepare ==
    /\ pc = "start"
    /\ LET pool == IF fn = "replace" THEN {"tmp_p"} ELSE {}
           code == IF own THEN {"code"} ELSE {}
       IN  \/ /\ pc' = "loop" /\ result' = "none"
              /\ held' = pool \cup code \cup {"match_data"}
           \/ \* dl_create_pool fails
              fn = "replace" /\ Return("null", {})
           \/ \* dl_list_create fails
              \/ fn = "replace" /\ Return("null", pool)
              \/ fn \in {"capture_one", "capture_all"}
                 /\ Return("null", code \cup {"match_data"})
           \/ \* pcre2_compile fails
              own /\ Return(IF fn = "match" THEN "count" ELSE "null", pool)
    /\ UNCHANGED <<fn, matches, own, offset, pieces>>

\* The leftmost match from here on.
Begins == {b \in offset .. SubjectLen : matches[b] # NoMatch}
Begin == CHOOSE b \in Begins : \A c \in Begins : b <= c

\* What goes into the list: the text in front of the match, or the match.
Taken ==
    CASE fn = "replace" -> <<<<offset, Begin>>>>
      [] fn = "match" -> <<>>
      [] OTHER -> <<<<Begin, matches[Begin]>>>>

\* Mutant: the next search begins where the match began.
MatchAgain ==
    /\ pc = "loop" /\ Begins # {}
    /\ Len(pieces) < MaxPieces
    /\ pieces' = pieces \o Taken
    /\ offset' = Begin
    /\ pc' = IF fn \in {"replace", "capture_all"} THEN "loop" ELSE "last"
    /\ UNCHANGED <<fn, matches, own, result, held>>

\* rc > 0
Match ==
    /\ pc = "loop" /\ Begins # {}
    /\ Len(pieces) < MaxPieces
    /\ pieces' = pieces \o Taken
    /\ offset' = matches[Begin]
    /\ pc' = IF fn \in {"replace", "capture_all"} THEN "loop" ELSE "last"
    /\ UNCHANGED <<fn, matches, own, result, held>>

\* PCRE2_ERROR_NOMATCH: what is left is the last piece of a replacement.
Unmatched ==
    /\ pc = "loop" /\ Begins = {}
    /\ pieces' = IF fn = "replace" THEN Append(pieces, <<offset, SubjectLen>>) ELSE pieces
    /\ pc' = "last"
    /\ UNCHANGED <<fn, matches, own, offset, result, held>>

\* rc < 0: a replacement is given up; a capture is logged and goes on.
MatchError ==
    /\ pc = "loop"
    /\ IF fn = "replace" THEN Return("null", {})
       ELSE pc' = "last" /\ UNCHANGED <<result, held>>
    /\ UNCHANGED <<fn, matches, own, offset, pieces>>

\* The pieces are joined; match data, compiled code and temporary pool are freed.
Leave ==
    /\ pc = "last"
    /\ Return(CASE fn = "replace" -> "text" [] fn = "match" -> "count" [] OTHER -> "list", {})
    /\ UNCHANGED <<fn, matches, own, offset, pieces>>

\* A call goes on by itself, but a search need not fail.
MatchProgress == BlankPattern \/ Prepare \/ Match \/ Unmatched \/ Leave

MatchNext == MatchProgress \/ MatchError

MatchSpec == MatchInit /\ [][MatchNext]_matchVars

-------------------------------------------------------------------------------
\* The pieces of a replacement and the matches between them are the subject.
PiecesTile ==
    fn = "replace" /\ result = "text" =>
        /\ pieces # <<>>
        /\ pieces[1][1] = 0 /\ pieces[Len(pieces)][2] = SubjectLen
        /\ \A i \in 1 .. Len(pieces) - 1 : matches[pieces[i][2]] = pieces[i + 1][1]
        /\ \A i \in DOMAIN pieces : pieces[i][1] <= pieces[i][2]

\* A call that came to match frees its match data, its code and its temporary pool.
GivenBack == pc = "done" /\ result # "null" => held = {}

NoEmptyMatch == \A b \in Ends : matches[b] # b
================================================================================
