--------------------------------- MODULE Text ---------------------------------
(***************************************************************************)
(* A program that uses the string functions.  It has one of four jobs: to  *)
(* send a text through a codec and back, to cut a text into pieces, to     *)
(* print with a format, or to search with a regular expression.            *)
(***************************************************************************)
EXTENDS Codec, Search, Printf, MatchLoop

CONSTANTS CodecTexts,  \* what goes through the codecs
          RawTexts,    \* what is unescaped without having been escaped
          CodePoints,  \* characters of the UTF-8 texts
          Numbers,     \* numbers that are printed and read back
          SplitTexts, Separators, Replacements, Keys

VARIABLES job,    \* "codec", "split", "print" or "match"
          call,   \* the function and its arguments but for the text
          plain,  \* the text
          stage,  \* "plain", "wire", "back", "again" or "answered"
          wire,   \* the encoded text
          back    \* the decoded text, or the answer

textVars == <<call, plain, stage, wire, back>>
vars == <<job, textVars, printVars, matchVars>>

Codecs ==
    [of : {"base64"}, url : {FALSE}, pad : BOOLEAN]
    \cup [of : {"base64"}, url : {TRUE}, pad : {FALSE}]
    \cup [of : {"hex"}, prefix : {<<>>, <<37>>, <<92, 120>>}]
    \cup [of : {"uri"}, escape : EscapeTypes, unescape : SUBSET {"uri", "redirect"}]
    \cup [of : {"aes"}, key : Keys, with : Keys]
    \cup [of : {"digest", "reverse", "html", "json"}]

\* The other calls of the codec job: their texts are not bytes, or are raw.
Others ==
    [of : {"utf8"}, after : {<<0, 0, 0, 0>>, <<128, 128, 128, 128>>}]
    \cup [of : {"decimal", "hexadecimal"}]
    \cup [of : {"raw"}, unescape : SUBSET {"uri", "redirect"}]

Subjects(c) ==
    CASE c.of = "utf8" -> BoundedSeq(CodePoints, 3)
      [] c.of \in {"decimal", "hexadecimal"} -> {<<v>> : v \in Numbers}
      [] c.of = "raw" -> RawTexts
      [] OTHER -> CodecTexts

\* UTF-8 as the table in dl_string.c has it; the library has no encoder.
Utf8(p) ==
    CASE p < 128 -> <<p>>
      [] p \in 128 .. 2047 -> <<192 + p \div 64, 128 + (p % 64)>>
      [] p \in 2048 .. 65535 ->
            <<224 + p \div 4096, 128 + ((p \div 64) % 64), 128 + (p % 64)>>
      [] OTHER -> <<240 + p \div 262144, 128 + ((p \div 4096) % 64),
                    128 + ((p \div 64) % 64), 128 + (p % 64)>>

Encoded(c, s) ==
    CASE c.of = "base64" -> dl_encode_base64_internal(s, c.url, c.pad)
      [] c.of = "hex" -> dl_bc2hex(s, c.prefix)
      [] c.of = "uri" -> dl_escape_uri(s, c.escape)
      [] c.of = "aes" -> dl_aes_encrypt(s, c.key)
      [] c.of = "digest" -> Digest(s, FALSE).text
      [] c.of = "reverse" -> dl_hton(s)
      [] c.of = "html" -> dl_escape_html(s)
      [] c.of = "json" -> dl_escape_json(s)
      [] c.of = "utf8" -> FlattenSeq([i \in DOMAIN s |-> Utf8(s[i])])
      [] c.of = "decimal" -> dl_sprintf_num(s[1], 10, 0, 48, 0, BufferSize)
      [] c.of = "hexadecimal" -> dl_sprintf_num(s[1], 16, 97, 48, 0, BufferSize)
      [] c.of = "raw" -> s

Decoded(c, w) ==
    CASE c.of = "base64" -> dl_decode_base64_internal(w, c.url, FALSE)
      [] c.of = "hex" -> dl_hex2bc(w, Len(c.prefix))
      [] c.of \in {"uri", "raw"} -> dl_unescape_uri(w, c.unescape).out
      [] c.of = "aes" -> dl_aes_decrypt(w, c.with)
      [] c.of = "digest" -> dl_hex2bc(w, 0)
      [] c.of = "reverse" -> dl_memcpy_rev(w)
      [] c.of = "utf8" -> <<dl_utf8_length(w, c.after)>>
      [] c.of = "decimal" -> <<dl_atoi(w)>>
      [] c.of = "hexadecimal" -> <<dl_hextoi(w)>>
      [] OTHER -> w

-------------------------------------------------------------------------------
\* The jobs that are not done stand still in some initial state.
PrintIdle ==
    /\ caller = "sprintf" /\ format = <<>>
    /\ buf = <<>> /\ printed = <<>> /\ end = "yes"

MatchIdle ==
    /\ fn = "match" /\ matches = [b \in Ends |-> NoMatch] /\ own = FALSE
    /\ pc = "done" /\ offset = 0 /\ pieces = <<>> /\ result = "count" /\ held = {}

TextIdle == call = [of |-> "none"] /\ plain = <<>>

SplitCalls ==
    [of : {"split_by_s"}, sep : Separators, room : 0 .. 4]
    \cup [of : {"split_by_c"}, sep : {s \in Separators : Len(s) = 1}, room : 0 .. 4]
    \cup [of : {"replace"}, sep : Separators, with : Replacements]
    \cup [of : {"substr_num"}, sep : Separators]

Init ==
    /\ stage = "plain" /\ wire = <<>> /\ back = <<>>
    /\ \/ /\ job = "codec" /\ PrintIdle /\ MatchIdle
          /\ call \in Codecs \cup Others /\ plain \in Subjects(call)
       \/ /\ job = "split" /\ PrintIdle /\ MatchIdle
          /\ call \in SplitCalls /\ plain \in SplitTexts
       \/ job = "print" /\ PrintInit /\ MatchIdle /\ TextIdle
       \/ job = "match" /\ MatchInit /\ PrintIdle /\ TextIdle

Encode ==
    /\ job = "codec" /\ stage = "plain"
    /\ wire' = Encoded(call, plain) /\ stage' = "wire"
    /\ UNCHANGED <<call, plain, back>>

Decode ==
    /\ job = "codec" /\ stage = "wire"
    /\ back' = Decoded(call, wire) /\ stage' = "back"
    /\ UNCHANGED <<call, plain, wire>>

\* What is left quoted for a redirect is decoded where it arrives.
DecodeAgain ==
    /\ stage = "back" /\ call.of = "uri" /\ "redirect" \in call.unescape
    /\ back' = dl_unescape_uri(back, {}).out /\ stage' = "again"
    /\ UNCHANGED <<call, plain, wire>>

\* The functions that search, split, count and replace.
Ask ==
    /\ job = "split" /\ stage = "plain"
    /\ back' = CASE call.of = "split_by_s" -> Split(plain, call.sep, call.room)
                 [] call.of = "split_by_c" -> dl_split_by_c(plain, call.sep[1], call.room)
                 [] call.of = "replace" -> dl_str_replace(plain, call.sep, call.with)
                 [] call.of = "substr_num" -> [number |-> dl_substr_num(plain, call.sep)]
    /\ stage' = "answered"
    /\ UNCHANGED <<call, plain, wire>>

MatchStep == job = "match" /\ MatchNext /\ UNCHANGED <<job, textVars, printVars>>

Next ==
    \/ /\ Encode \/ Decode \/ DecodeAgain \/ Ask
       /\ UNCHANGED <<job, printVars, matchVars>>
    \/ job = "print" /\ PrintNext /\ UNCHANGED <<job, textVars, matchVars>>
    \/ MatchStep

\* The thread that searches goes on; it is not helped by an error.
Spec == Init /\ [][Next]_vars
        /\ WF_vars(job = "match" /\ MatchProgress /\ UNCHANGED <<job, textVars, printVars>>)

-------------------------------------------------------------------------------
(* Properties, with NeverPast and PrintedIsPrefix of Printf.                 *)

\* What the codecs write are bytes, and a search stays within its subject.
TypeOK ==
    /\ stage \in {"plain", "wire", "back", "again", "answered"}
    /\ job = "codec" /\ call.of # "aes" => \A i \in DOMAIN wire : wire[i] \in 0 .. 255
    /\ pc \in {"start", "loop", "last", "done"} /\ offset \in Ends
    /\ held \subseteq {"tmp_p", "code", "match_data"}
    /\ \A i \in DOMAIN buf : buf[i] \in 0 .. 255

UpToQuestion(s) ==
    IF \E i \in DOMAIN s : s[i] = Question
    THEN SubSeq(s, 1, SelectInSeq(s, LAMBDA c : c = Question)) ELSE s

\* What the decoder is expected to answer.  Hexadecimal text must not be empty
\* or of odd length, which a prefix of one character makes of an odd number of
\* bytes; the largest word looks like DL_ERROR.
Expected(c, s) ==
    CASE c.of \in {"hex", "digest"} ->
            IF s = <<>> \/ Len(wire) % 2 = 1 THEN Refused ELSE s
      [] c.of = "uri" -> IF c.unescape = {} THEN s ELSE UpToQuestion(s)
      [] c.of = "aes" -> IF KeyBlock(c.key) = KeyBlock(c.with) THEN s ELSE Wild
      [] c.of = "utf8" -> <<Len(s)>>
      [] c.of = "decimal" -> IF s[1] <= IntMax THEN s ELSE Refused
      [] c.of = "hexadecimal" -> IF s[1] < Word - 1 THEN s ELSE Refused
      [] OTHER -> s

\* dl_escape_uri leaves the percent sign to the text with DL_ESCAPE_REFRESH.
Ambiguous(c, s) ==
    c.of = "uri" /\ c.escape = "refresh" /\ \E i \in DOMAIN s : s[i] = Percent

\* Encoding and decoding gives the text back: dl_encode_base64 and
\* dl_decode_base64, dl_bc2hex and the digests against dl_hex2bc, dl_escape_uri
\* against dl_unescape_uri at once and in two stages over a redirect,
\* dl_aes_encrypt and dl_aes_decrypt, numbers printed and read with dl_atoi and
\* dl_hextoi; and dl_utf8_length counts characters whatever lies behind them.
RoundTrips ==
    job = "codec" /\ call.of \notin {"html", "json", "raw"} /\ ~Ambiguous(call, plain) =>
        /\ stage = "back" /\ ~(call.of = "uri" /\ "redirect" \in call.unescape)
              => back = Expected(call, plain)
        /\ stage = "again" => back = Expected(call, plain)

\* What the calls without a destination and the macros say is exactly the room
\* that is needed, and unescaping never overtakes what it reads, so that it
\* works in place.
SizesExact ==
    /\ job = "codec" /\ stage = "wire" =>
        CASE call.of = "base64" ->
                IF call.pad THEN Len(wire) = base64_len(Len(plain))
                ELSE Len(wire) <= base64_len(Len(plain))
          [] call.of = "hex" -> Len(wire) = (2 + Len(call.prefix)) * Len(plain)
          [] call.of = "digest" -> Len(wire) = Digest(plain, FALSE).moved
          [] call.of = "uri" -> Len(wire) = Len(plain) + 2 * EscapeCount(plain, call.escape)
          [] call.of = "html" -> Len(wire) = Len(plain) + HtmlExtra(plain)
          [] call.of = "json" -> Len(wire) = Len(plain) + JsonExtra(plain)
          [] call.of = "raw" ->
                \A n \in 0 .. Len(wire) :
                    LET m == dl_unescape_uri(SubSeq(wire, 1, n), call.unescape)
                    IN  Len(m.out) <= m.read /\ m.read <= n
          [] OTHER -> TRUE
    /\ stage = "answered" /\ call.of = "replace" => Len(back.text) = back.total

\* A separator stands in the text up to the first Nul.
Occurs(s, sep) ==
    sep # <<>> /\ \E i \in 1 .. Len(s) - Len(sep) + 1 :
        SubSeq(s, i, i + Len(sep) - 1) = sep /\ \A j \in 1 .. i : s[j] # Nul

\* Pieces with the separator between them are the text, and the separator is
\* first met at the end of a piece.
RightPieces(s, sep, parts) ==
    /\ JoinedBy(parts, sep) = s
    /\ \A i \in 1 .. Len(parts) - 1 : ~Occurs(SubSeq(parts[i] \o sep, 1, Len(parts[i] \o sep) - 1), sep)
    /\ ~Occurs(parts[Len(parts)], sep)

\* The split functions cut at the leftmost separators and lose nothing, counting
\* and replacing agree with splitting; a replacement by pattern puts the new text
\* exactly where the matches were, and a call that came to match gives its match
\* data, its code and its temporary pool back.
PiecesRight ==
    /\ stage = "answered" =>
        CASE call.of \in {"split_by_s", "split_by_c"} ->
                back.end = "done" => RightPieces(plain, call.sep, back.pieces)
          [] call.of = "substr_num" -> back.number = Len(Pieces(plain, call.sep)) - 1
          [] call.of = "replace" ->
                back.text = JoinedBy(Split(plain, call.sep, Len(plain) + 1).pieces, call.with)
    /\ PiecesTile
    /\ GivenBack

\* Replacing and capturing ends when the pattern does not match the empty text.
MatchLoopEnds ==
    (job = "match" /\ pc = "start" /\ NoEmptyMatch) ~> (pc = "done")
================================================================================
