--------------------------------- MODULE Codec ---------------------------------
(***************************************************************************)
(* The codecs of dl_string.c and crypt/: a text is a sequence of bytes     *)
(* (0 .. 255), and an operator gives the bytes a function writes.  Refused *)
(* is an answer of DL_ERROR or NULL; Wild is one made of memory that is    *)
(* not the argument's, which may be anything.                              *)
(***************************************************************************)
EXTENDS Integers, Sequences, SequencesExt, TLC

CONSTANTS Block,    \* AES_BLOCK_SIZE: 16 in the code
          IntMax,   \* INT32_MAX
          Word      \* UINTPTR_MAX + 1

Error == -1
Incomplete == -2
Refused == <<Error>>
Wild == <<-3>>

\* The pieces of s of n bytes each, the last one perhaps shorter.
Groups(s, n) ==
    [i \in 1 .. (Len(s) + n - 1) \div n |->
        SubSeq(s, n * (i - 1) + 1, IF n * i < Len(s) THEN n * i ELSE Len(s))]

\* dl_hton on a little-endian machine, and dl_memcpy_rev, from the last byte on.
dl_hton(s) == [i \in DOMAIN s |-> s[Len(s) - i + 1]]
dl_memcpy_rev(s) == Reverse(s)

-------------------------------------------------------------------------------
(* base64                                                                    *)

Equals == 61
Bad == 77

\* basis64 of the encoders
Basis(x, url) ==
    CASE x < 26 -> 65 + x
      [] x \in 26 .. 51 -> 71 + x
      [] x \in 52 .. 61 -> x - 4
      [] x = 62 -> IF url THEN 45 ELSE 43
      [] x = 63 -> IF url THEN 95 ELSE 47

\* basis64 of the decoders
Value64(c, url) ==
    CASE c \in 65 .. 90 -> c - 65
      [] c \in 97 .. 122 -> c - 71
      [] c \in 48 .. 57 -> c + 4
      [] c = (IF url THEN 45 ELSE 43) -> 62
      [] c = (IF url THEN 95 ELSE 47) -> 63
      [] OTHER -> Bad

\* Three bytes as four numbers below 64.
Quad(a, b, c) ==
    <<a \div 4, (a % 4) * 16 + b \div 16, (b % 16) * 4 + c \div 64, c % 64>>

\* One turn of the loop, or what follows it: one or two bytes are left.
EncodeGroup(g, pad) ==
    LET q == Quad(g[1], IF Len(g) > 1 THEN g[2] ELSE 0, IF Len(g) > 2 THEN g[3] ELSE 0)
    IN  [sextets |-> SubSeq(q, 1, Len(g) + 1),
         tail |-> IF pad THEN [i \in 1 .. 3 - Len(g) |-> Equals] ELSE <<>>]

dl_encode_base64_internal(s, url, pad) ==
    FlattenSeq([i \in DOMAIN Groups(s, 3) |->
        LET e == EncodeGroup(Groups(s, 3)[i], pad)
        IN  [j \in DOMAIN e.sextets |-> Basis(e.sextets[j], url)] \o e.tail])

\* Four numbers as three bytes; the last group may have two or three numbers.
DecodeGroup(v) ==
    LET at(i) == IF i <= Len(v) THEN v[i] ELSE 0
    IN  SubSeq(<<at(1) * 4 + at(2) \div 16,
                 ((at(2) * 16) % 256) + at(3) \div 4,
                 ((at(3) * 64) % 256) + at(4)>>, 1, Len(v) - 1)

\* Bytes from 128 are negative chars, and the check for illegal ones reads
\* before the table with them; "luck" says that a 77 is found there.
dl_decode_base64_internal(w, url, luck) ==
    LET body == IF \E i \in DOMAIN w : w[i] = Equals
                THEN SubSeq(w, 1, SelectInSeq(w, LAMBDA c : c = Equals) - 1) ELSE w
        values == [i \in DOMAIN body |-> Value64(body[i], url)]
        illegal(i) == IF body[i] > 127 THEN luck ELSE values[i] = Bad
    IN  IF (\E i \in DOMAIN body : illegal(i)) \/ Len(body) % 4 = 1 THEN Refused
        ELSE IF \E i \in DOMAIN body : body[i] > 127 THEN Wild
        ELSE FlattenSeq([i \in DOMAIN Groups(values, 4) |->
                             DecodeGroup(Groups(values, 4)[i])])

\* base64_len
base64_len(n) == ((((n * 4) \div 3) + 3) \div 4) * 4

-------------------------------------------------------------------------------
(* Hexadecimal digits                                                        *)

\* dl_c2hex
dl_c2hex(d) == IF d <= 9 THEN d + 48 ELSE d - 10 + 97
HexUpper(d) == IF d <= 9 THEN d + 48 ELSE d - 10 + 65
IsDigit(c) == c \in 48 .. 57
IsHex(c) == IsDigit(c) \/ c \in 65 .. 70 \/ c \in 97 .. 102

HexValue(c) ==
    CASE IsDigit(c) -> c - 48
      [] c \in 65 .. 70 -> c - 55
      [] c \in 97 .. 102 -> c - 87

\* Mutant: the upper half of the byte is not masked off.
Bc2hexUnmasked(s, prefix) ==
    FlattenSeq([i \in DOMAIN s |->
        prefix \o <<dl_c2hex(s[i] \div 16), dl_c2hex(s[i])>>])

dl_bc2hex(s, prefix) ==
    FlattenSeq([i \in DOMAIN s |->
        prefix \o <<dl_c2hex(s[i] \div 16), dl_c2hex(s[i] % 16)>>])

\* sprintf(dst, "%02x", ...) for each byte of a digest, or memcpy; and by how
\* much the returned pointer is behind dst.
Digest(d, bin) ==
    IF bin THEN [text |-> d, moved |-> 0]
    ELSE [text |-> dl_bc2hex(d, <<>>), moved |-> 2 * Len(d)]

\* The value of the digits, or Error once more digits would not fit.
dl_hextoi(w) ==
    LET step(v, c) == IF v = Error \/ v > (Word - 1) \div 16 \/ ~IsHex(c) THEN Error
                      ELSE v * 16 + HexValue(c)
        v == FoldLeft(step, 0, w)
    IN  IF w = <<>> \/ v = Word - 1 THEN Error ELSE v

\* The length counts down by 2 + step and is unsigned: when it is no multiple,
\* the loop goes on behind the text until a character is no digit.
dl_hex2bc(w, step) ==
    LET at(i) == SubSeq(w, (i - 1) * (2 + step) + step + 1, i * (2 + step))
        pairs == 1 .. Len(w) \div (2 + step)
    IN  IF Len(w) = 0 \/ Len(w) % 2 # 0 THEN Refused
        ELSE IF \E i \in pairs : ~IsHex(at(i)[1]) \/ ~IsHex(at(i)[2]) THEN Refused
        ELSE IF Len(w) % (2 + step) # 0 THEN Wild
        ELSE [i \in pairs |-> HexValue(at(i)[1]) * 16 + HexValue(at(i)[2])]

\* "check whether exceed the maximum value of int"
Exceeds(v, digit) ==
    LET cutoff == IntMax \div 10
    IN  v >= cutoff /\ (v > cutoff \/ digit > IntMax % 10)

dl_atoi(w) ==
    LET step(v, c) == IF v = Error \/ ~IsDigit(c) \/ Exceeds(v, c - 48) THEN Error
                      ELSE v * 10 + (c - 48)
    IN  IF w = <<>> THEN Error ELSE FoldLeft(step, 0, w)

-------------------------------------------------------------------------------
(* Escapes                                                                   *)

Percent == 37
Question == 63
EscapeTypes == {"uri", "args", "uri_component", "html", "refresh"}

\* The bit tables: the bytes that are escaped.
Escaped(type) ==
    0 .. 31 \cup 127 .. 255 \cup
    CASE type = "uri" -> {32, 35, 37, 63}
      [] type = "args" -> {32, 35, 37, 38, 43, 59, 63}
      [] type = "uri_component" ->
            (32 .. 47 \ {45, 46}) \cup 58 .. 64 \cup 91 .. 94 \cup {96, 123, 124, 125}
      [] type = "html" -> {32, 34, 35, 37, 39}
      [] type = "refresh" -> {32, 34, 39}

dl_escape_uri(s, type) ==
    FlattenSeq([i \in DOMAIN s |->
        IF s[i] \in Escaped(type)
        THEN <<Percent, HexUpper(s[i] \div 16), HexUpper(s[i] % 16)>> ELSE <<s[i]>>])

\* Mutant: the characters are signed, and those from 128 are not counted.
EscapeCountSigned(s, type) ==
    Len(SelectSeq(s, LAMBDA c : c < 128 /\ c \in Escaped(type)))

\* What dl_escape_uri answers without a destination.
EscapeCount(s, type) == Len(SelectSeq(s, LAMBDA c : c \in Escaped(type)))

\* dl_unescape_uri is a machine of three states: "usual", "quoted" behind '%'
\* and "second" behind the first digit, which is hi.  type is the set of the
\* flags; "stop" is the jump to done.
Write(m, bytes) == [m EXCEPT !.state = "usual", !.out = @ \o bytes]

Usual(m, type, ch) ==
    IF ch = Question /\ type # {} THEN [Write(m, <<ch>>) EXCEPT !.stop = TRUE]
    ELSE IF ch = Percent THEN [m EXCEPT !.state = "quoted"]
    ELSE Write(m, <<ch>>)

Quoted(m, ch) ==
    IF IsHex(ch) THEN [m EXCEPT !.state = "second", !.hi = ch] ELSE Write(m, <<ch>>)

\* Mutant: an escaped percent sign is decoded too.
KeptFrom(c) == ~(c >= Percent /\ c < 127)

\* "DL_UNESCAPE_REDIRECT only unescape char (38-126)"
Kept(c) == ~(c > Percent /\ c < 127)

\* A digit and a letter have branches of their own.
Second(m, type, ch) ==
    LET c == 16 * HexValue(m.hi) + HexValue(ch)
        raw == <<Percent, m.hi, ch>>
    IN  CASE ~IsHex(ch) -> Write(m, <<>>)
          [] IsDigit(ch) ->
                Write(m, IF "redirect" \in type /\ Kept(c) THEN raw ELSE <<c>>)
          [] OTHER ->
                IF type # {} /\ c = Question THEN [Write(m, <<c>>) EXCEPT !.stop = TRUE]
                ELSE Write(m, IF type = {"redirect"} /\ Kept(c) THEN raw ELSE <<c>>)

dl_unescape_uri(w, type) ==
    LET step(m, ch) ==
            IF m.stop THEN m
            ELSE LET n == [m EXCEPT !.read = @ + 1]
                 IN  CASE m.state = "usual" -> Usual(n, type, ch)
                       [] m.state = "quoted" -> Quoted(n, ch)
                       [] m.state = "second" -> Second(n, type, ch)
    IN  FoldLeft(step, [state |-> "usual", hi |-> 0, out |-> <<>>, read |-> 0,
                        stop |-> FALSE], w)

\* '<', '>', '&' and '"', and the bytes written for them.
Entities == 60 :> <<38, 108, 116, 59>> @@ 62 :> <<38, 103, 116, 59>>
            @@ 38 :> <<38, 97, 109, 112, 59>> @@ 34 :> <<38, 113, 117, 111, 116, 59>>

dl_escape_html(s) ==
    FlattenSeq([i \in DOMAIN s |->
        IF s[i] \in DOMAIN Entities THEN Entities[s[i]] ELSE <<s[i]>>])

\* The sizes that are added without a destination: sizeof("&lt;") - 2, ...
HtmlExtra(s) ==
    FoldLeft(LAMBDA n, c : n + (CASE c \in {60, 62} -> 3 [] c = 38 -> 4
                                  [] c = 34 -> 5 [] OTHER -> 0), 0, s)

\* \n, \r, \t, \b and \f, and the letters written for them.
Letters == 10 :> 110 @@ 13 :> 114 @@ 9 :> 116 @@ 8 :> 98 @@ 12 :> 102

dl_escape_json(s) ==
    FlattenSeq([i \in DOMAIN s |->
        LET c == s[i]
        IN  CASE c \in {92, 34} -> <<92, c>>
              [] c > 31 /\ c \notin {92, 34} -> <<c>>
              [] c \in DOMAIN Letters -> <<92, Letters[c]>>
              [] OTHER -> <<92, 117, 48, 48, 48 + c \div 16, HexUpper(c % 16)>>])

JsonExtra(s) ==
    FoldLeft(LAMBDA n, c : n + (CASE c \in {92, 34} \cup DOMAIN Letters -> 1
                                  [] c <= 31 /\ c \notin DOMAIN Letters -> 5
                                  [] OTHER -> 0), 0, s)

-------------------------------------------------------------------------------
(* UTF-8                                                                     *)

\* dl_utf8_decode at byte i of the memory, told that n bytes are there: the
\* code point, and the byte that is read next.
dl_utf8_decode(memory, i, n) ==
    LET first == memory[i]
        len == CASE first >= 240 -> 3 [] first \in 224 .. 239 -> 2
                 [] first \in 194 .. 223 -> 1 [] OTHER -> 0
        lead == CASE len = 3 -> first % 8 [] len = 2 -> first % 16 [] OTHER -> first % 32
        valid == CASE len = 3 -> 65535 [] len = 2 -> 2047 [] OTHER -> 127
        rest == SubSeq(memory, i + 1, i + len)
        wrong == SelectInSeq(rest, LAMBDA c : c < 128)
        point == FoldLeft(LAMBDA u, c : u * 64 + (c % 64), lead, rest)
    IN  CASE len = 0 -> [point |-> Error, next |-> i + 1]
          [] len > 0 /\ n - 1 < len -> [point |-> Incomplete, next |-> i]
          [] len > 0 /\ n - 1 >= len /\ wrong > 0 -> [point |-> Error, next |-> i + 1 + wrong]
          [] OTHER -> [point |-> IF point > valid THEN point ELSE Error, next |-> i + 1 + len]

\* The characters of the text s; "after" is what lies behind it, where a cut
\* sequence is read on.  An invalid text has as many as bytes.
dl_utf8_length(s, after) ==
    LET count[i \in 1 .. Len(s) + 4] ==
            IF i > Len(s) THEN 0
            ELSE IF s[i] < 128 THEN 1 + count[i + 1]
            ELSE LET d == dl_utf8_decode(s \o after, i, Len(s))
                 IN  IF d.point \in {Error, Incomplete} \/ d.point > 1114111 THEN Len(s)
                     ELSE 1 + count[d.next]
    IN  IF count[1] > Len(s) THEN Len(s) ELSE count[1]

-------------------------------------------------------------------------------
(* Digests need a library and so does the cipher; here is what the code does *)
(* around it.                                                                *)

\* The key block: cut off at the block size, or filled with zeros.
KeyBlock(key) ==
    [i \in 1 .. Block |-> IF i <= Len(key) THEN key[i] ELSE 0]

Padded(s) ==
    LET r == Len(s) % Block
        pad == IF r = 0 THEN Block ELSE Block - r
    IN  s \o [i \in 1 .. pad |-> pad]

\* The cipher: only the key that made a text recovers it.
Cipher(key, s) == [key |-> key, text |-> s]

dl_aes_encrypt(s, key) == Cipher(KeyBlock(key), Padded(s))

dl_aes_decrypt(c, key) ==
    IF KeyBlock(key) # c.key THEN Wild
    ELSE SubSeq(c.text, 1, Len(c.text) - Last(c.text))
================================================================================
