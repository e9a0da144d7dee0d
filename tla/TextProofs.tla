-------------------------------- MODULE TextProofs --------------------------------
(***************************************************************************)
(* Two parts of the library that are loops around a text.  dl_vslprintf    *)
(* never writes behind the buffer it was given, and what it writes is what *)
(* fits of the text that dl_sprintf would write, for every buffer size,    *)
(* format and argument.  The code looks at the room once per turn ("we     *)
(* could copy at least one character"); the argument is that every         *)
(* directive has one text to write and writes of it what there is room     *)
(* for.  And dl_str_replace_re accounts for its whole subject.             *)
(***************************************************************************)
EXTENDS Printf, MatchLoop, Induction, FiniteSetTheorems, TLAPS

\* What is written are sequences; of which characters is of no interest here.
IsSeq(s) == \E S : s \in Seq(S)

-------------------------------------------------------------------------------
(* Lengths.                                                                  *)

\* A concatenation is as long as both parts.
LEMMA ConcatLength ==
    ASSUME NEW s, NEW t, IsSeq(s), IsSeq(t)
    PROVE  IsSeq(s \o t) /\ Len(s \o t) = Len(s) + Len(t)
<1>1. PICK S : s \in Seq(S)
  BY DEF IsSeq
<1>2. PICK T : t \in Seq(T)
  BY DEF IsSeq
<1>3. s \in Seq(S \cup T) /\ t \in Seq(S \cup T)
  BY <1>1, <1>2
<1> QED
  BY <1>3 DEF IsSeq

\* The length of a sequence is a natural number.
LEMMA LengthNat ==
    ASSUME NEW s, IsSeq(s)
    PROVE  Len(s) \in Nat
  BY DEF IsSeq

\* A table of n entries is a sequence of length n.
LEMMA TableIsSeq ==
    ASSUME NEW n \in Nat, NEW S, NEW f \in [1 .. n -> S]
    PROVE  IsSeq(f) /\ Len(f) = n
<1>1. f \in Seq(S)
  OBVIOUS
<1> QED
  BY <1>1 DEF IsSeq

\* dl_min in the copying of strings and numbers keeps within the room.
LEMMA CutFits ==
    ASSUME NEW s, IsSeq(s), NEW room \in Nat
    PROVE  IsSeq(Cut(s, room)) /\ Len(Cut(s, room)) \in Nat /\ Len(Cut(s, room)) <= room
<1> DEFINE m == Least(Len(s), room)
<1>1. PICK S : s \in Seq(S)
  BY DEF IsSeq
<1>2. m \in Nat /\ m <= room /\ m <= Len(s)
  BY <1>1 DEF Least
<1> HIDE DEF m
<1>3. SubSeq(s, 1, m) \in Seq(S) /\ Len(SubSeq(s, 1, m)) = m
  BY <1>1, <1>2
<1>4. Cut(s, room) = SubSeq(s, 1, m)
  BY DEF Cut, m
<1> QED
  BY <1>2, <1>3, <1>4 DEF IsSeq

-------------------------------------------------------------------------------
(* The conversions.                                                          *)

\* A number has a natural number of digits.
LEMMA DigitsSeq ==
    ASSUME NEW v, NEW base, NEW letter
    PROVE  IsSeq(Digits(v, base, letter))
<1> DEFINE K == {k \in 1 .. MaxDigits - 1 : v >= base ^ k}
           n == 1 + Cardinality(K)
           digit(i) == (v \div base ^ (n - i)) % base
           e(i) == digit(i) + IF digit(i) < 10 THEN 48 ELSE letter - 10
           S == {e(i) : i \in 1 .. n}
<1>1. MaxDigits \in Nat \ {0}
  BY PrintfAssumption
<1>2. IsFiniteSet(1 .. MaxDigits - 1)
  BY <1>1, FS_Interval
<1>3. Cardinality(K) \in Nat
  <2>1. K \subseteq 1 .. MaxDigits - 1
    OBVIOUS
  <2>2. IsFiniteSet(K)
    BY <1>2, <2>1, FS_Subset
  <2> QED
    BY <2>2, FS_CardinalityType
<1>4. n \in Nat
  BY <1>3
<1>5. Digits(v, base, letter) = [i \in 1 .. n |-> e(i)]
  BY DEF Digits
<1> HIDE DEF n, e
<1>6. [i \in 1 .. n |-> e(i)] \in [1 .. n -> S]
  OBVIOUS
<1> HIDE DEF S
<1> QED
  BY <1>4, <1>5, <1>6, TableIsSeq

\* Padding and digits together keep within the room: dl_sprintf_num.
LEMMA NumFits ==
    ASSUME NEW v, NEW base, NEW letter, NEW zero, NEW width \in Nat, NEW room \in Nat
    PROVE  LET w == dl_sprintf_num(v, base, letter, zero, width, room)
           IN  IsSeq(w) /\ Len(w) \in Nat /\ Len(w) <= room
<1> DEFINE digits == Digits(v, base, letter)
           short == IF width > Len(digits) THEN width - Len(digits) ELSE 0
           pad == Least(short, room)
           zeros == [i \in 1 .. pad |-> zero]
           rest == Cut(digits, room - pad)
<1>1. IsSeq(digits) /\ Len(digits) \in Nat
  BY DigitsSeq, LengthNat
<1>2. pad \in Nat /\ pad <= room
  <2> HIDE DEF digits
  <2> QED
    BY <1>1 DEF Least
<1>3. dl_sprintf_num(v, base, letter, zero, width, room) = zeros \o rest
  BY DEF dl_sprintf_num
<1> HIDE DEF pad, digits
<1>4. zeros \in [1 .. pad -> {zero}]
  OBVIOUS
<1> HIDE DEF zeros
<1>5. IsSeq(zeros) /\ Len(zeros) = pad
  BY <1>2, <1>4, TableIsSeq
<1>6. room - pad \in Nat
  BY <1>2
<1>7. IsSeq(rest) /\ Len(rest) \in Nat /\ Len(rest) <= room - pad
  BY <1>1, <1>6, CutFits
<1> HIDE DEF rest
<1>8. IsSeq(zeros \o rest) /\ Len(zeros \o rest) = pad + Len(rest)
  BY <1>5, <1>7, ConcatLength
<1> QED
  BY <1>2, <1>3, <1>7, <1>8
\* One character, a minus or a dot.
LEMMA OneCharacter ==
    ASSUME NEW c
    PROVE  IsSeq(<<c>>) /\ Len(<<c>>) = 1
<1>1. <<c>> \in Seq({c})
  OBVIOUS
<1> QED
  BY <1>1 DEF IsSeq

\* "minus without the checking" has the character that is always there.
LEMMA NumberFits ==
    ASSUME NEW d, d.width \in Nat, NEW room \in Nat \ {0}
    PROVE  IsSeq(Number(d, room)) /\ Len(Number(d, room)) <= room
<1>1. CASE d.sign /\ d.v < 0
  <2> DEFINE w == dl_sprintf_num(-d.v, d.base, d.letter, d.zero, d.width, room - 1)
  <2>1. room - 1 \in Nat
    OBVIOUS
  <2>2. IsSeq(w) /\ Len(w) \in Nat /\ Len(w) <= room - 1
    BY <2>1, NumFits
  <2>3. Number(d, room) = <<Minus>> \o w
    BY <1>1 DEF Number
  <2> HIDE DEF w
  <2>4. IsSeq(<<Minus>> \o w) /\ Len(<<Minus>> \o w) = 1 + Len(w)
    BY <2>2, OneCharacter, ConcatLength
  <2> QED
    BY <2>2, <2>3, <2>4
<1>2. CASE ~(d.sign /\ d.v < 0)
  <2> DEFINE v == IF d.sign THEN d.v ELSE d.v % UintMod
             w == dl_sprintf_num(v, d.base, d.letter, d.zero, d.width, room)
  <2>1. IsSeq(w) /\ Len(w) <= room
    BY NumFits
  <2>2. Number(d, room) = w
    BY <1>2 DEF Number
  <2> QED
    BY <2>1, <2>2
<1> QED
  BY <1>1, <1>2

\* Sign, padded number, dot and fraction share the room.
LEMMA FloatFits ==
    ASSUME NEW d, d.width \in Nat, d.frac \in Nat, NEW room \in Nat \ {0}
    PROVE  IsSeq(Float(d, room)) /\ Len(Float(d, room)) <= room
<1> DEFINE v == IF d.v < 0 THEN -d.v ELSE d.v
           scale == 10 ^ d.frac
           rounded == ((v % 100) * scale + 50) \div 100
           carry == IF d.frac > 0 /\ rounded = scale THEN 1 ELSE 0
           minus == IF d.v < 0 THEN <<Minus>> ELSE <<>>
           number == dl_sprintf_num(v \div 100 + carry, 10, 0, d.zero, d.width,
                                    room - Len(minus))
           whole == minus \o number
           point == Cut(<<Dot>>, room - Len(whole))
           dot == whole \o point
           fraction == dl_sprintf_num(IF carry = 1 THEN 0 ELSE rounded, 10, 0, 48,
                                      d.frac, room - Len(dot))
<1>1. Float(d, room) = IF d.frac = 0 THEN whole ELSE dot \o fraction
  BY DEF Float
<1>2. IsSeq(minus) /\ Len(minus) \in Nat /\ Len(minus) <= 1
  <2>1. IsSeq(<<>>) /\ Len(<<>>) = 0
    <3>1. <<>> \in Seq({})
      OBVIOUS
    <3> QED
      BY <3>1 DEF IsSeq
  <2> QED
    BY <2>1, OneCharacter
<1> HIDE DEF minus, carry, rounded
<1>3. room - Len(minus) \in Nat
  BY <1>2
<1>4. IsSeq(number) /\ Len(number) \in Nat /\ Len(number) <= room - Len(minus)
  BY <1>3, NumFits
<1> HIDE DEF number
<1>5. IsSeq(whole) /\ Len(whole) = Len(minus) + Len(number)
  BY <1>2, <1>4, ConcatLength
<1> HIDE DEF whole
<1>6. room - Len(whole) \in Nat /\ Len(whole) \in Nat
  BY <1>2, <1>4, <1>5
<1>7. IsSeq(point) /\ Len(point) \in Nat /\ Len(point) <= room - Len(whole)
  BY <1>6, CutFits, OneCharacter
<1> HIDE DEF point
<1>8. IsSeq(dot) /\ Len(dot) = Len(whole) + Len(point)
  BY <1>5, <1>7, ConcatLength
<1> HIDE DEF dot
<1>9. room - Len(dot) \in Nat /\ Len(dot) \in Nat
  BY <1>6, <1>7, <1>8
<1>10. IsSeq(fraction) /\ Len(fraction) \in Nat /\ Len(fraction) <= room - Len(dot)
  BY <1>9, NumFits
<1> HIDE DEF fraction
<1>11. IsSeq(dot \o fraction) /\ Len(dot \o fraction) = Len(dot) + Len(fraction)
  BY <1>8, <1>10, ConcatLength
<1> QED
  BY <1>1, <1>5, <1>6, <1>9, <1>10, <1>11

\* A sequence of m characters has m places.
LEMMA PlacesCount ==
    ASSUME NEW m \in Nat
    PROVE  IsFiniteSet(1 .. m) /\ Cardinality(1 .. m) = m
<1>1. /\ IsFiniteSet(1 .. m)
      /\ Cardinality(1 .. m) = IF 1 > m THEN 0 ELSE m - 1 + 1
  BY FS_Interval
<1> QED
  BY <1>1

\* %s without a length is a part of its argument.
LEMMA UpToNulSeq ==
    ASSUME NEW s \in Seq(Nat)
    PROVE  IsSeq(UpToNul(s))
<1> DEFINE before == {i \in DOMAIN s : \A j \in 1 .. i : s[j] # Zero}
           n == Cardinality(before)
<1>1. Len(s) \in Nat /\ DOMAIN s = 1 .. Len(s)
  OBVIOUS
<1>2. IsFiniteSet(1 .. Len(s)) /\ Cardinality(1 .. Len(s)) = Len(s)
  BY <1>1, PlacesCount
<1>3. before \subseteq 1 .. Len(s)
  BY <1>1
<1> HIDE DEF before
<1>4. IsFiniteSet(before) /\ n <= Len(s)
  BY <1>2, <1>3, FS_Subset
<1>5. n \in Nat
  BY <1>4, FS_CardinalityType
<1>6. UpToNul(s) = SubSeq(s, 1, n)
  BY DEF UpToNul, before
<1> HIDE DEF n
<1>7. SubSeq(s, 1, n) \in Seq(Nat)
  BY <1>1, <1>4, <1>5
<1> QED
  BY <1>6, <1>7 DEF IsSeq

\* No directive writes more than there is room for, if there is any.
LEMMA PutFits ==
    ASSUME NEW d \in Directives, NEW room \in Nat \ {0}
    PROVE  IsSeq(Put(d, room)) /\ Len(Put(d, room)) <= room
<1>1. CASE d.conv = "char"
  <2>1. Put(d, room) = <<d.c>>
    BY <1>1 DEF Put
  <2> QED
    BY <2>1, OneCharacter
<1>2. CASE d.conv = "text"
  <2>1. Put(d, room) = Cut(d.s, room)
    BY <1>2 DEF Put
  <2>2. d.s \in Seq(Nat)
    BY <1>2, DirectivesAssumption
  <2>3. IsSeq(d.s)
    BY <2>2 DEF IsSeq
  <2> QED
    BY <2>1, <2>3, CutFits
<1>3. CASE d.conv = "cstring"
  <2>1. Put(d, room) = Cut(UpToNul(d.s), room)
    BY <1>3 DEF Put
  <2>2. d.s \in Seq(Nat)
    BY <1>3, DirectivesAssumption
  <2> QED
    BY <2>1, <2>2, UpToNulSeq, CutFits
<1>4. CASE d.conv = "number"
  <2>1. Put(d, room) = Number(d, room)
    BY <1>4 DEF Put
  <2>2. d.width \in Nat
    BY <1>4, DirectivesAssumption
  <2> QED
    BY <2>1, <2>2, NumberFits
<1>5. CASE d.conv = "float"
  <2>1. Put(d, room) = Float(d, room)
    BY <1>5 DEF Put
  <2>2. d.width \in Nat /\ d.frac \in Nat
    BY <1>5, DirectivesAssumption
  <2> QED
    BY <2>1, <2>2, FloatFits
<1> QED
  BY <1>1, <1>2, <1>3, <1>4, <1>5, DirectivesAssumption
-------------------------------------------------------------------------------
(* The loop.                                                                 *)

\* Between turns the text is not longer than the bound that dl_vslprintf was
\* given, for which dl_sprintf stands apart; the end of the text has a character.
WithinBound ==
    /\ caller \in Callers
    /\ end \in {"no", "yes", "skipped"}
    /\ IsSeq(buf)
    /\ format \in Seq(Directives)
    /\ end = "no" => Len(buf) <= Capacity
    /\ end # "no" /\ caller # "sprintf" => Len(buf) <= BufferSize

\* The bound leaves room for printf's Nul and for the newline of a log line.
LEMMA CapacityType ==
    ASSUME caller \in Callers
    PROVE  /\ Capacity \in Nat
           /\ caller # "sprintf" => Capacity <= BufferSize
           /\ caller \in Logs \cup {"printf"} => Capacity + 1 <= BufferSize
           /\ caller \in Logs => HeadSize <= Capacity
<1>1. BufferSize \in Nat /\ HeadSize \in Nat /\ BufferSize > HeadSize
  BY PrintfAssumption
<1>2. CASE caller = "sprintf"
  BY <1>1, <1>2, PrintfAssumption DEF Capacity, Logs
<1>3. CASE caller = "snprintf"
  BY <1>1, <1>3 DEF Capacity, Logs
<1>4. CASE caller \in {"printf", "log", "exit_log"}
  <2>1. Capacity = BufferSize - 1
    BY <1>4 DEF Capacity
  <2> QED
    BY <1>1, <1>4, <2>1 DEF Logs
<1> QED
  BY <1>2, <1>3, <1>4 DEF Callers

\* The empty text.
LEMMA EmptySeq == IsSeq(<<>>) /\ Len(<<>>) = 0
<1>1. <<>> \in Seq({})
  OBVIOUS
<1> QED
  BY <1>1 DEF IsSeq

\* The empty text of the beginning is within the bound.
LEMMA WithinBoundInit == PrintInit => WithinBound
<1> SUFFICES ASSUME PrintInit PROVE WithinBound
  OBVIOUS
<1>1. caller \in Callers /\ end = "no" /\ buf = <<>>
  BY DEF PrintInit
<1>2. format \in Seq(Directives)
  <2>1. PICK n \in 0 .. MaxFormat : format \in [1 .. n -> Directives]
    BY DEF PrintInit
  <2>2. n \in Nat
    BY <2>1, PrintfAssumption
  <2> QED
    BY <2>1, <2>2
<1> QED
  BY <1>1, <1>2, EmptySeq, CapacityType DEF WithinBound

\* What a step does to the length is said of unprimed names: t is the text
\* after it.
LEMMA WithinBoundStep == WithinBound /\ [PrintNext]_printVars => WithinBound'
<1> SUFFICES ASSUME WithinBound, [PrintNext]_printVars PROVE WithinBound'
  OBVIOUS
<1>0. IsSeq(buf) /\ Len(buf) \in Nat /\ caller \in Callers
  BY LengthNat DEF WithinBound
<1>1. ASSUME NEW level, LogHead(level) PROVE WithinBound'
  <2> DEFINE t == [i \in 1 .. HeadSize |-> level]
  <2>1. caller' = caller /\ format' = format /\ caller \in Logs /\ end = "no" /\ buf = <<>>
    BY <1>1 DEF LogHead
  <2>2. HeadSize \in Nat /\ t \in [1 .. HeadSize -> {level}]
    BY PrintfAssumption
  <2> HIDE DEF t
  <2>3. IsSeq(t) /\ Len(t) = HeadSize
    BY <2>2, TableIsSeq
  <2>4. Capacity' = Capacity
    BY <2>1 DEF Capacity
  <2>5. CASE end' = "skipped" /\ buf' = buf
    BY <2>1, <2>5, <1>0, EmptySeq, PrintfAssumption DEF WithinBound
  <2>6. CASE buf' = t /\ end' = end
    <3>1. Len(t) <= Capacity
      BY <2>1, <2>3, <1>0, CapacityType
    <3>2. Len(buf') <= Capacity'
      BY <3>1, <2>4, <2>6
    <3> QED
      BY <3>2, <2>1, <2>3, <2>6 DEF WithinBound
  <2> QED
    BY <1>1, <2>5, <2>6 DEF LogHead, t
<1>2. ASSUME dl_vslprintf PROVE WithinBound'
  <2> DEFINE room == Capacity - Len(buf)
             w == Put(Head(format), room)
             t == buf \o w
  <2>1. /\ end = "no" /\ format # <<>> /\ Len(buf) < Capacity
        /\ buf' = t /\ format' = Tail(format) /\ caller' = caller /\ end' = end
    BY <1>2 DEF dl_vslprintf
  <2>2. Head(format) \in Directives /\ Tail(format) \in Seq(Directives)
    BY <2>1 DEF WithinBound
  <2>3. room \in Nat \ {0}
    BY <1>0, <2>1, CapacityType
  <2>4. IsSeq(w) /\ Len(w) <= room /\ Len(w) \in Nat
    <3> HIDE DEF room
    <3> QED
      BY <2>2, <2>3, PutFits, LengthNat
  <2> HIDE DEF w
  <2>5. IsSeq(t) /\ Len(t) = Len(buf) + Len(w)
    BY <1>0, <2>4, ConcatLength
  <2> HIDE DEF t
  <2>6. Len(t) <= Capacity
    BY <1>0, <2>4, <2>5, CapacityType
  <2>7. Capacity' = Capacity
    BY <2>1 DEF Capacity
  <2>8. Len(buf') <= Capacity'
    BY <2>1, <2>6, <2>7
  <2> QED
    BY <2>1, <2>2, <2>5, <2>8, <1>0 DEF WithinBound
<1>3. ASSUME Finish PROVE WithinBound'
  <2>1. /\ end = "no" /\ end' = "yes" /\ caller' = caller /\ format' = format
        /\ buf' = CASE caller = "printf" -> Append(buf, Zero)
                    [] caller \in Logs -> Append(buf, Newline)
                    [] OTHER -> buf
    BY <1>3 DEF Finish
  <2>2. Len(buf) <= Capacity
    BY <2>1 DEF WithinBound
  <2>3. ASSUME NEW c, NEW t, t = Append(buf, c), caller \in Logs \cup {"printf"}
        PROVE  IsSeq(t) /\ Len(t) <= BufferSize
    <3>1. t = buf \o <<c>>
      <4>1. PICK S : buf \in Seq(S)
        BY <1>0 DEF IsSeq
      <4> QED
        BY <2>3, <4>1
    <3>2. IsSeq(buf \o <<c>>) /\ Len(buf \o <<c>>) = Len(buf) + 1
      BY <1>0, OneCharacter, ConcatLength
    <3>3. Capacity + 1 <= BufferSize /\ Capacity \in Nat /\ BufferSize \in Nat
      BY <2>3, <1>0, CapacityType, PrintfAssumption
    <3> QED
      BY <3>1, <3>2, <3>3, <2>2, <1>0
  <2>4. IsSeq(buf') /\ (caller # "sprintf" => Len(buf') <= BufferSize)
    <3>1. CASE caller = "printf"
      <4>1. buf' = Append(buf, Zero)
        BY <2>1, <3>1 DEF Logs
      <4> QED
        BY <4>1, <3>1, <2>3
    <3>2. CASE caller \in Logs
      <4>1. buf' = Append(buf, Newline)
        BY <2>1, <3>2 DEF Logs
      <4> QED
        BY <4>1, <3>2, <2>3
    <3>3. CASE caller \notin Logs \cup {"printf"}
      <4>1. buf' = buf
        BY <2>1, <3>3
      <4>2. caller # "sprintf" => Len(buf) <= BufferSize
        BY <2>2, <1>0, CapacityType, PrintfAssumption
      <4> QED
        BY <4>1, <4>2, <1>0
    <3> QED
      BY <3>1, <3>2, <3>3
  <2> QED
    BY <2>1, <2>4, <1>0 DEF WithinBound
<1>4. ASSUME UNCHANGED printVars PROVE WithinBound'
  BY <1>4 DEF WithinBound, printVars, Capacity
<1> QED
  BY <1>1, <1>2, <1>3, <1>4 DEF PrintNext

\* No caller's buffer is exceeded: dl_snprintf, dl_slprintf, dl_printf,
\* dl_exit_msg, dl_log_error and exit_log write at most BufferSize characters,
\* whatever the format and the arguments.
THEOREM NeverPastAlways == PrintSpec => []NeverPast
<1>1. WithinBound => NeverPast
  <2> SUFFICES ASSUME WithinBound PROVE NeverPast
    OBVIOUS
  <2>1. Len(buf) \in Nat /\ BufferSize \in Nat
    BY LengthNat, PrintfAssumption DEF WithinBound
  <2>2. CASE end = "no"
    BY <2>1, <2>2, CapacityType DEF WithinBound, NeverPast
  <2>3. CASE end # "no"
    BY <2>3 DEF WithinBound, NeverPast
  <2> QED
    BY <2>2, <2>3
<1> QED
  BY <1>1, WithinBoundInit, WithinBoundStep, PTL DEF PrintSpec

-------------------------------------------------------------------------------
(* What is cut off.                                                          *)

\* Two sequences with the same members are one.
LEMMA SameSeq ==
    ASSUME NEW s, NEW t, IsSeq(s), IsSeq(t), Len(s) = Len(t),
           \A i \in 1 .. Len(s) : s[i] = t[i]
    PROVE  s = t
<1>1. PICK S : s \in Seq(S)
  BY DEF IsSeq
<1>2. PICK T : t \in Seq(T)
  BY DEF IsSeq
<1>3. s \in Seq(S \cup T) /\ t \in Seq(S \cup T)
  BY <1>1, <1>2
<1> QED
  BY <1>3

\* The members of a concatenation.
LEMMA ConcatIs ==
    ASSUME NEW s, NEW t, IsSeq(s), IsSeq(t)
    PROVE  \A i \in 1 .. Len(s) + Len(t) :
              (s \o t)[i] = IF i <= Len(s) THEN s[i] ELSE t[i - Len(s)]
<1>1. PICK S : s \in Seq(S)
  BY DEF IsSeq
<1>2. PICK T : t \in Seq(T)
  BY DEF IsSeq
<1>3. s \in Seq(S \cup T) /\ t \in Seq(S \cup T)
  BY <1>1, <1>2
<1> QED
  BY <1>3

\* What Cut leaves.
LEMMA CutIs ==
    ASSUME NEW s, IsSeq(s), NEW room \in Nat
    PROVE  LET m == Least(Len(s), room)
           IN  /\ m \in Nat /\ IsSeq(Cut(s, room)) /\ Len(Cut(s, room)) = m
               /\ \A i \in 1 .. m : Cut(s, room)[i] = s[i]
<1> DEFINE m == Least(Len(s), room)
<1>1. PICK S : s \in Seq(S)
  BY DEF IsSeq
<1>2. m \in Nat /\ m <= Len(s)
  BY <1>1 DEF Least
<1>3. Cut(s, room) = SubSeq(s, 1, m)
  BY DEF Cut
<1> HIDE DEF m
<1>4. /\ SubSeq(s, 1, m) \in Seq(S) /\ Len(SubSeq(s, 1, m)) = m
      /\ \A i \in 1 .. m : SubSeq(s, 1, m)[i] = s[i]
  BY <1>1, <1>2
<1> QED
  BY <1>2, <1>3, <1>4 DEF IsSeq, m

\* What fits is not cut.
LEMMA CutAll ==
    ASSUME NEW s, IsSeq(s), NEW room \in Nat, Len(s) <= room
    PROVE  Cut(s, room) = s
<1>1. Len(s) \in Nat
  BY LengthNat
<1>2. Least(Len(s), room) = Len(s)
  BY <1>1 DEF Least
<1>3. /\ IsSeq(Cut(s, room)) /\ Len(Cut(s, room)) = Len(s)
      /\ \A i \in 1 .. Len(s) : Cut(s, room)[i] = s[i]
  BY <1>2, CutIs
<1> QED
  BY <1>3, SameSeq

\* Cutting twice is cutting at the shorter length.
LEMMA CutTwice ==
    ASSUME NEW s, IsSeq(s), NEW room \in Nat, NEW more \in Nat, room <= more
    PROVE  Cut(Cut(s, more), room) = Cut(s, room)
<1> DEFINE n == Len(s)
           l == Least(n, more)
           m == Least(n, room)
           t == Cut(s, more)
<1>1. n \in Nat
  BY LengthNat
<1>2. IsSeq(t) /\ Len(t) = l /\ \A i \in 1 .. l : t[i] = s[i]
  BY CutIs
<1>3. /\ m \in Nat /\ IsSeq(Cut(s, room)) /\ Len(Cut(s, room)) = m
      /\ \A i \in 1 .. m : Cut(s, room)[i] = s[i]
  BY CutIs
<1> HIDE DEF t
<1>4. /\ IsSeq(Cut(t, room)) /\ Len(Cut(t, room)) = Least(l, room)
      /\ \A i \in 1 .. Least(l, room) : Cut(t, room)[i] = t[i]
  BY <1>2, CutIs
<1>5. Least(l, room) = m /\ m <= l
  BY <1>1 DEF Least
<1> HIDE DEF l, m
<1>6. \A i \in 1 .. m : i \in 1 .. l
  <2>1. l \in Nat
    BY <1>2, LengthNat
  <2> QED
    BY <1>3, <1>5, <2>1
<1>7. \A i \in 1 .. m : Cut(t, room)[i] = Cut(s, room)[i]
  BY <1>2, <1>3, <1>4, <1>5, <1>6
<1>8. Cut(t, room) = Cut(s, room)
  BY <1>3, <1>4, <1>5, <1>7, SameSeq
<1> QED
  BY <1>8 DEF t

\* Two texts that share the room, one behind the other.
LEMMA CutConcat ==
    ASSUME NEW a, NEW b, IsSeq(a), IsSeq(b), NEW room \in Nat
    PROVE  /\ room - Len(Cut(a, room)) \in Nat
           /\ Cut(a, room) \o Cut(b, room - Len(Cut(a, room))) = Cut(a \o b, room)
<1> DEFINE n == Len(a)
           k == Len(b)
           c == Cut(a, room)
           m == Least(n, room)
           left == room - m
           d == Cut(b, left)
           l == Least(k, left)
           whole == a \o b
           e == Cut(whole, room)
<1>1. n \in Nat /\ k \in Nat
  BY LengthNat
<1>2. IsSeq(c) /\ Len(c) = m /\ \A i \in 1 .. m : c[i] = a[i]
  BY CutIs
<1>3. m \in Nat /\ left \in Nat /\ m <= n /\ (m # n => m = room /\ left = 0)
  BY <1>1 DEF Least
<1> HIDE DEF c, m, left
<1>4. IsSeq(d) /\ Len(d) = l /\ \A i \in 1 .. l : d[i] = b[i]
  BY <1>3, CutIs
<1>5. IsSeq(whole) /\ Len(whole) = n + k
      /\ \A i \in 1 .. n + k : whole[i] = IF i <= n THEN a[i] ELSE b[i - n]
  BY ConcatLength, ConcatIs
<1> HIDE DEF whole
<1>6. IsSeq(e) /\ Len(e) = Least(n + k, room) /\ \A i \in 1 .. Least(n + k, room) : e[i] = whole[i]
  BY <1>5, CutIs
<1> HIDE DEF d, e
<1>7. IsSeq(c \o d) /\ Len(c \o d) = m + l
      /\ \A i \in 1 .. m + l : (c \o d)[i] = IF i <= m THEN c[i] ELSE d[i - m]
  <2>1. IsSeq(c \o d) /\ Len(c \o d) = Len(c) + Len(d)
    BY <1>2, <1>4, ConcatLength
  <2>2. \A i \in 1 .. Len(c) + Len(d) : (c \o d)[i] = IF i <= Len(c) THEN c[i] ELSE d[i - Len(c)]
    BY <1>2, <1>4, ConcatIs
  <2> HIDE DEF l
  <2> QED
    BY <1>2, <1>4, <2>1, <2>2
<1> HIDE DEF n, k
<1>8. l \in Nat /\ l <= k /\ m + l <= n + k /\ Least(n + k, room) = m + l /\ (l # 0 => m = n)
  <2>1. m = IF n < room THEN n ELSE room
    BY DEF m, Least
  <2>2. left = room - m
    BY DEF left
  <2>3. l = IF k < left THEN k ELSE left
    BY DEF Least
  <2> HIDE DEF l
  <2>4. l \in Nat /\ l <= k /\ m + l <= n + k /\ (l # 0 => m = n)
    BY <1>1, <1>3, <2>1, <2>2, <2>3
  <2>5. (IF n + k < room THEN n + k ELSE room) = m + l
    BY <1>1, <1>3, <2>1, <2>2, <2>3
  <2> QED
    BY <2>4, <2>5 DEF Least
<1> HIDE DEF l
<1>9. ASSUME NEW i \in 1 .. m + l PROVE (c \o d)[i] = e[i]
  <2>1. i \in 1 .. n + k
    BY <1>1, <1>3, <1>8
  <2>2. CASE i <= m
    <3>1. i \in 1 .. m /\ i <= n
      BY <1>1, <1>3, <2>2
    <3>2. (c \o d)[i] = a[i]
      BY <1>2, <1>7, <2>2, <3>1
    <3>3. e[i] = a[i]
      BY <1>5, <1>6, <1>8, <2>1, <3>1
    <3> QED
      BY <3>2, <3>3
  <2>3. CASE ~(i <= m)
    <3>1. i - m \in 1 .. l /\ m = n
      BY <1>3, <1>8, <2>3
    <3>2. (c \o d)[i] = b[i - m]
      BY <1>4, <1>7, <2>3, <3>1
    <3>3. e[i] = b[i - n]
      BY <1>5, <1>6, <1>8, <2>1, <2>3, <3>1
    <3> QED
      BY <3>1, <3>2, <3>3
  <2> QED
    BY <2>2, <2>3
<1>10. c \o d = e
  <2>1. Len(c \o d) = Len(e)
    BY <1>6, <1>7, <1>8
  <2>2. \A i \in 1 .. Len(c \o d) : (c \o d)[i] = e[i]
    BY <1>7, <1>9
  <2> QED
    BY <1>6, <1>7, <2>1, <2>2, SameSeq
<1>11. room - Len(c) = left
  BY <1>2 DEF left
<1>12. c \o Cut(b, room - Len(c)) = e /\ room - Len(c) \in Nat
  BY <1>3, <1>10, <1>11 DEF d
<1> QED
  BY <1>12 DEF c, e, whole

\* A character for which there is room is not cut off.
LEMMA CutOne ==
    ASSUME NEW c, NEW room \in Nat \ {0}
    PROVE  Cut(<<c>>, room) = <<c>>
  BY OneCharacter, CutAll

\* All that dl_sprintf_num has to write: the padding and the digits.
Padded(v, base, letter, zero, width) ==
    LET digits == Digits(v, base, letter)
        short == IF width > Len(digits) THEN width - Len(digits) ELSE 0
    IN  [i \in 1 .. short |-> zero] \o digits

\* The "number safe copy" writes of it what there is room for.
LEMMA NumCuts ==
    ASSUME NEW v, NEW base, NEW letter, NEW zero, NEW width \in Nat
    PROVE  /\ IsSeq(Padded(v, base, letter, zero, width))
           /\ \A room \in Nat :
                 dl_sprintf_num(v, base, letter, zero, width, room)
                     = Cut(Padded(v, base, letter, zero, width), room)
<1> DEFINE digits == Digits(v, base, letter)
           short == IF width > Len(digits) THEN width - Len(digits) ELSE 0
           zeros(n) == [i \in 1 .. n |-> zero]
<1>1. IsSeq(digits) /\ Len(digits) \in Nat
  BY DigitsSeq, LengthNat
<1>2. short \in Nat
  <2> HIDE DEF digits
  <2> QED
    BY <1>1
<1>3. Padded(v, base, letter, zero, width) = zeros(short) \o digits
  BY DEF Padded
<1>4. ASSUME NEW n \in Nat
      PROVE  IsSeq(zeros(n)) /\ Len(zeros(n)) = n /\ \A i \in 1 .. n : zeros(n)[i] = zero
  <2>1. zeros(n) \in [1 .. n -> {zero}]
    OBVIOUS
  <2> QED
    BY <2>1, TableIsSeq
<1>5. ASSUME NEW room \in Nat
      PROVE  dl_sprintf_num(v, base, letter, zero, width, room)
                 = zeros(Least(short, room)) \o Cut(digits, room - Least(short, room))
  BY DEF dl_sprintf_num
<1> HIDE DEF digits, short, zeros
<1>6. IsSeq(zeros(short) \o digits)
  BY <1>1, <1>2, <1>4, ConcatLength
<1>7. ASSUME NEW room \in Nat
      PROVE  dl_sprintf_num(v, base, letter, zero, width, room) = Cut(zeros(short) \o digits, room)
  <2> DEFINE pad == Least(short, room)
             cut == Cut(zeros(short), room)
  <2>1. pad \in Nat /\ pad <= short
    BY <1>2 DEF Least
  <2>2. /\ IsSeq(cut) /\ Len(cut) = Least(Len(zeros(short)), room)
        /\ \A i \in 1 .. Least(Len(zeros(short)), room) : cut[i] = zeros(short)[i]
    BY <1>2, <1>4, CutIs
  <2>3. Len(cut) = pad /\ \A i \in 1 .. pad : cut[i] = zeros(short)[i]
    BY <1>2, <1>4, <2>2
  <2> HIDE DEF pad, cut
  <2>4. \A i \in 1 .. pad : i \in 1 .. short
    BY <2>1, <1>2
  <2>5. \A i \in 1 .. pad : cut[i] = zeros(pad)[i]
    BY <1>2, <1>4, <2>1, <2>3, <2>4
  <2>6. cut = zeros(pad)
    BY <1>4, <2>1, <2>2, <2>3, <2>5, SameSeq
  <2>7. Cut(zeros(short), room) \o Cut(digits, room - Len(Cut(zeros(short), room)))
            = Cut(zeros(short) \o digits, room)
    BY <1>1, <1>2, <1>4, CutConcat
  <2>8. cut \o Cut(digits, room - Len(cut)) = Cut(zeros(short) \o digits, room)
    BY <2>7 DEF cut
  <2>9. zeros(pad) \o Cut(digits, room - pad) = Cut(zeros(short) \o digits, room)
    BY <2>3, <2>6, <2>8
  <2> QED
    BY <1>5, <2>9 DEF pad
<1> QED
  BY <1>3, <1>6, <1>7

\* All that a number has to write.
NumberFull(d) ==
    IF d.sign /\ d.v < 0
    THEN <<Minus>> \o Padded(-d.v, d.base, d.letter, d.zero, d.width)
    ELSE Padded(IF d.sign THEN d.v ELSE d.v % UintMod, d.base, d.letter, d.zero, d.width)

\* The unchecked minus is not cut off, for there is room for one character.
LEMMA NumberCuts ==
    ASSUME NEW d, d.width \in Nat
    PROVE  /\ IsSeq(NumberFull(d))
           /\ \A room \in Nat \ {0} : Number(d, room) = Cut(NumberFull(d), room)
<1>1. CASE d.sign /\ d.v < 0
  <2> DEFINE x == Padded(-d.v, d.base, d.letter, d.zero, d.width)
             w(r) == dl_sprintf_num(-d.v, d.base, d.letter, d.zero, d.width, r)
  <2>1. IsSeq(x) /\ \A r \in Nat : w(r) = Cut(x, r)
    BY NumCuts
  <2>2. NumberFull(d) = <<Minus>> \o x
    BY <1>1 DEF NumberFull
  <2>3. \A room \in Nat \ {0} : Number(d, room) = <<Minus>> \o w(room - 1)
    BY <1>1 DEF Number
  <2> HIDE DEF x, w
  <2>4. IsSeq(<<Minus>> \o x)
    BY <2>1, OneCharacter, ConcatLength
  <2>5. ASSUME NEW room \in Nat \ {0}
        PROVE  Number(d, room) = Cut(<<Minus>> \o x, room)
    <3>1. /\ room - Len(Cut(<<Minus>>, room)) \in Nat
          /\ Cut(<<Minus>>, room) \o Cut(x, room - Len(Cut(<<Minus>>, room))) = Cut(<<Minus>> \o x, room)
      BY <2>1, OneCharacter, CutConcat
    <3>2. Cut(<<Minus>>, room) = <<Minus>> /\ Len(<<Minus>>) = 1
      BY CutOne, OneCharacter
    <3>3. <<Minus>> \o Cut(x, room - 1) = Cut(<<Minus>> \o x, room) /\ room - 1 \in Nat
      BY <3>1, <3>2
    <3> QED
      BY <2>1, <2>3, <3>3
  <2> QED
    BY <2>2, <2>4, <2>5
<1>2. CASE ~(d.sign /\ d.v < 0)
  <2> DEFINE v == IF d.sign THEN d.v ELSE d.v % UintMod
             x == Padded(v, d.base, d.letter, d.zero, d.width)
             w(r) == dl_sprintf_num(v, d.base, d.letter, d.zero, d.width, r)
  <2>1. IsSeq(x) /\ \A r \in Nat : w(r) = Cut(x, r)
    BY NumCuts
  <2>2. NumberFull(d) = x
    BY <1>2 DEF NumberFull
  <2>3. \A room \in Nat \ {0} : Number(d, room) = w(room)
    BY <1>2 DEF Number
  <2> HIDE DEF x, w
  <2> QED
    BY <2>1, <2>2, <2>3
<1> QED
  BY <1>1, <1>2

\* All that a number with a fraction has to write.
FloatFull(d) ==
    LET v == IF d.v < 0 THEN -d.v ELSE d.v
        scale == 10 ^ d.frac
        rounded == ((v % 100) * scale + 50) \div 100
        carry == IF d.frac > 0 /\ rounded = scale THEN 1 ELSE 0
        minus == IF d.v < 0 THEN <<Minus>> ELSE <<>>
        whole == minus \o Padded(v \div 100 + carry, 10, 0, d.zero, d.width)
    IN  IF d.frac = 0 THEN whole
        ELSE (whole \o <<Dot>>) \o Padded(IF carry = 1 THEN 0 ELSE rounded, 10, 0, 48, d.frac)

\* Each part of it has the room that the parts before it have left.
LEMMA FloatCuts ==
    ASSUME NEW d, d.width \in Nat, d.frac \in Nat
    PROVE  /\ IsSeq(FloatFull(d))
           /\ \A room \in Nat \ {0} : Float(d, room) = Cut(FloatFull(d), room)
<1> DEFINE v == IF d.v < 0 THEN -d.v ELSE d.v
           scale == 10 ^ d.frac
           rounded == ((v % 100) * scale + 50) \div 100
           carry == IF d.frac > 0 /\ rounded = scale THEN 1 ELSE 0
           minus == IF d.v < 0 THEN <<Minus>> ELSE <<>>
           integer == Padded(v \div 100 + carry, 10, 0, d.zero, d.width)
           hundredths == IF carry = 1 THEN 0 ELSE rounded
           decimals == Padded(hundredths, 10, 0, 48, d.frac)
           number(r) == dl_sprintf_num(v \div 100 + carry, 10, 0, d.zero, d.width, r)
           fraction(r) == dl_sprintf_num(hundredths, 10, 0, 48, d.frac, r)
           whole(room) == minus \o number(room - Len(minus))
           dot(room) == whole(room) \o Cut(<<Dot>>, room - Len(whole(room)))
           W == minus \o integer
           D == W \o <<Dot>>
<1>1. \A room \in Nat \ {0} :
         Float(d, room) = IF d.frac = 0 THEN whole(room)
                          ELSE dot(room) \o fraction(room - Len(dot(room)))
  BY DEF Float
<1>2. FloatFull(d) = IF d.frac = 0 THEN W ELSE D \o decimals
  BY DEF FloatFull
<1>3. IsSeq(minus) /\ Len(minus) \in Nat /\ Len(minus) <= 1
  BY EmptySeq, OneCharacter
<1> HIDE DEF minus, carry, rounded, v
<1>4. IsSeq(integer) /\ \A r \in Nat : number(r) = Cut(integer, r)
  BY NumCuts
<1> HIDE DEF hundredths
<1>5. IsSeq(decimals) /\ \A r \in Nat : fraction(r) = Cut(decimals, r)
  BY NumCuts
<1> HIDE DEF integer, decimals, number, fraction
<1>6. IsSeq(W) /\ IsSeq(D) /\ IsSeq(D \o decimals)
  <2>1. IsSeq(W)
    BY <1>3, <1>4, ConcatLength
  <2> HIDE DEF W
  <2>2. IsSeq(D)
    BY <2>1, OneCharacter, ConcatLength
  <2> HIDE DEF D
  <2> QED
    BY <2>1, <2>2, <1>5, ConcatLength
<1>7. ASSUME NEW room \in Nat \ {0}
      PROVE  whole(room) = Cut(W, room)
  <2>1. Cut(minus, room) = minus
    BY <1>3, CutAll
  <2>2. /\ room - Len(Cut(minus, room)) \in Nat
        /\ Cut(minus, room) \o Cut(integer, room - Len(Cut(minus, room))) = Cut(minus \o integer, room)
    BY <1>3, <1>4, CutConcat
  <2>3. room - Len(minus) \in Nat /\ minus \o Cut(integer, room - Len(minus)) = Cut(W, room)
    BY <2>1, <2>2
  <2> QED
    BY <2>3, <1>4
<1> HIDE DEF whole, W
<1>8. ASSUME NEW room \in Nat \ {0}
      PROVE  dot(room) = Cut(D, room)
  <2>1. Cut(W, room) \o Cut(<<Dot>>, room - Len(Cut(W, room))) = Cut(W \o <<Dot>>, room)
    BY <1>6, OneCharacter, CutConcat
  <2> QED
    BY <2>1, <1>7
<1> HIDE DEF dot, D
<1>9. ASSUME NEW room \in Nat \ {0}
      PROVE  dot(room) \o fraction(room - Len(dot(room))) = Cut(D \o decimals, room)
  <2>1. /\ room - Len(Cut(D, room)) \in Nat
        /\ Cut(D, room) \o Cut(decimals, room - Len(Cut(D, room))) = Cut(D \o decimals, room)
    BY <1>5, <1>6, CutConcat
  <2>2. /\ room - Len(dot(room)) \in Nat
        /\ dot(room) \o Cut(decimals, room - Len(dot(room))) = Cut(D \o decimals, room)
    BY <2>1, <1>8
  <2> QED
    BY <2>2, <1>5
<1> QED
  BY <1>1, <1>2, <1>6, <1>7, <1>9

\* All that a directive has to write.
Full(d) ==
    CASE d.conv = "char" -> <<d.c>>
      [] d.conv = "text" -> d.s
      [] d.conv = "cstring" -> UpToNul(d.s)
      [] d.conv = "number" -> NumberFull(d)
      [] d.conv = "float" -> FloatFull(d)

\* Every directive writes of it what there is room for.
LEMMA PutCuts ==
    ASSUME NEW d \in Directives
    PROVE  IsSeq(Full(d)) /\ \A room \in Nat \ {0} : Put(d, room) = Cut(Full(d), room)
<1>1. CASE d.conv = "char"
  <2>1. Full(d) = <<d.c>> /\ \A room \in Nat \ {0} : Put(d, room) = <<d.c>>
    BY <1>1 DEF Put, Full
  <2>2. \A room \in Nat \ {0} : Cut(<<d.c>>, room) = <<d.c>>
    BY CutOne
  <2> QED
    BY <2>1, <2>2, OneCharacter
<1>2. CASE d.conv = "text"
  <2>1. Full(d) = d.s /\ \A room \in Nat \ {0} : Put(d, room) = Cut(d.s, room)
    BY <1>2 DEF Put, Full
  <2>2. d.s \in Seq(Nat)
    BY <1>2, DirectivesAssumption
  <2>3. IsSeq(d.s)
    BY <2>2 DEF IsSeq
  <2> QED
    BY <2>1, <2>3
<1>3. CASE d.conv = "cstring"
  <2>1. Full(d) = UpToNul(d.s) /\ \A room \in Nat \ {0} : Put(d, room) = Cut(UpToNul(d.s), room)
    BY <1>3 DEF Put, Full
  <2>2. d.s \in Seq(Nat)
    BY <1>3, DirectivesAssumption
  <2> QED
    BY <2>1, <2>2, UpToNulSeq
<1>4. CASE d.conv = "number"
  <2>1. Full(d) = NumberFull(d) /\ \A room \in Nat \ {0} : Put(d, room) = Number(d, room)
    BY <1>4 DEF Put, Full
  <2>2. d.width \in Nat
    BY <1>4, DirectivesAssumption
  <2> QED
    BY <2>1, <2>2, NumberCuts
<1>5. CASE d.conv = "float"
  <2>1. Full(d) = FloatFull(d) /\ \A room \in Nat \ {0} : Put(d, room) = Float(d, room)
    BY <1>5 DEF Put, Full
  <2>2. d.width \in Nat /\ d.frac \in Nat
    BY <1>5, DirectivesAssumption
  <2> QED
    BY <2>1, <2>2, FloatCuts
<1> QED
  BY <1>1, <1>2, <1>3, <1>4, <1>5, DirectivesAssumption

-------------------------------------------------------------------------------
(* The text as a whole.                                                      *)

\* The text after the first k directives, given the texts w before.
Extended(head, directives, w, k) ==
    IF k = 0 THEN head ELSE w[k - 1] \o Put(directives[k], Boundless)

\* w is the function that Whole's definition names, for n directives.
Built(head, directives, w, n) == w = [k \in 0 .. n |-> Extended(head, directives, w, k)]

\* The recursion of Whole has a solution.
LEMMA BuiltExists ==
    ASSUME NEW head, NEW directives
    PROVE  \A n \in Nat : \E w : Built(head, directives, w, n)
<1> DEFINE S == {n \in Nat : \E w : Built(head, directives, w, n)}
           More(w, k) == Extended(head, directives, w, k)
<1>1. 0 \in S
  <2> DEFINE w == [k \in 0 .. 0 |-> head]
  <2>1. \A k \in 0 .. 0 : More(w, k) = head
    BY DEF Extended
  <2>2. Built(head, directives, w, 0)
    BY <2>1 DEF Built
  <2> QED
    BY <2>2
<1>2. ASSUME NEW n \in Nat, n \in S PROVE n + 1 \in S
  <2>1. PICK w : Built(head, directives, w, n)
    BY <1>2
  <2> DEFINE v == [k \in 0 .. n + 1 |-> IF k = n + 1 THEN More(w, n + 1) ELSE w[k]]
  <2>2. ASSUME NEW k \in 0 .. n PROVE v[k] = w[k] /\ w[k] = More(w, k)
    <3>1. k \in 0 .. n + 1 /\ k # n + 1
      OBVIOUS
    <3>2. w[k] = More(w, k)
      BY <2>1 DEF Built
    <3> QED
      BY <3>1, <3>2
  <2>3. ASSUME NEW k \in 0 .. n + 1 PROVE More(v, k) = More(w, k)
    <3>1. CASE k = 0
      BY <3>1 DEF Extended
    <3>2. CASE k # 0
      <4>1. k - 1 \in 0 .. n
        BY <3>2
      <4>2. v[k - 1] = w[k - 1]
        BY <2>2, <4>1
      <4> HIDE DEF v
      <4> QED
        BY <4>2, <3>2 DEF Extended
    <3> QED
      BY <3>1, <3>2
  <2>4. ASSUME NEW k \in 0 .. n + 1 PROVE v[k] = More(v, k)
    <3>1. CASE k = n + 1
      <4>1. v[k] = More(w, k)
        BY <3>1
      <4> QED
        BY <2>3, <4>1
    <3>2. CASE k # n + 1
      <4>1. k \in 0 .. n
        BY <3>2
      <4> QED
        BY <2>2, <2>3, <4>1
    <3> QED
      BY <3>1, <3>2
  <2>5. v = [k \in 0 .. n + 1 |-> v[k]]
    OBVIOUS
  <2> HIDE DEF v
  <2>6. Built(head, directives, v, n + 1)
    BY <2>4, <2>5 DEF Built
  <2> QED
    BY <2>6
<1> HIDE DEF S
<1>3. \A n \in Nat : n \in S
  BY <1>1, <1>2, AllNaturals
<1> QED
  BY <1>3 DEF S

\* The text after n directives depends on no later one.
LEMMA BuiltSame ==
    ASSUME NEW head, NEW more, NEW fewer, NEW m \in Nat, NEW n \in Nat, n <= m,
           \A k \in 1 .. n : more[k] = fewer[k],
           NEW v, Built(head, more, v, m), NEW w, Built(head, fewer, w, n)
    PROVE  v[n] = w[n]
<1> DEFINE S == {k \in Nat : k <= n => v[k] = w[k]}
<1>1. \A k \in 0 .. n : v[k] = Extended(head, more, v, k) /\ w[k] = Extended(head, fewer, w, k)
  <2>1. \A k \in 0 .. n : k \in 0 .. m
    OBVIOUS
  <2>2. \A k \in 0 .. m : v[k] = Extended(head, more, v, k)
    BY DEF Built
  <2>3. \A k \in 0 .. n : w[k] = Extended(head, fewer, w, k)
    BY DEF Built
  <2> QED
    BY <2>1, <2>2, <2>3
<1>2. 0 \in S
  <2>1. 0 \in 0 .. n
    OBVIOUS
  <2> QED
    BY <1>1, <2>1 DEF Extended
<1>3. ASSUME NEW k \in Nat, k \in S PROVE k + 1 \in S
  <2>1. SUFFICES ASSUME k + 1 <= n PROVE v[k + 1] = w[k + 1]
    OBVIOUS
  <2>2. k + 1 \in 0 .. n /\ k + 1 \in 1 .. n /\ k + 1 # 0 /\ (k + 1) - 1 = k /\ k <= n
    BY <2>1
  <2>3. v[k] = w[k]
    BY <1>3, <2>2
  <2>4. /\ Extended(head, more, v, k + 1) = v[k] \o Put(more[k + 1], Boundless)
        /\ Extended(head, fewer, w, k + 1) = w[k] \o Put(fewer[k + 1], Boundless)
    BY <2>2 DEF Extended
  <2>5. more[k + 1] = fewer[k + 1]
    BY <2>2
  <2> QED
    BY <1>1, <2>2, <2>3, <2>4, <2>5
<1> HIDE DEF S
<1>4. n \in S
  BY <1>2, <1>3, AllNaturals
<1> QED
  BY <1>4 DEF S

\* What Whole's definition names.
LEMMA WholeIs ==
    ASSUME NEW head, NEW directives, Len(directives) \in Nat
    PROVE  \E w : Built(head, directives, w, Len(directives)) /\ Whole(head, directives) = w[Len(directives)]
<1> DEFINE n == Len(directives)
           w == CHOOSE g : Built(head, directives, g, n)
<1>1. Built(head, directives, w, n)
  BY BuiltExists
<1>2. Whole(head, directives) = w[n]
  BY DEF Whole, Built, Extended
<1> QED
  BY <1>1, <1>2

\* Before the first directive there is only what was in front.
LEMMA WholeNone ==
    ASSUME NEW head
    PROVE  Whole(head, <<>>) = head
<1>1. Len(<<>>) = 0
  BY EmptySeq
<1>2. PICK w : Built(head, <<>>, w, 0) /\ Whole(head, <<>>) = w[0]
  BY <1>1, WholeIs
<1>3. w[0] = Extended(head, <<>>, w, 0)
  BY <1>2 DEF Built
<1> QED
  BY <1>2, <1>3 DEF Extended

\* A directive writes behind those before it.
LEMMA WholeMore ==
    ASSUME NEW head, NEW directives \in Seq(Directives), NEW d \in Directives
    PROVE  Whole(head, Append(directives, d)) = Whole(head, directives) \o Put(d, Boundless)
<1> DEFINE n == Len(directives)
           all == Append(directives, d)
<1>1. n \in Nat /\ Len(all) = n + 1 /\ all[n + 1] = d /\ \A k \in 1 .. n : all[k] = directives[k]
  OBVIOUS
<1>2. PICK w : Built(head, directives, w, n) /\ Whole(head, directives) = w[n]
  BY <1>1, WholeIs
<1> HIDE DEF n, all
<1>3. PICK v : Built(head, all, v, n + 1) /\ Whole(head, all) = v[n + 1]
  BY <1>1, WholeIs
<1>4. v[n] = w[n]
  BY <1>1, <1>2, <1>3, BuiltSame
<1>5. v[n + 1] = Extended(head, all, v, n + 1)
  <2>1. n + 1 \in 0 .. n + 1
    BY <1>1
  <2> QED
    BY <1>3, <2>1 DEF Built
<1>6. Extended(head, all, v, n + 1) = v[n] \o Put(d, Boundless)
  <2>1. n + 1 # 0 /\ (n + 1) - 1 = n
    BY <1>1
  <2> QED
    BY <1>1, <2>1 DEF Extended
<1> QED
  BY <1>2, <1>3, <1>4, <1>5, <1>6 DEF all

\* text is what fits of the whole.
Fits(text, head, directives, room) ==
    /\ IsSeq(Whole(head, directives))
    /\ text = Cut(Whole(head, directives), room)

\* Behind a text that fits a second one has the room that is left.
LEMMA CutBehind ==
    ASSUME NEW a, NEW b, IsSeq(a), IsSeq(b), NEW room \in Nat, Cut(a, room) = a
    PROVE  a \o Cut(b, room - Len(a)) = Cut(a \o b, room)
<1>1. /\ room - Len(Cut(a, room)) \in Nat
      /\ Cut(a, room) \o Cut(b, room - Len(Cut(a, room))) = Cut(a \o b, room)
  BY CutConcat
<1> QED
  BY <1>1

\* As long as there is room nothing has been cut off, and the next directive
\* writes what fits of the whole with it.
LEMMA FitsMore ==
    ASSUME NEW text, NEW head, NEW directives \in Seq(Directives), NEW d \in Directives,
           NEW room \in Nat, room <= Boundless,
           Fits(text, head, directives, room), Len(text) < room
    PROVE  Fits(text \o Put(d, room - Len(text)), head, Append(directives, d), room)
<1> DEFINE W == Whole(head, directives)
           x == Full(d)
           left == room - Len(text)
<1>1. IsSeq(W) /\ text = Cut(W, room)
  BY DEF Fits
<1>2. IsSeq(x) /\ \A r \in Nat \ {0} : Put(d, r) = Cut(x, r)
  BY PutCuts
<1>3. Boundless \in Nat \ {0}
  BY PrintfAssumption
<1>4. Whole(head, Append(directives, d)) = W \o Cut(x, Boundless)
  BY <1>2, <1>3, WholeMore
<1> HIDE DEF W, x
<1>5. text = W
  <2>1. Len(W) \in Nat /\ Len(text) = Least(Len(W), room)
    BY <1>1, CutIs, LengthNat
  <2>2. Least(Len(W), room) = IF Len(W) < room THEN Len(W) ELSE room
    BY DEF Least
  <2>3. Len(W) <= room
    BY <2>1, <2>2
  <2> QED
    BY <1>1, <2>3, CutAll
<1>6. left \in Nat \ {0} /\ left <= Boundless
  <2>1. Len(text) \in Nat
    BY <1>1, <1>5, LengthNat
  <2> QED
    BY <1>3, <2>1
<1> DEFINE b == Cut(x, Boundless)
<1>7. IsSeq(b)
  BY <1>2, <1>3, CutIs
<1>8. Put(d, left) = Cut(b, left)
  <2> HIDE DEF left
  <2>1. Cut(b, left) = Cut(x, left)
    BY <1>2, <1>3, <1>6, CutTwice
  <2> QED
    BY <2>1, <1>2, <1>6
<1> HIDE DEF b
<1>9. W \o Cut(b, left) = Cut(W \o b, room)
  <2>1. W \o Cut(b, room - Len(W)) = Cut(W \o b, room)
    BY <1>1, <1>5, <1>7, CutBehind
  <2> QED
    BY <2>1, <1>5
<1>10. text \o Put(d, left) = Cut(W \o b, room) /\ IsSeq(W \o b)
  BY <1>1, <1>5, <1>7, <1>8, <1>9, ConcatLength
<1> QED
  BY <1>4, <1>10 DEF Fits, b

\* What is written behind a line leaves its head alone.
LEMMA HeadStays ==
    ASSUME NEW s, NEW t, IsSeq(s), IsSeq(t), NEW n \in Nat, n <= Len(s)
    PROVE  SubSeq(s \o t, 1, n) = SubSeq(s, 1, n)
<1>1. PICK S : s \in Seq(S)
  BY DEF IsSeq
<1>2. PICK T : t \in Seq(T)
  BY DEF IsSeq
<1>3. s \in Seq(S \cup T) /\ t \in Seq(S \cup T)
  BY <1>1, <1>2
<1> QED
  BY <1>3

\* The text is what fits of the whole as soon as a log line has its head, and
\* is complete at the end; what the head of a line is changes no more.
Begun == caller \in Logs => buf # <<>>

PrefixInv ==
    /\ WithinBound
    /\ printed \in Seq(Directives)
    /\ caller \in Logs => (buf = <<>> /\ printed = <<>>) \/ HeadSize <= Len(buf)
    /\ Begun => Fits(Message, LineHead, printed, Capacity)
    /\ end = "yes" => Begun /\ (format = <<>> \/ Len(Message) = Capacity)
    /\ end = "skipped" => printed = <<>> /\ buf = <<>>

LEMMA PrefixInvInit == PrintInit => PrefixInv
<1> SUFFICES ASSUME PrintInit PROVE PrefixInv
  OBVIOUS
<1>1. caller \in Callers /\ end = "no" /\ buf = <<>> /\ printed = <<>>
  BY DEF PrintInit
<1>2. WithinBound
  BY WithinBoundInit
<1>3. ASSUME Begun PROVE Fits(Message, LineHead, printed, Capacity)
  <2>1. caller \notin Logs /\ Message = <<>> /\ LineHead = <<>>
    BY <1>1, <1>3 DEF Begun, Message, LineHead
  <2>2. Whole(<<>>, <<>>) = <<>>
    BY WholeNone
  <2>3. Cut(<<>>, Capacity) = <<>>
    BY <1>1, EmptySeq, CapacityType, CutAll
  <2> QED
    BY <1>1, <2>1, <2>2, <2>3, EmptySeq DEF Fits
<1>4. printed \in Seq(Directives)
  BY <1>1
<1> QED
  BY <1>1, <1>2, <1>3, <1>4 DEF PrefixInv

\* The head of a line: LogHead.
LEMMA PrefixInvHead ==
    ASSUME PrefixInv, NEW level, LogHead(level), WithinBound'
    PROVE  PrefixInv'
<1> DEFINE t == [i \in 1 .. HeadSize |-> level]
<1>1. /\ caller' = caller /\ format' = format /\ printed' = printed
      /\ caller \in Logs /\ end = "no" /\ buf = <<>>
  BY DEF LogHead
<1>2. HeadSize \in Nat \ {0} /\ t \in [1 .. HeadSize -> {level}] /\ t \in Seq({level})
  BY PrintfAssumption
<1> HIDE DEF t
<1>3. IsSeq(t) /\ Len(t) = HeadSize
  BY <1>2, TableIsSeq
<1>4. printed = <<>>
  BY <1>1, <1>2, EmptySeq DEF PrefixInv
<1>5. CASE end' = "skipped" /\ buf' = buf
  <2>1. ~Begun'
    BY <1>1, <1>5 DEF Begun
  <2> QED
    BY <1>1, <1>4, <1>5, <2>1 DEF PrefixInv
<1>6. CASE buf' = t /\ end' = end
  <2>1. Message' = t
    BY <1>1, <1>6 DEF Message
  <2>2. LineHead' = t
    <3>1. SubSeq(t, 1, HeadSize) = t
      BY <1>2, <1>3
    <3> QED
      BY <1>1, <1>6, <3>1 DEF LineHead
  <2>3. Capacity' = Capacity /\ Capacity \in Nat /\ HeadSize <= Capacity
    BY <1>1, CapacityType DEF Capacity, PrefixInv, WithinBound
  <2>4. Whole(t, <<>>) = t /\ Cut(t, Capacity) = t
    BY <1>3, <2>3, WholeNone, CutAll
  <2>5. Fits(t, t, <<>>, Capacity)
    BY <1>3, <2>4 DEF Fits
  <2>6. Fits(Message, LineHead, printed, Capacity)'
    BY <1>1, <1>4, <2>1, <2>2, <2>3, <2>5
  <2>7. HeadSize <= Len(buf')
    BY <1>2, <1>3, <1>6
  <2> QED
    BY <1>1, <1>6, <2>6, <2>7 DEF PrefixInv
<1> QED
  BY <1>5, <1>6 DEF LogHead, t

\* One directive: dl_vslprintf.
LEMMA PrefixInvTurn ==
    ASSUME PrefixInv, dl_vslprintf, WithinBound'
    PROVE  PrefixInv'
<1> DEFINE d == Head(format)
           w == Put(d, Capacity - Len(buf))
           t == buf \o w
<1>1. /\ end = "no" /\ format # <<>> /\ Len(buf) < Capacity /\ Begun
      /\ buf' = t /\ printed' = Append(printed, d) /\ caller' = caller /\ end' = end
  BY DEF dl_vslprintf, Begun
<1>2. /\ IsSeq(buf) /\ format \in Seq(Directives) /\ printed \in Seq(Directives)
      /\ caller \in Callers
  BY DEF PrefixInv, WithinBound
<1>3. d \in Directives /\ Len(buf) \in Nat
  BY <1>1, <1>2, LengthNat
<1>4. Capacity' = Capacity /\ Capacity \in Nat /\ Capacity <= Boundless
  <2>1. BufferSize \in Nat /\ Boundless \in Nat /\ BufferSize <= Boundless
    BY PrintfAssumption
  <2>2. CASE caller = "sprintf"
    BY <1>1, <2>1, <2>2 DEF Capacity
  <2>3. CASE caller # "sprintf"
    BY <1>1, <1>2, <2>1, <2>3, CapacityType DEF Capacity
  <2> QED
    BY <2>2, <2>3
<1>5. Message = buf /\ Message' = t
  BY <1>1 DEF Message
<1> HIDE DEF d
<1>6. IsSeq(w)
  <2> DEFINE room == Capacity - Len(buf)
  <2>1. room \in Nat \ {0}
    BY <1>1, <1>3, <1>4
  <2> HIDE DEF room
  <2>2. IsSeq(Put(d, room))
    BY <1>3, <2>1, PutFits
  <2> QED
    BY <2>2 DEF room
<1>7. Fits(buf, LineHead, printed, Capacity)
  BY <1>1, <1>5 DEF PrefixInv
<1>8. Fits(t, LineHead, Append(printed, d), Capacity)
  BY <1>1, <1>2, <1>3, <1>4, <1>7, FitsMore
<1> HIDE DEF w
<1>9. caller \in Logs => HeadSize \in Nat /\ HeadSize <= Len(buf)
  BY <1>1, PrintfAssumption DEF PrefixInv, Begun
<1>10. LineHead' = LineHead
  <2>1. ASSUME caller \in Logs PROVE SubSeq(t, 1, HeadSize) = SubSeq(buf, 1, HeadSize)
    BY <1>2, <1>6, <1>9, <2>1, HeadStays
  <2> HIDE DEF t
  <2> QED
    BY <1>1, <2>1 DEF LineHead
<1>11. Len(t) \in Nat /\ Len(buf) <= Len(t)
  <2>1. Len(t) = Len(buf) + Len(w) /\ Len(w) \in Nat
    BY <1>2, <1>6, ConcatLength, LengthNat
  <2> HIDE DEF t
  <2> QED
    BY <1>3, <2>1
<1> HIDE DEF t
<1>12. Fits(Message, LineHead, printed, Capacity)'
  BY <1>1, <1>4, <1>5, <1>8, <1>10
<1>13. caller \in Logs => HeadSize <= Len(t)
  BY <1>3, <1>9, <1>11
<1>14. printed' \in Seq(Directives)
  BY <1>1, <1>2, <1>3
<1> QED
  BY <1>1, <1>12, <1>13, <1>14 DEF PrefixInv

\* The end of the text: printf's Nul and the newline of a log line come behind it.
LEMMA PrefixInvFinish ==
    ASSUME PrefixInv, Finish, WithinBound'
    PROVE  PrefixInv'
<1> DEFINE Ended == {"printf"} \cup Logs
<1>1. /\ end = "no" /\ end' = "yes" /\ caller' = caller /\ format' = format
      /\ printed' = printed /\ Begun /\ (format = <<>> \/ Len(buf) >= Capacity)
  BY DEF Finish, Begun
<1>2. IsSeq(buf) /\ Len(buf) \in Nat /\ caller \in Callers /\ printed \in Seq(Directives)
  BY LengthNat DEF PrefixInv, WithinBound
<1>3. Capacity' = Capacity /\ Capacity \in Nat
  BY <1>1, <1>2, CapacityType DEF Capacity
<1>4. Message = buf
  BY <1>1 DEF Message
<1>5. caller \in Logs => HeadSize \in Nat /\ HeadSize <= Len(buf)
  BY <1>1, PrintfAssumption DEF PrefixInv, Begun
<1>6. \/ caller \in Ended /\ \E c : buf' = Append(buf, c)
      \/ caller \notin Ended /\ buf' = buf
  <2>1. buf' = CASE caller = "printf" -> Append(buf, Zero)
                 [] caller \in Logs -> Append(buf, Newline)
                 [] OTHER -> buf
    BY DEF Finish
  <2>2. CASE caller = "printf"
    BY <2>1, <2>2 DEF Logs
  <2>3. CASE caller # "printf" /\ caller \in Logs
    BY <2>1, <2>3
  <2>4. CASE caller \notin Ended
    BY <2>1, <2>4
  <2> QED
    BY <2>2, <2>3, <2>4
<1>7. /\ Message' = buf
      /\ caller \in Logs => /\ SubSeq(buf', 1, HeadSize) = SubSeq(buf, 1, HeadSize)
                            /\ HeadSize <= Len(buf')
  <2>1. CASE caller \in Ended
    <3>1. PICK c : buf' = Append(buf, c)
      BY <1>6, <2>1
    <3> DEFINE t == buf \o <<c>>
    <3>2. Append(buf, c) = t
      <4>1. PICK S : buf \in Seq(S)
        BY <1>2 DEF IsSeq
      <4> QED
        BY <4>1
    <3>3. IsSeq(<<c>>) /\ Len(t) = Len(buf) + 1
      BY <1>2, OneCharacter, ConcatLength
    <3>4. SubSeq(t, 1, Len(buf)) = buf
      <4>1. SubSeq(t, 1, Len(buf)) = SubSeq(buf, 1, Len(buf))
        BY <1>2, <3>3, HeadStays
      <4>2. PICK S : buf \in Seq(S)
        BY <1>2 DEF IsSeq
      <4>3. SubSeq(buf, 1, Len(buf)) = buf
        BY <4>2
      <4> QED
        BY <4>1, <4>3
    <3>5. caller \in Logs => SubSeq(t, 1, HeadSize) = SubSeq(buf, 1, HeadSize)
      BY <1>2, <1>5, <3>3, HeadStays
    <3> HIDE DEF t
    <3>6. Message' = SubSeq(t, 1, Len(t) - 1)
      BY <1>1, <2>1, <3>1, <3>2 DEF Message
    <3>7. Len(t) - 1 = Len(buf)
      BY <1>2, <3>3
    <3>8. caller \in Logs => HeadSize <= Len(t)
      BY <1>2, <1>5, <3>3
    <3> QED
      BY <3>1, <3>2, <3>4, <3>5, <3>6, <3>7, <3>8
  <2>2. CASE caller \notin Ended
    <3>1. Message' = buf' /\ buf' = buf /\ caller \notin Logs
      BY <1>1, <1>6, <2>2 DEF Message
    <3> QED
      BY <3>1
  <2> QED
    BY <2>1, <2>2
<1>8. LineHead' = LineHead
  BY <1>1, <1>7 DEF LineHead
<1>9. Fits(Message, LineHead, printed, Capacity)'
  <2>1. Fits(buf, LineHead, printed, Capacity)
    BY <1>1, <1>4 DEF PrefixInv
  <2> QED
    BY <1>1, <1>3, <1>7, <1>8, <2>1
<1>10. format = <<>> \/ Len(buf) = Capacity
  <2>1. Len(buf) <= Capacity
    BY <1>1 DEF PrefixInv, WithinBound
  <2> QED
    BY <1>1, <1>2, <1>3, <2>1
<1>11. Begun'
  <2>1. ASSUME caller \in Logs PROVE buf' # <<>>
    <3>1. HeadSize <= Len(buf') /\ HeadSize \in Nat \ {0}
      BY <1>7, <2>1, PrintfAssumption
    <3> QED
      BY <3>1, EmptySeq
  <2> QED
    BY <1>1, <2>1 DEF Begun
<1>12. (format = <<>> \/ Len(Message) = Capacity)'
  BY <1>1, <1>3, <1>7, <1>10
<1>13. printed' \in Seq(Directives)
  BY <1>1, <1>2
<1> QED
  BY <1>1, <1>7, <1>9, <1>11, <1>12, <1>13 DEF PrefixInv

LEMMA PrefixInvStep == PrefixInv /\ [PrintNext]_printVars => PrefixInv'
<1> SUFFICES ASSUME PrefixInv, [PrintNext]_printVars PROVE PrefixInv'
  OBVIOUS
<1>1. WithinBound'
  BY WithinBoundStep DEF PrefixInv
<1>2. CASE UNCHANGED printVars
  BY <1>1, <1>2 DEF PrefixInv, printVars, Begun, Message, LineHead, Capacity
<1> QED
  BY <1>1, <1>2, PrefixInvHead, PrefixInvTurn, PrefixInvFinish DEF PrintNext

\* dl_snprintf, dl_printf and the log write what fits of the text that
\* dl_sprintf would write, whatever the formats, arguments and buffer sizes:
\* no conversion cuts off more than it has to or loses what it has written.
THEOREM PrintedIsPrefixAlways == PrintSpec => []PrintedIsPrefix
<1>1. PrefixInv => PrintedIsPrefix
  <2> SUFFICES ASSUME PrefixInv, printed # <<>>
               PROVE  /\ Message = Cut(Whole(LineHead, printed), Capacity)
                      /\ format = <<>> \/ end = "no" \/ Len(Message) = Capacity
    BY DEF PrintedIsPrefix
  <2>1. end \in {"no", "yes"}
    BY DEF PrefixInv, WithinBound
  <2>2. Begun
    <3>1. ASSUME caller \in Logs PROVE buf # <<>>
      <4>1. HeadSize <= Len(buf) /\ HeadSize \in Nat \ {0}
        BY <3>1, PrintfAssumption DEF PrefixInv
      <4> QED
        BY <4>1, EmptySeq
    <3> QED
      BY <3>1 DEF Begun
  <2>3. Message = Cut(Whole(LineHead, printed), Capacity)
    BY <2>2 DEF PrefixInv, Fits
  <2>4. format = <<>> \/ end = "no" \/ Len(Message) = Capacity
    BY <2>1 DEF PrefixInv
  <2> QED
    BY <2>3, <2>4
<1> QED
  BY <1>1, PrefixInvInit, PrefixInvStep, PTL DEF PrintSpec

-------------------------------------------------------------------------------
(* Searching with a pattern.                                                 *)

\* Each piece that a replacement keeps ends where the next match begins, and
\* that match ends where the next piece begins.
Chained ==
    /\ \A i \in 1 .. Len(pieces) - 1 : matches[pieces[i][2]] = pieces[i + 1][1]
    /\ \A i \in DOMAIN pieces : pieces[i][1] <= pieces[i][2]
    /\ pieces # <<>> => pieces[1][1] = 0

\* The next piece begins where the match behind the last one ended.
AtOffset == IF pieces = <<>> THEN offset = 0 ELSE matches[pieces[Len(pieces)][2]] = offset

Complete == pieces # <<>> /\ pieces[Len(pieces)][2] = SubjectLen

MatchType ==
    /\ matches \in [Ends -> Ends \cup {NoMatch}]
    /\ \A b \in Ends : matches[b] = NoMatch \/ matches[b] >= b
    /\ pc \in {"start", "loop", "last", "done"}
    /\ offset \in Ends /\ pieces \in Seq(Ends \X Ends)

\* What has been returned goes with the place; only a replacement has a text.
Returned ==
    /\ pc # "done" => result = "none"
    /\ pc = "start" => pieces = <<>> /\ offset = 0 /\ held = {}
    /\ pc = "done" /\ result # "null" => held = {}

MatchInv ==
    /\ MatchType
    /\ Returned
    /\ fn = "replace" =>
        /\ Chained
        /\ pc \in {"start", "loop"} => AtOffset
        /\ pc = "last" \/ result = "text" => Complete

\* The leftmost match is one of those that are left.
LEMMA BeginIs ==
    ASSUME MatchType, Begins # {}
    PROVE  /\ Begin \in Ends /\ offset <= Begin /\ matches[Begin] \in Ends
<1>1. SubjectLen \in Nat /\ offset \in Nat
  BY MatchAssumption DEF MatchType, Ends
<1>2. Begins \subseteq Nat
  BY <1>1 DEF Begins
<1>3. \E b \in Begins : \A c \in Begins : b <= c
  BY <1>2, LeastOf
<1>4. Begin \in Begins
  BY <1>3 DEF Begin
<1>5. Begin \in offset .. SubjectLen /\ matches[Begin] # NoMatch
  BY <1>4 DEF Begins
<1>6. Begin \in Ends /\ offset <= Begin
  BY <1>1, <1>5 DEF Ends
<1>7. matches[Begin] \in Ends \cup {NoMatch}
  BY <1>6 DEF MatchType
<1> QED
  BY <1>5, <1>6, <1>7

\* One more piece, from the place where the last match ended.
LEMMA ChainedMore ==
    ASSUME MatchType, Chained, AtOffset, NEW e \in Ends, offset <= e,
           pieces' = Append(pieces, <<offset, e>>), matches' = matches
    PROVE  /\ Chained' /\ pieces' \in Seq(Ends \X Ends)
           /\ pieces' # <<>> /\ pieces'[Len(pieces')][2] = e
<1> DEFINE n == Len(pieces)
           p == <<offset, e>>
           q == Append(pieces, p)
<1>1. pieces \in Seq(Ends \X Ends) /\ offset \in Ends
  BY DEF MatchType
<1>2. n \in Nat /\ p \in Ends \X Ends /\ p[1] = offset /\ p[2] = e
  BY <1>1
<1>3. /\ q \in Seq(Ends \X Ends) /\ Len(q) = n + 1 /\ DOMAIN q = 1 .. n + 1
      /\ q[n + 1] = p /\ \A i \in 1 .. n : q[i] = pieces[i]
  BY <1>1, <1>2
<1>4. pieces = <<>> <=> n = 0
  BY <1>1
<1>5. DOMAIN pieces = 1 .. n
  BY <1>1
<1> HIDE DEF n, p, q
<1>6. ASSUME NEW i \in 1 .. n PROVE matches[q[i][2]] = q[i + 1][1]
  <2>1. CASE i = n
    <3>1. pieces # <<>> /\ q[i] = pieces[n] /\ q[i + 1] = p
      BY <1>2, <1>3, <1>4, <2>1
    <3>2. matches[pieces[n][2]] = offset
      BY <3>1 DEF AtOffset, n
    <3> QED
      BY <1>2, <3>1, <3>2
  <2>2. CASE i # n
    <3>1. i \in 1 .. n - 1 /\ i + 1 \in 1 .. n
      BY <1>2, <2>2
    <3>2. q[i] = pieces[i] /\ q[i + 1] = pieces[i + 1]
      BY <1>3, <3>1
    <3>3. matches[pieces[i][2]] = pieces[i + 1][1]
      BY <3>1 DEF Chained, n
    <3> QED
      BY <3>2, <3>3
  <2> QED
    BY <2>1, <2>2
<1>7. ASSUME NEW i \in 1 .. n + 1 PROVE q[i][1] <= q[i][2]
  <2>1. CASE i = n + 1
    BY <1>2, <1>3, <2>1
  <2>2. CASE i # n + 1
    <3>1. i \in 1 .. n
      BY <1>2, <2>2
    <3>2. pieces[i][1] <= pieces[i][2]
      BY <1>5, <3>1 DEF Chained
    <3> QED
      BY <1>3, <3>1, <3>2
  <2> QED
    BY <2>1, <2>2
<1>8. q[1][1] = 0
  <2>1. CASE n = 0
    BY <1>2, <1>3, <1>4, <2>1 DEF AtOffset
  <2>2. CASE n # 0
    <3>1. 1 \in 1 .. n
      BY <1>2, <2>2
    <3> QED
      BY <1>3, <1>4, <2>2, <3>1 DEF Chained
  <2> QED
    BY <2>1, <2>2
<1>9. pieces' = q
  BY DEF p, q
<1>10. Len(q) - 1 = n /\ q # <<>> /\ q[Len(q)][2] = e
  BY <1>2, <1>3
<1>11. Chained'
  <2>1. \A i \in 1 .. Len(q) - 1 : matches[q[i][2]] = q[i + 1][1]
    BY <1>6, <1>10
  <2>2. \A i \in DOMAIN q : q[i][1] <= q[i][2]
    BY <1>3, <1>7
  <2> QED
    BY <1>8, <1>9, <2>1, <2>2 DEF Chained
<1> QED
  BY <1>3, <1>9, <1>10, <1>11

LEMMA MatchInvInit == MatchInit => MatchInv
<1> SUFFICES ASSUME MatchInit PROVE MatchInv
  OBVIOUS
<1>1. /\ matches \in [Ends -> Ends \cup {NoMatch}]
      /\ \A b \in Ends : matches[b] = NoMatch \/ matches[b] >= b
      /\ pc = "start" /\ offset = 0 /\ pieces = <<>> /\ result = "none" /\ held = {}
  BY DEF MatchInit
<1>2. MatchType
  BY <1>1, MatchAssumption DEF MatchType, Ends
<1>3. Chained /\ AtOffset
  BY <1>1 DEF Chained, AtOffset
<1> QED
  BY <1>1, <1>2, <1>3 DEF MatchInv, Returned

LEMMA MatchInvStep == MatchInv /\ [MatchNext]_matchVars => MatchInv'
<1> SUFFICES ASSUME MatchInv, [MatchNext]_matchVars PROVE MatchInv'
  OBVIOUS
<1>0. MatchType /\ Returned
  BY DEF MatchInv
<1>1. ASSUME BlankPattern PROVE MatchInv'
  <2>1. /\ pc = "start" /\ pieces' = <<<<0, SubjectLen>>>> /\ pc' = "done"
        /\ result' = "text" /\ held' = {} /\ matches' = matches /\ offset' = offset
    BY <1>1 DEF BlankPattern, Return
  <2>2. SubjectLen \in Nat /\ 0 \in Ends /\ SubjectLen \in Ends
    BY MatchAssumption DEF Ends
  <2>3. MatchType'
    BY <1>0, <2>1, <2>2 DEF MatchType
  <2>4. Chained' /\ Complete'
    BY <2>1, <2>2 DEF Chained, Complete
  <2> QED
    BY <2>1, <2>3, <2>4 DEF MatchInv, Returned
<1>2. ASSUME Prepare PROVE MatchInv'
  <2>1. /\ pc = "start" /\ UNCHANGED <<fn, matches, offset, pieces>>
        /\ \/ pc' = "loop" /\ result' = "none"
           \/ pc' = "done" /\ result' = "null"
           \/ pc' = "done" /\ fn = "match" /\ result' = "count" /\ held' = {}
    BY <1>2 DEF Prepare, Return
  <2>2. MatchType'
    BY <1>0, <2>1 DEF MatchType
  <2>3. fn = "replace" => Chained' /\ AtOffset'
    BY <2>1 DEF MatchInv, Chained, AtOffset
  <2> QED
    BY <2>1, <2>2, <2>3 DEF MatchInv, Returned
<1>3. ASSUME Match PROVE MatchInv'
  <2>1. /\ pc = "loop" /\ Begins # {} /\ pieces' = pieces \o Taken /\ offset' = matches[Begin]
        /\ pc' = (IF fn \in {"replace", "capture_all"} THEN "loop" ELSE "last")
        /\ UNCHANGED <<fn, matches, result, held>>
    BY <1>3 DEF Match
  <2>2. Begin \in Ends /\ offset <= Begin /\ matches[Begin] \in Ends
    BY <1>0, <2>1, BeginIs
  <2>3. Taken \in Seq(Ends \X Ends)
    <3> DEFINE before == <<offset, Begin>>
               match == <<Begin, matches[Begin]>>
    <3>1. before \in Ends \X Ends /\ match \in Ends \X Ends
      BY <1>0, <2>2 DEF MatchType
    <3>2. Taken = <<before>> \/ Taken = <<>> \/ Taken = <<match>>
      BY DEF Taken
    <3> HIDE DEF before, match
    <3>3. <<before>> \in Seq(Ends \X Ends) /\ <<match>> \in Seq(Ends \X Ends)
      BY <3>1
    <3>4. <<>> \in Seq(Ends \X Ends)
      OBVIOUS
    <3> QED
      BY <3>2, <3>3, <3>4
  <2>4. MatchType'
    <3>1. pieces \in Seq(Ends \X Ends)
      BY <1>0 DEF MatchType
    <3>2. pieces' \in Seq(Ends \X Ends)
      BY <2>1, <2>3, <3>1
    <3>3. offset' \in Ends /\ pc' \in {"loop", "last"} /\ matches' = matches
      BY <2>1, <2>2
    <3> QED
      BY <1>0, <3>2, <3>3 DEF MatchType
  <2>5. Returned'
    BY <1>0, <2>1 DEF Returned
  <2>6. ASSUME fn = "replace" PROVE Chained' /\ AtOffset' /\ pc' = "loop" /\ result' = "none"
    <3>1. pieces' = Append(pieces, <<offset, Begin>>)
      BY <1>0, <2>1, <2>6 DEF Taken, MatchType
    <3>2. Chained /\ AtOffset
      BY <2>1, <2>6 DEF MatchInv
    <3>3. Chained' /\ pieces' # <<>> /\ pieces'[Len(pieces')][2] = Begin
      BY <1>0, <2>1, <2>2, <3>1, <3>2, ChainedMore
    <3>4. AtOffset'
      BY <2>1, <3>3 DEF AtOffset
    <3> QED
      BY <1>0, <2>1, <2>6, <3>3, <3>4 DEF Returned
  <2> QED
    BY <2>1, <2>4, <2>5, <2>6 DEF MatchInv
<1>4. ASSUME Unmatched PROVE MatchInv'
  <2>1. /\ pc = "loop" /\ pc' = "last" /\ UNCHANGED <<fn, matches, offset, result, held>>
        /\ pieces' = IF fn = "replace" THEN Append(pieces, <<offset, SubjectLen>>) ELSE pieces
    BY <1>4 DEF Unmatched
  <2>2. SubjectLen \in Ends /\ offset <= SubjectLen /\ offset \in Ends
    BY <1>0, MatchAssumption DEF Ends, MatchType
  <2>3. ASSUME fn = "replace"
        PROVE  Chained' /\ Complete' /\ pieces' \in Seq(Ends \X Ends)
    <3>1. Chained /\ AtOffset
      BY <2>1, <2>3 DEF MatchInv
    <3>2. pieces' = Append(pieces, <<offset, SubjectLen>>)
      BY <2>1, <2>3
    <3> QED
      BY <1>0, <2>1, <2>2, <3>1, <3>2, ChainedMore DEF Complete
  <2>4. MatchType'
    BY <1>0, <2>1, <2>3 DEF MatchType
  <2>5. Returned'
    BY <1>0, <2>1 DEF Returned
  <2> QED
    BY <2>1, <2>3, <2>4, <2>5 DEF MatchInv
<1>5. ASSUME Leave PROVE MatchInv'
  <2>1. pc = "last" /\ pc' = "done" /\ held' = {} /\ UNCHANGED <<fn, matches, offset, pieces>>
    BY <1>5 DEF Leave, Return
  <2>2. MatchType'
    BY <1>0, <2>1 DEF MatchType
  <2>3. fn = "replace" => Chained' /\ Complete'
    BY <2>1 DEF MatchInv, Chained, Complete
  <2> QED
    BY <2>1, <2>2, <2>3 DEF MatchInv, Returned
<1>6. ASSUME MatchError PROVE MatchInv'
  <2>1. /\ pc = "loop" /\ UNCHANGED <<fn, matches, offset, pieces>>
        /\ IF fn = "replace" THEN pc' = "done" /\ result' = "null" /\ held' = {}
           ELSE pc' = "last" /\ result' = result /\ held' = held
    BY <1>6 DEF MatchError, Return
  <2>2. MatchType'
    BY <1>0, <2>1 DEF MatchType
  <2>3. fn = "replace" => Chained'
    BY <2>1 DEF MatchInv, Chained
  <2> QED
    BY <1>0, <2>1, <2>2, <2>3 DEF MatchInv, Returned
<1>7. CASE UNCHANGED matchVars
  BY <1>7 DEF MatchInv, MatchType, Returned, Chained, AtOffset, Complete, matchVars
<1> QED
  BY <1>1, <1>2, <1>3, <1>4, <1>5, <1>6, <1>7 DEF MatchNext, MatchProgress

\* What dl_str_replace_re leaves of the subject and what the pattern matched
\* are the whole subject, each once and in its order, for every subject and
\* every set of matches; and no function of dl_re.c that came to match keeps
\* its match data, its code or its temporary pool.
THEOREM MatchLoopAlways == MatchSpec => [](PiecesTile /\ GivenBack)
<1>1. MatchInv => PiecesTile /\ GivenBack
  BY DEF MatchInv, Returned, Chained, Complete, PiecesTile, GivenBack
<1> QED
  BY <1>1, MatchInvInit, MatchInvStep, PTL DEF MatchSpec
================================================================================
