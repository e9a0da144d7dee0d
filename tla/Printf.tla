-------------------------------- MODULE Printf --------------------------------
(***************************************************************************)
(* dl_vslprintf and its callers: dl_sprintf, dl_snprintf, dl_slprintf,     *)
(* dl_printf, dl_exit_msg, dl_log_error and exit_log.  A format is a       *)
(* sequence of directives, each with its argument and its flags as they    *)
(* are after parsing; a character is its code.  One turn of the loop over  *)
(* the format is one step.  No conversion looks at the size of the buffer  *)
(* once for all: each one cuts off what it writes by itself.               *)
(***************************************************************************)
EXTENDS Integers, Sequences, FiniteSets

CONSTANTS Directives,  \* the directives that formats are made of
          MaxFormat,   \* their number in a format
          BufferSize,  \* of the caller's buffer; 1024 for printf and the log
          HeadSize,    \* characters before the message of a log line
          LogLevel,    \* log->log_level
          UintMod,     \* UINT32_MAX + 1
          MaxDigits,   \* DL_INT64_LEN
          Boundless    \* the room that dl_sprintf has: last = (void *) -1

ASSUME PrintfAssumption ==
    /\ BufferSize \in Nat /\ HeadSize \in Nat /\ BufferSize > HeadSize /\ HeadSize > 0
    /\ MaxFormat \in Nat /\ LogLevel \in Nat /\ MaxDigits \in Nat \ {0}
    /\ Boundless \in Nat /\ BufferSize <= Boundless

\* An argument is what its directive asks for.
ASSUME DirectivesAssumption ==
    \A d \in Directives :
        \/ d.conv = "char"
        \/ d.conv \in {"text", "cstring"} /\ d.s \in Seq(Nat)
        \/ d.conv = "number" /\ d.width \in Nat
        \/ d.conv = "float" /\ d.width \in Nat /\ d.frac \in Nat

Minus == 45
Dot == 46
Zero == 0
Newline == 10

Least(a, b) == IF a < b THEN a ELSE b

\* The characters of s for which there is room.
Cut(s, room) == SubSeq(s, 1, Least(Len(s), room))

\* The digits that the loops of dl_sprintf_num leave in temp.
Digits(v, base, letter) ==
    LET n == 1 + Cardinality({k \in 1 .. MaxDigits - 1 : v >= base ^ k})
        digit(i) == (v \div base ^ (n - i)) % base
    IN  [i \in 1 .. n |-> digit(i) + IF digit(i) < 10 THEN 48 ELSE letter - 10]

\* Mutant: the copy of the number does not know of the padding.
NumUnsafe(v, base, letter, zero, width, room) ==
    LET digits == Digits(v, base, letter)
        short == IF width > Len(digits) THEN width - Len(digits) ELSE 0
        pad == Least(short, room)
    IN  [i \in 1 .. pad |-> zero] \o Cut(digits, room)

\* dl_sprintf_num: padding as long as there is room, then a "number safe copy".
dl_sprintf_num(v, base, letter, zero, width, room) ==
    LET digits == Digits(v, base, letter)
        short == IF width > Len(digits) THEN width - Len(digits) ELSE 0
        pad == Least(short, room)
    IN  [i \in 1 .. pad |-> zero] \o Cut(digits, room - pad)

\* %d, %l, %D, %L and %p: the minus is written without a look at the room,
\* of which there is one character at least.
Number(d, room) ==
    IF d.sign /\ d.v < 0
    THEN <<Minus>> \o dl_sprintf_num(-d.v, d.base, d.letter, d.zero, d.width, room - 1)
    ELSE dl_sprintf_num(IF d.sign THEN d.v ELSE d.v % UintMod,
                        d.base, d.letter, d.zero, d.width, room)

\* %f of a number of hundredths: the fraction is rounded and may carry.
Float(d, room) ==
    LET v == IF d.v < 0 THEN -d.v ELSE d.v
        scale == 10 ^ d.frac
        rounded == ((v % 100) * scale + 50) \div 100
        carry == IF d.frac > 0 /\ rounded = scale THEN 1 ELSE 0
        minus == IF d.v < 0 THEN <<Minus>> ELSE <<>>
        whole == minus \o dl_sprintf_num(v \div 100 + carry, 10, 0, d.zero, d.width,
                                         room - Len(minus))
        dot == whole \o Cut(<<Dot>>, room - Len(whole))
    IN  IF d.frac = 0 THEN whole
        ELSE dot \o dl_sprintf_num(IF carry = 1 THEN 0 ELSE rounded, 10, 0, 48, d.frac,
                                   room - Len(dot))

\* %s ends at the first Nul.
UpToNul(s) == SubSeq(s, 1, Cardinality({i \in DOMAIN s : \A j \in 1 .. i : s[j] # Zero}))

\* What a directive writes; "char" is a plain character and %c, %Z, %N and %%.
Put(d, room) ==
    CASE d.conv = "char" -> <<d.c>>
      [] d.conv = "text" -> Cut(d.s, room)
      [] d.conv = "cstring" -> Cut(UpToNul(d.s), room)
      [] d.conv = "number" -> Number(d, room)
      [] d.conv = "float" -> Float(d, room)

-------------------------------------------------------------------------------
VARIABLES caller,  \* "sprintf", "snprintf", "printf", "log" or "exit_log"
          format,  \* the directives not yet processed
          buf,     \* the characters written
          printed, \* history: the directives processed
          end      \* whether the caller has finished

printVars == <<caller, format, buf, printed, end>>

Callers == {"sprintf", "snprintf", "printf", "log", "exit_log"}
Logs == {"log", "exit_log"}

\* last - buf at the beginning; dl_sprintf has no bound.
Capacity ==
    CASE caller = "sprintf" -> Boundless
      [] caller = "snprintf" -> BufferSize
      [] OTHER -> BufferSize - 1

PrintInit ==
    /\ caller \in Callers
    /\ format \in UNION {[1 .. n -> Directives] : n \in 0 .. MaxFormat}
    /\ buf = <<>> /\ printed = <<>> /\ end = "no"

\* dl_log_core writes the date and the level first, without a bound;
\* dl_log_error does not write a message above the log's level, exit_log does.
LogHead(level) ==
    /\ caller \in Logs /\ end = "no" /\ buf = <<>>
    /\ IF caller = "log" /\ level > LogLevel
       THEN end' = "skipped" /\ UNCHANGED buf
       ELSE buf' = [i \in 1 .. HeadSize |-> level] /\ UNCHANGED end
    /\ UNCHANGED <<caller, format, printed>>

\* "buf < last means that we could copy at least one character"
dl_vslprintf ==
    /\ end = "no" /\ format # <<>>
    /\ Len(buf) < Capacity
    /\ caller \in Logs => buf # <<>>
    /\ buf' = buf \o Put(Head(format), Capacity - Len(buf))
    /\ format' = Tail(format)
    /\ printed' = Append(printed, Head(format))
    /\ UNCHANGED <<caller, end>>

\* dl_printf ends the text with a Nul, the log its line with a newline, for
\* which Capacity has left a character.
Finish ==
    /\ end = "no"
    /\ format = <<>> \/ Len(buf) >= Capacity
    /\ caller \in Logs => buf # <<>>
    /\ buf' = CASE caller = "printf" -> Append(buf, Zero)
                [] caller \in Logs -> Append(buf, Newline)
                [] OTHER -> buf
    /\ end' = "yes"
    /\ UNCHANGED <<caller, format, printed>>

PrintNext == dl_vslprintf \/ Finish \/ \E level \in LogLevel .. LogLevel + 1 : LogHead(level)

PrintSpec == PrintInit /\ [][PrintNext]_printVars

-------------------------------------------------------------------------------
\* No caller's buffer is exceeded.
NeverPast == caller # "sprintf" => Len(buf) <= BufferSize

\* What the directives write one after the other when nothing is cut off.
Whole(head, directives) ==
    LET whole[n \in 0 .. Len(directives)] ==
            IF n = 0 THEN head ELSE whole[n - 1] \o Put(directives[n], Boundless)
    IN  whole[Len(directives)]

\* The text without printf's Nul and the newline of a log.
Message ==
    IF end = "yes" /\ caller \in {"printf"} \cup Logs THEN SubSeq(buf, 1, Len(buf) - 1)
    ELSE buf

LineHead == IF caller \in Logs THEN SubSeq(buf, 1, HeadSize) ELSE <<>>

\* A bounded output is what fits of the unbounded one, for every directive
\* behind every other; the log's newline and printf's Nul have room.
PrintedIsPrefix ==
    printed # <<>> =>
        /\ Message = Cut(Whole(LineHead, printed), Capacity)
        /\ format = <<>> \/ end = "no" \/ Len(Message) = Capacity
================================================================================
