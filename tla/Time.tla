--------------------------------- MODULE Time ---------------------------------
(***************************************************************************)
(* dl_time.c: each thread caches the time of day, and a flag that all      *)
(* threads share says when to read the clock again.  It is set when the    *)
(* program starts; a timer that would set it again was never written.      *)
(* localtime answers in memory that the threads share as well.             *)
(***************************************************************************)
EXTENDS Integers

CONSTANTS Threads,
          Second,   \* ticks of the clock in a second, 1000 in the code
          MaxNow    \* bound: the clock stops there

VARIABLES now,                  \* the clock
          dl_event_timer_alarm, \* TRUE for 1
          tm,                   \* the second that localtime's memory shows
          sec, msec, dl_time_buf,   \* per thread; the buffer shows a second
          pc, call,             \* where each thread is, and in which function
          answer                \* what the last call of each thread answered

cache == <<sec, msec, dl_time_buf>>
vars == <<now, dl_event_timer_alarm, tm, cache, pc, call, answer>>

Units == {"ms", "s", "datetime"}

\* Static variables start as zero.
Init ==
    /\ now = Second /\ dl_event_timer_alarm = TRUE /\ tm = 0
    /\ sec = [th \in Threads |-> 0] /\ msec = sec /\ dl_time_buf = sec
    /\ pc = [th \in Threads |-> "out"]
    /\ call = [th \in Threads |-> [unit |-> "s", forced |-> TRUE, began |-> now]]
    /\ answer = [th \in Threads |-> now]

Tick == now < MaxNow /\ now' = now + 1
        /\ UNCHANGED <<dl_event_timer_alarm, tm, cache, pc, call, answer>>

Go(th, from, to) == pc[th] = from /\ pc' = [pc EXCEPT ![th] = to]

\* dl_get_time_ms, dl_get_time_s and dl_get_datetime, and those that end in _f
Begin(th, unit, forced) ==
    /\ Go(th, "out", IF forced \/ dl_event_timer_alarm THEN "update" ELSE "return")
    /\ call' = [call EXCEPT ![th] = [unit |-> unit, forced |-> forced, began |-> now]]
    /\ UNCHANGED <<now, dl_event_timer_alarm, tm, cache, answer>>

\* dl_update_time: gettimeofday, localtime, strftime
Gettimeofday(th) ==
    /\ Go(th, "update", "local")
    /\ sec' = [sec EXCEPT ![th] = now \div Second]
    /\ msec' = [msec EXCEPT ![th] = now]
    /\ UNCHANGED <<now, dl_event_timer_alarm, tm, dl_time_buf, call, answer>>

Localtime(th) ==
    /\ Go(th, "local", "format")
    /\ tm' = sec[th]
    /\ UNCHANGED <<now, dl_event_timer_alarm, cache, call, answer>>

Strftime(th) ==
    /\ Go(th, "format", IF call[th].forced THEN "return" ELSE "clear")
    /\ dl_time_buf' = [dl_time_buf EXCEPT ![th] = tm]
    /\ UNCHANGED <<now, dl_event_timer_alarm, tm, sec, msec, call, answer>>

Clear(th) ==
    /\ Go(th, "clear", "return")
    /\ dl_event_timer_alarm' = FALSE
    /\ UNCHANGED <<now, tm, cache, call, answer>>

\* The answer in ticks.
Return(th) ==
    /\ Go(th, "return", "out")
    /\ answer' = [answer EXCEPT ![th] =
                     CASE call[th].unit = "ms" -> msec[th]
                       [] call[th].unit = "s" -> sec[th] * Second
                       [] call[th].unit = "datetime" -> dl_time_buf[th] * Second]
    /\ UNCHANGED <<now, dl_event_timer_alarm, tm, cache, call>>

Next ==
    \/ Tick
    \/ \E th \in Threads :
          \/ \E unit \in Units, forced \in BOOLEAN : Begin(th, unit, forced)
          \/ Gettimeofday(th) \/ Localtime(th) \/ Strftime(th) \/ Clear(th) \/ Return(th)

Spec == Init /\ [][Next]_vars

-------------------------------------------------------------------------------
(* Properties.                                                               *)

\* "cache the time, do not update time within 1 second" (dl_time.c:4): what a
\* call answers was the time at most one second before the call (and, as seconds
\* are whole, less than two seconds in their case).
AtMostASecondOld ==
    \A th \in Threads :
        pc[th] = "out" =>
            answer[th] > call[th].began - (IF call[th].unit = "ms" THEN 1 ELSE 2) * Second - 1
================================================================================
