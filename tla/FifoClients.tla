------------------------------ MODULE FifoClients ------------------------------
(***************************************************************************)
(* example/fifo_2.c: the main thread sends the ages 0 .. NUM - 1 one by    *)
(* one; two consumer threads take them out under a mutex, because two      *)
(* dl_fifo_out calls need a lock against each other, and print what they   *)
(* got after releasing it.  With one thread this is example/fifo.c.        *)
(***************************************************************************)
EXTENDS Fifo

CONSTANTS Threads,  \* consumer threads
          NUM,      \* DL_FIFO_NUM
          Nobody    \* the mutex is free

ASSUME ClientsAssumption == NUM \in Nat \ {0} /\ NUM = MaxTotal /\ Nobody \notin Threads

VARIABLES mtx,      \* owner of the mutex
          out_sum,  \* elements taken so far, protected by mtx
          tpc,      \* control position of each consumer thread
          age,      \* p.age of each thread
          printed,  \* the ages each thread has printed
          mpc       \* control position of main

cvarsC == <<mtx, out_sum, tpc, age, printed, mpc>>
allVars == <<vars, cvarsC>>

InitC ==
    /\ Init
    /\ mtx = Nobody /\ out_sum = 0
    /\ tpc = [t \in Threads |-> "lock"]
    /\ age = [t \in Threads |-> Undef]
    /\ printed = [t \in Threads |-> <<>>]
    /\ mpc = "send"

Goto(t, l) == tpc' = [tpc EXCEPT ![t] = l]

-------------------------------------------------------------------------------
(* main: "again: if (dl_fifo_in(fifo, &p, 1) != 1) goto again".              *)

MainSend ==
    /\ mpc = "send"
    /\ \/ InCall(1) \/ dl_fifo_copy_in
       \/ InReturn /\ sent' < NUM
    /\ UNCHANGED cvarsC

MainSentAll ==
    /\ mpc = "send"
    /\ InReturn /\ sent' = NUM
    /\ mpc' = "join"
    /\ UNCHANGED <<mtx, out_sum, tpc, age, printed>>

\* pthread_join of both threads, then dl_fifo_destroy.
MainJoin ==
    /\ mpc = "join"
    /\ \A t \in Threads : tpc[t] = "done"
    /\ mpc' = "done"
    /\ UNCHANGED <<vars, mtx, out_sum, tpc, age, printed>>

-------------------------------------------------------------------------------
(* thread_func and thread_func2.                                             *)

\* Mutant: dl_fifo_out is called without the mutex.
LockFree(t) ==
    /\ tpc[t] = "lock"
    /\ mtx' = t
    /\ Goto(t, "test")
    /\ UNCHANGED <<vars, out_sum, age, printed, mpc>>

Lock(t) ==
    /\ tpc[t] = "lock"
    /\ mtx = Nobody
    /\ mtx' = t
    /\ Goto(t, "test")
    /\ UNCHANGED <<vars, out_sum, age, printed, mpc>>

\* All taken: unlock and leave the loop.
LeaveLoop(t) ==
    /\ tpc[t] = "test"
    /\ out_sum = NUM
    /\ mtx' = Nobody
    /\ Goto(t, "done")
    /\ UNCHANGED <<vars, out_sum, age, printed, mpc>>

\* Mutant: the loop does not look at out_sum.
EnterAgainAlways(t) ==
    /\ tpc[t] = "test"
    /\ Goto(t, "again")
    /\ UNCHANGED <<vars, mtx, out_sum, age, printed, mpc>>

EnterAgain(t) ==
    /\ tpc[t] = "test"
    /\ out_sum # NUM
    /\ Goto(t, "again")
    /\ UNCHANGED <<vars, mtx, out_sum, age, printed, mpc>>

\* One attempt of dl_fifo_out; after an empty-handed one the loop goes to
\* "again" with the mutex still held.
TakeCall(t) ==
    /\ tpc[t] = "again"
    /\ OutCall(1, "out")
    /\ Goto(t, "copy")
    /\ UNCHANGED <<mtx, out_sum, age, printed, mpc>>

TakeCopy(t) ==
    /\ tpc[t] = "copy"
    /\ dl_fifo_copy_out
    /\ UNCHANGED cvarsC

TakeReturn(t) ==
    /\ tpc[t] = "copy"
    /\ OutReturn
    /\ IF clen = 1
       THEN /\ out_sum' = out_sum + 1
            /\ age' = [age EXCEPT ![t] = dst[0]]
            /\ Goto(t, "unlock")
       ELSE /\ Goto(t, "again")
            /\ UNCHANGED <<out_sum, age>>
    /\ UNCHANGED <<mtx, printed, mpc>>

Unlock(t) ==
    /\ tpc[t] = "unlock"
    /\ mtx' = Nobody
    /\ Goto(t, "print")
    /\ UNCHANGED <<vars, out_sum, age, printed, mpc>>

PrintAge(t) ==
    /\ tpc[t] = "print"
    /\ printed' = [printed EXCEPT ![t] = Append(@, age[t])]
    /\ Goto(t, "lock")
    /\ UNCHANGED <<vars, mtx, out_sum, age, mpc>>

-------------------------------------------------------------------------------

Main == MainSend \/ MainSentAll \/ MainJoin

Thread(t) ==
    \/ Lock(t) \/ LeaveLoop(t) \/ EnterAgain(t)
    \/ TakeCall(t) \/ TakeCopy(t) \/ TakeReturn(t)
    \/ Unlock(t) \/ PrintAge(t)

Finished == mpc = "done"

NextC == Main \/ \E t \in Threads : Thread(t)

SpecC == InitC /\ [][NextC \/ (Finished /\ UNCHANGED allVars)]_allVars

\* Every runnable thread keeps being scheduled.  No fairness is asked of the
\* mutex: a thread that starves on it gets it once the others have left.
FairSpecC ==
    /\ SpecC
    /\ WF_allVars(Main)
    /\ \A t \in Threads : WF_allVars(Thread(t))

-------------------------------------------------------------------------------
(* Properties.                                                               *)

Ages(t) == {printed[t][i] : i \in 1 .. Len(printed[t])}

\* fifo_2.c: no age is printed twice, by one thread or by both, each thread
\* prints in the order sent, and a printed age is one that main has sent.
EachAgeOnce ==
    /\ \A t \in Threads :
          /\ \A i, j \in 1 .. Len(printed[t]) :
                i < j => printed[t][i] < printed[t][j]
          /\ Ages(t) \subseteq 0 .. sent - 1
    /\ \A t, u \in Threads : t # u => Ages(t) \cap Ages(u) = {}

\* fifo_2.c: main returns from both joins, and then every age was printed.  A
\* consumer spins inside the mutex while the ring is empty, the other waits for
\* the mutex, and main spins while the ring is full.
AllPrintedInTheEnd ==
    <>(Finished /\ UNION {Ages(t) : t \in Threads} = 0 .. NUM - 1)

\* fifo_2.c: dl_fifo_out calls of two threads never overlap, and out_sum, which
\* decides when the loops end, is exactly what the ring has handed out whenever
\* the mutex is free.
LockProtectsOut ==
    /\ \A t \in Threads :
          tpc[t] \in {"test", "again", "copy", "unlock"} => mtx = t
    /\ cpc # "idle" => \E t \in Threads : tpc[t] = "copy"
    /\ mtx = Nobody => out_sum = rcvd
================================================================================
