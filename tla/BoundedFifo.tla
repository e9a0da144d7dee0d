------------------------------ MODULE BoundedFifo ------------------------------
(***************************************************************************)
(* What dl_fifo promises to one producer and one consumer: a bounded queue *)
(* that accepts as much of a batch as fits, hands elements out in the      *)
(* order in which they came, and lets the consumer look without removing.  *)
(* The producer's stream is 0, 1, 2, ... (the "age" of example/fifo.c), so *)
(* the n-th element accepted is the number n - 1.                          *)
(***************************************************************************)
EXTENDS Naturals, Sequences

CONSTANT Capacity   \* number of elements the queue can hold

VARIABLES queue,    \* accepted and not yet handed out, oldest first
          accepted, \* number of elements accepted so far
          got       \* what the last completed out / peek call returned

absVars == <<queue, accepted, got>>

\* The next k elements of the producer's stream.
Batch(k) == [i \in 1 .. k |-> accepted + i - 1]

AbsInit ==
    /\ queue = <<>>
    /\ accepted = 0
    /\ got = <<>>

\* dl_fifo_in accepts k elements.
Put(k) ==
    /\ k <= Capacity - Len(queue)
    /\ queue' = queue \o Batch(k)
    /\ accepted' = accepted + k
    /\ UNCHANGED got

\* dl_fifo_out removes and returns the k oldest elements.
Get(k) ==
    /\ k <= Len(queue)
    /\ got' = SubSeq(queue, 1, k)
    /\ queue' = SubSeq(queue, k + 1, Len(queue))
    /\ UNCHANGED accepted

\* dl_fifo_out_peek returns the k oldest elements and leaves them.
Peek(k) ==
    /\ k <= Len(queue)
    /\ got' = SubSeq(queue, 1, k)
    /\ UNCHANGED <<queue, accepted>>

AbsNext == \E k \in 0 .. Capacity : Put(k) \/ Get(k) \/ Peek(k)

AbsSpec == AbsInit /\ [][AbsNext]_absVars
================================================================================
