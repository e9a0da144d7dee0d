--------------------------------- MODULE Fifo ---------------------------------
(***************************************************************************)
(* dl_fifo.c: the ring buffer shared without a lock by one producer thread *)
(* (dl_fifo_in) and one consumer thread (dl_fifo_out, dl_fifo_out_peek).   *)
(*                                                                         *)
(* A call is split at its accesses to shared memory: the read of the other *)
(* side's index, one step per element copied, and the store that publishes *)
(* the own index.  dl_barrier() forbids the compiler to move that store    *)
(* before the copy; the model takes stores to become visible in program    *)
(* order (x86-TSO), which the README discusses.                            *)
(*                                                                         *)
(* The payload is never inspected by the code, so the k-th element of the  *)
(* producer's stream is the number k - 1, as in example/fifo.c.            *)
(***************************************************************************)
EXTENDS Integers, Sequences

CONSTANTS Size,     \* mask + 1, number of elements of the ring
          UintMod,  \* number of values of an unsigned int, 2^32 in the code
          MaxLen,   \* largest len a caller asks for
          MaxTotal  \* bound: length of the producer's stream

\* dl_fifo_init makes Size a power of two of at least 2 and at most 2^31, so
\* it divides the range of unsigned int at least twice.
ASSUME FifoAssumption ==
    /\ Size \in Nat /\ Size >= 2
    /\ UintMod \in Nat
    /\ UintMod > Size /\ UintMod % Size = 0
    /\ MaxLen \in Nat \ {0}
    /\ MaxTotal \in Nat

Undef == -1         \* contents of memory nobody has written

Idx == 0 .. Size - 1
Arg == 0 .. MaxLen - 1

VARIABLES
    in, out,        \* fifo->in and fifo->out
    data,           \* fifo->data
    ppc, plen, ptodo,       \* producer: position, len, elements still to copy
    cpc, clen, ctodo, dst,  \* consumer: likewise, and the caller's buffer
    sent, rcvd,     \* history: elements accepted / handed out so far
    got             \* history: result of the last completed out or peek

pvars == <<ppc, plen, ptodo, sent>>
cvars == <<cpc, clen, ctodo, dst, rcvd, got>>
vars == <<in, out, data, ppc, plen, ptodo, cpc, clen, ctodo, dst, sent, rcvd, got>>

dl_min(a, b) == IF a > b THEN b ELSE a

\* Mutant: the difference is not taken in unsigned arithmetic.
UsedSigned == in - out

\* Unsigned subtraction in - out.
Used == (in - out) % UintMod

\* Mutant: one slot too many is offered.
UnusedOffByOne == (Size + 1 - Used) % UintMod

dl_fifo_unused == (Size - Used) % UintMod

\* Slot of element j of a batch that starts at index pos: the first memcpy
\* goes up to the end of the ring, the second one starts again at slot 0.
Split(len, pos) == dl_min(len, Size - (pos % Size))
Slot(len, pos, j) ==
    IF j < Split(len, pos) THEN (pos % Size) + j ELSE j - Split(len, pos)

\* The second memcpy starts only when the first one is complete; the order in
\* which one memcpy stores its elements is unspecified.
Eligible(todo, len, pos, j) ==
    j < Split(len, pos) \/ \A i \in todo : i >= Split(len, pos)

Init ==
    /\ in = 0 /\ out = 0
    /\ data = [i \in Idx |-> Undef]
    /\ ppc = "idle" /\ plen = 0 /\ ptodo = {}
    /\ cpc = "idle" /\ clen = 0 /\ ctodo = {}
    /\ dst = [j \in Arg |-> Undef]
    /\ sent = 0 /\ rcvd = 0
    /\ got = <<>>

-------------------------------------------------------------------------------
(* Producer: dl_fifo_in(fifo, buf, n).                                       *)

InCall(n) ==
    /\ ppc = "idle"
    /\ sent + n <= MaxTotal
    /\ ppc' = "copy"
    /\ plen' = dl_min(n, dl_fifo_unused)
    /\ ptodo' = 0 .. plen' - 1
    /\ UNCHANGED <<in, out, data, sent, cvars>>

dl_fifo_copy_in ==
    /\ ppc = "copy"
    /\ \E j \in ptodo :
          /\ Eligible(ptodo, plen, in, j)
          /\ data' = [data EXCEPT ![Slot(plen, in, j)] = sent + j]
          /\ ptodo' = ptodo \ {j}
    /\ UNCHANGED <<in, out, ppc, plen, sent, cvars>>

\* Mutant: in is published before the copy is complete.
InReturnBeforeCopy ==
    /\ ppc = "copy"
    /\ in' = (in + plen) % UintMod
    /\ sent' = sent + plen
    /\ ppc' = "idle"
    /\ UNCHANGED <<out, data, plen, ptodo, cvars>>

\* Mutant: in is wider than unsigned int.
InReturnWide ==
    /\ ppc = "copy"
    /\ ptodo = {}
    /\ in' = in + plen
    /\ sent' = sent + plen
    /\ ppc' = "idle"
    /\ UNCHANGED <<out, data, plen, ptodo, cvars>>

InReturn ==
    /\ ppc = "copy"
    /\ ptodo = {}
    /\ in' = (in + plen) % UintMod
    /\ sent' = sent + plen
    /\ ppc' = "idle"
    /\ UNCHANGED <<out, data, plen, ptodo, cvars>>

-------------------------------------------------------------------------------
(* Consumer: dl_fifo_out(fifo, buf, n) and dl_fifo_out_peek(fifo, buf, n).   *)

OutCall(n, op) ==
    /\ cpc = "idle"
    /\ cpc' = op
    /\ clen' = dl_min(n, Used)
    /\ ctodo' = 0 .. clen' - 1
    /\ dst' = [j \in Arg |-> Undef]
    /\ UNCHANGED <<in, out, data, pvars, rcvd, got>>

dl_fifo_copy_out ==
    /\ cpc # "idle"
    /\ \E j \in ctodo :
          /\ Eligible(ctodo, clen, out, j)
          /\ dst' = [dst EXCEPT ![j] = data[Slot(clen, out, j)]]
          /\ ctodo' = ctodo \ {j}
    /\ UNCHANGED <<in, out, data, pvars, cpc, clen, rcvd, got>>

Returned == [i \in 1 .. clen |-> dst[i - 1]]

\* Mutant: out is published before the copy is complete.
OutReturnBeforeCopy ==
    /\ cpc = "out"
    /\ out' = (out + clen) % UintMod
    /\ rcvd' = rcvd + clen
    /\ got' = Returned
    /\ cpc' = "idle"
    /\ UNCHANGED <<in, data, pvars, clen, ctodo, dst>>

\* Mutant: dl_fifo_out forgets to advance out.
OutReturnKeepsOut ==
    /\ cpc = "out"
    /\ ctodo = {}
    /\ rcvd' = rcvd + clen
    /\ got' = Returned
    /\ cpc' = "idle"
    /\ UNCHANGED <<in, out, data, pvars, clen, ctodo, dst>>

\* dl_fifo_out: out is advanced after the copy.
OutReturn ==
    /\ cpc = "out"
    /\ ctodo = {}
    /\ out' = (out + clen) % UintMod
    /\ rcvd' = rcvd + clen
    /\ got' = Returned
    /\ cpc' = "idle"
    /\ UNCHANGED <<in, data, pvars, clen, ctodo, dst>>

\* dl_fifo_out_peek leaves out alone.
PeekReturn ==
    /\ cpc = "peek"
    /\ ctodo = {}
    /\ got' = Returned
    /\ cpc' = "idle"
    /\ UNCHANGED <<in, out, data, pvars, clen, ctodo, dst, rcvd>>

-------------------------------------------------------------------------------

Producer == (\E n \in 0 .. MaxLen : InCall(n)) \/ dl_fifo_copy_in \/ InReturn

Consumer ==
    \/ \E n \in 0 .. MaxLen : OutCall(n, "out") \/ OutCall(n, "peek")
    \/ dl_fifo_copy_out
    \/ OutReturn
    \/ PeekReturn

Next == Producer \/ Consumer

Spec == Init /\ [][Next]_vars

-------------------------------------------------------------------------------
(* Properties.                                                               *)

\* Every variable stays in its set; the indices stay in unsigned int.
TypeOK ==
    /\ in \in 0 .. UintMod - 1 /\ out \in 0 .. UintMod - 1
    /\ data \in [Idx -> Nat \cup {Undef}]
    /\ ppc \in {"idle", "copy"} /\ cpc \in {"idle", "out", "peek"}
    /\ plen \in 0 .. MaxLen /\ clen \in 0 .. MaxLen
    /\ ptodo \in SUBSET Arg /\ ctodo \in SUBSET Arg
    /\ dst \in [Arg -> Nat \cup {Undef}]
    /\ sent \in Nat /\ rcvd \in Nat
    /\ got \in Seq(Nat \cup {Undef})

\* The comment on dl_barrier says that in and out need no lock against each
\* other: a slot that dl_fifo_copy_in may be storing into is never one that
\* dl_fifo_copy_out may be loading from, whatever the two threads do and
\* although each decides on the other's index as it was when its call began.
NoConcurrentSlotAccess ==
    ppc = "copy" =>
        \A i \in 0 .. plen - 1 :
            cpc # "idle" =>
                \A j \in 0 .. clen - 1 : Slot(plen, in, i) # Slot(clen, out, j)

\* A finished copy-out has filled the caller's buffer with exactly the elements
\* that follow the ones handed out before: nothing lost, repeated, reordered
\* or read before it was written, also across the wrap of in and out.
InOrderDelivery ==
    (cpc # "idle" /\ ctodo = {}) =>
        \A j \in 0 .. clen - 1 : dst[j] = rcvd + j

\* dl_fifo_unused is never wrapped below zero: the elements accepted and not
\* yet handed out are what in - out says and never exceed the ring.
NeverOverfull ==
    /\ sent - rcvd = Used
    /\ Used <= Size

\* The elements the ring holds, oldest first, as the indices delimit them.
Contents == [i \in 1 .. Used |-> data[(out + i - 1) % Size]]

Abs == INSTANCE BoundedFifo WITH
           Capacity <- Size, queue <- Contents, accepted <- sent, got <- got

\* The ring implements the bounded queue: every step of either thread is one
\* atomic Put, Get or Peek or is invisible.
RefinesBoundedFifo == Abs!AbsSpec
================================================================================
