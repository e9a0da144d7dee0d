--------------------------- MODULE FifoClientsProofs ---------------------------
(***************************************************************************)
(* Proofs about example/fifo_2.c for every number of consumer threads, any *)
(* number of ages and every ring.  The invariant of Fifo carries over,     *)
(* because every step of a thread is a step of Fifo or leaves it alone; on *)
(* top of it lies one for the mutex and one for the ages on their way from *)
(* the ring to the output.                                                 *)
(***************************************************************************)
EXTENDS FifoClients, FifoProofs

-------------------------------------------------------------------------------
(* The inductive invariant.                                                  *)

Locked == {"test", "again", "copy", "unlock"}

TypeOKC ==
    /\ mtx \in Threads \cup {Nobody}
    /\ out_sum \in Nat
    /\ tpc \in [Threads -> Locked \cup {"lock", "print", "done"}]
    /\ age \in [Threads -> Nat \cup {Undef}]
    /\ printed \in [Threads -> Seq(Nat)]

\* A thread between lock and unlock owns the mutex, and nobody else does.
MutexInv == \A t \in Threads : tpc[t] \in Locked <=> mtx = t

\* A thread is inside dl_fifo_out exactly as long as Fifo's consumer is, and asks
\* for one element.
CallInv ==
    /\ cpc # "idle" <=> \E t \in Threads : tpc[t] = "copy"
    /\ cpc # "idle" => cpc = "out" /\ clen \in 0 .. 1

SumInv == out_sum = rcvd

\* An age that thread t has taken and not printed yet.
Pending(t) == tpc[t] \in {"unlock", "print"}

\* What is pending or printed has been handed out by the ring.  What is pending is
\* newer than all that the same thread has printed.
AgesInv ==
    \A t \in Threads :
        /\ \A i \in 1 .. Len(printed[t]) : printed[t][i] < rcvd
        /\ \A i, j \in 1 .. Len(printed[t]) : i < j => printed[t][i] < printed[t][j]
        /\ Pending(t) =>
              /\ age[t] \in 0 .. rcvd - 1
              /\ \A i \in 1 .. Len(printed[t]) : printed[t][i] < age[t]

\* No age is in the hands of two threads.
OwnersInv ==
    \A t, u \in Threads : t # u =>
        /\ Ages(t) \cap Ages(u) = {}
        /\ Pending(t) => age[t] \notin Ages(u)
        /\ Pending(t) /\ Pending(u) => age[t] # age[u]

CInv == TypeOKC /\ MutexInv /\ CallInv /\ SumInv /\ AgesInv /\ OwnersInv
-------------------------------------------------------------------------------
(* The threads as threads of Fifo.                                           *)

\* Every step of the program is a step of Fifo or leaves the ring alone.
LEMMA FifoStep ==
    ASSUME [NextC \/ (Finished /\ UNCHANGED allVars)]_allVars
    PROVE  [Next]_vars
<1>0. 1 \in 0 .. MaxLen
  BY Constants
<1>1. CASE Main
  <2>1. InCall(1) \/ dl_fifo_copy_in \/ InReturn \/ UNCHANGED vars
    BY <1>1 DEF Main, MainSend, MainSentAll, MainJoin
  <2> QED
    BY <1>0, <2>1 DEF Next, Producer
<1>2. ASSUME NEW t \in Threads, Thread(t) PROVE [Next]_vars
  <2>1. OutCall(1, "out") \/ dl_fifo_copy_out \/ OutReturn \/ UNCHANGED vars
    BY <1>2 DEF Thread, Lock, LeaveLoop, EnterAgain, TakeCall, TakeCopy, TakeReturn,
                Unlock, PrintAge
  <2> QED
    BY <1>0, <2>1 DEF Next, Consumer
<1>3. CASE UNCHANGED allVars
  BY <1>3 DEF allVars
<1> QED
  BY <1>1, <1>2, <1>3 DEF NextC

\* Initially no thread has begun.
LEMMA InitCInv == InitC => CInv
<1> SUFFICES ASSUME InitC PROVE CInv
  OBVIOUS
<1>1. TypeOKC
  BY DEF InitC, TypeOKC, Undef
<1>2. MutexInv
  BY ClientsAssumption DEF InitC, MutexInv, Locked
<1>3. CallInv /\ SumInv
  BY DEF InitC, Init, CallInv, SumInv
<1>4. AgesInv /\ OwnersInv
  BY DEF InitC, AgesInv, OwnersInv, Pending, Ages
<1> QED
  BY <1>1, <1>2, <1>3, <1>4 DEF CInv

\* Only one thread is between lock and unlock.
LEMMA OneLocked ==
    ASSUME CInv, NEW t \in Threads, NEW u \in Threads, tpc[t] \in Locked, tpc[u] \in Locked
    PROVE  t = u
BY DEF CInv, MutexInv

-------------------------------------------------------------------------------
(* One lemma per action.                                                     *)

\* A thread that moves between positions with nothing pending before and after
\* leaves the ages as they are.
LEMMA AgesStay ==
    ASSUME AgesInv, OwnersInv, UNCHANGED <<age, printed, rcvd>>,
           \A t \in Threads : Pending(t)' <=> Pending(t)
    PROVE  AgesInv' /\ OwnersInv'
<1>1. \A t \in Threads : Ages(t)' = Ages(t)
  BY DEF Ages
<1>2. AgesInv'
  BY DEF AgesInv
<1>3. OwnersInv'
  BY <1>1 DEF OwnersInv
<1> QED
  BY <1>2, <1>3

\* A step that changes nothing of the consumers.
LEMMA ClientsStay ==
    ASSUME CInv, UNCHANGED <<mtx, out_sum, tpc, age, printed, cpc, clen, rcvd>>
    PROVE  CInv'
<1>1. TypeOKC' /\ MutexInv' /\ CallInv' /\ SumInv'
  BY DEF CInv, TypeOKC, MutexInv, CallInv, SumInv
<1>2. \A t \in Threads : Pending(t)' <=> Pending(t)
  BY DEF Pending
<1> QED
  BY <1>1, <1>2, AgesStay DEF CInv

\* The main thread touches nothing of the consumers.
LEMMA MainCInv == ASSUME CInv, Main PROVE CInv'
<1>1. UNCHANGED <<mtx, out_sum, tpc, age, printed, cpc, clen, rcvd>>
  BY DEF Main, MainSend, MainSentAll, MainJoin, cvarsC, vars, InCall, dl_fifo_copy_in,
         InReturn, cvars
<1> QED
  BY <1>1, ClientsStay

\* pthread_mutex_lock
LEMMA LockCInv == ASSUME CInv, NEW t \in Threads, Lock(t) PROVE CInv'
<1>1. /\ tpc[t] = "lock" /\ mtx = Nobody /\ mtx' = t
      /\ tpc' = [tpc EXCEPT ![t] = "test"]
      /\ UNCHANGED <<out_sum, age, printed, cpc, clen, rcvd>>
  BY DEF Lock, Goto, vars
<1>2. TypeOKC /\ MutexInv /\ CallInv /\ SumInv /\ AgesInv /\ OwnersInv
  BY DEF CInv
<1>3. TypeOKC'
  BY <1>1, <1>2 DEF TypeOKC, Locked
<1>4. MutexInv'
  BY <1>1, <1>2, ClientsAssumption DEF TypeOKC, MutexInv, Locked
<1>5. CallInv' /\ SumInv'
  BY <1>1, <1>2 DEF TypeOKC, CallInv, SumInv
<1>6. \A u \in Threads : Pending(u)' <=> Pending(u)
  BY <1>1, <1>2 DEF TypeOKC, Pending
<1> QED
  BY <1>1, <1>2, <1>3, <1>4, <1>5, <1>6, AgesStay DEF CInv

\* "if (out_sum == DL_FIFO_NUM)": unlock and leave.
LEMMA LeaveLoopCInv == ASSUME CInv, NEW t \in Threads, LeaveLoop(t) PROVE CInv'
<1>1. /\ tpc[t] = "test" /\ mtx' = Nobody
      /\ tpc' = [tpc EXCEPT ![t] = "done"]
      /\ UNCHANGED <<out_sum, age, printed, cpc, clen, rcvd>>
  BY DEF LeaveLoop, Goto, vars
<1>2. TypeOKC /\ MutexInv /\ CallInv /\ SumInv /\ AgesInv /\ OwnersInv
  BY DEF CInv
<1>3. TypeOKC'
  BY <1>1, <1>2 DEF TypeOKC, Locked
<1>4. MutexInv'
  BY <1>1, <1>2, ClientsAssumption DEF TypeOKC, MutexInv, Locked
<1>5. CallInv' /\ SumInv'
  BY <1>1, <1>2 DEF TypeOKC, CallInv, SumInv
<1>6. \A u \in Threads : Pending(u)' <=> Pending(u)
  BY <1>1, <1>2 DEF TypeOKC, Pending
<1> QED
  BY <1>1, <1>2, <1>3, <1>4, <1>5, <1>6, AgesStay DEF CInv

\* Not all taken: on to "again".
LEMMA EnterAgainCInv == ASSUME CInv, NEW t \in Threads, EnterAgain(t) PROVE CInv'
<1>1. /\ tpc[t] = "test"
      /\ tpc' = [tpc EXCEPT ![t] = "again"]
      /\ UNCHANGED <<mtx, out_sum, age, printed, cpc, clen, rcvd>>
  BY DEF EnterAgain, Goto, vars
<1>2. TypeOKC /\ MutexInv /\ CallInv /\ SumInv /\ AgesInv /\ OwnersInv
  BY DEF CInv
<1>3. TypeOKC'
  BY <1>1, <1>2 DEF TypeOKC, Locked
<1>4. MutexInv'
  BY <1>1, <1>2 DEF TypeOKC, MutexInv, Locked
<1>5. CallInv' /\ SumInv'
  BY <1>1, <1>2 DEF TypeOKC, CallInv, SumInv
<1>6. \A u \in Threads : Pending(u)' <=> Pending(u)
  BY <1>1, <1>2 DEF TypeOKC, Pending
<1> QED
  BY <1>1, <1>2, <1>3, <1>4, <1>5, <1>6, AgesStay DEF CInv

\* dl_fifo_out begins: it takes one element or none.
LEMMA TakeCallCInv == ASSUME CInv, IInv, NEW t \in Threads, TakeCall(t) PROVE CInv'
<1>1. /\ tpc[t] = "again" /\ cpc = "idle" /\ cpc' = "out"
      /\ clen' = dl_min(1, Used)
      /\ tpc' = [tpc EXCEPT ![t] = "copy"]
      /\ UNCHANGED <<mtx, out_sum, age, printed, rcvd>>
  BY DEF TakeCall, OutCall, Goto
<1>2. TypeOKC /\ MutexInv /\ CallInv /\ SumInv /\ AgesInv /\ OwnersInv
  BY DEF CInv
<1>3. TypeOKC'
  BY <1>1, <1>2 DEF TypeOKC, Locked
<1>4. MutexInv'
  BY <1>1, <1>2 DEF TypeOKC, MutexInv, Locked
<1>5. clen' \in 0 .. 1
  <2>1. Used \in Nat
    BY ExactUnused DEF IInv, TypeOK, BoundInv
  <2> QED
    BY <1>1, <2>1 DEF dl_min
<1>6. CallInv' /\ SumInv'
  BY <1>1, <1>2, <1>5 DEF TypeOKC, CallInv, SumInv
<1>7. \A u \in Threads : Pending(u)' <=> Pending(u)
  BY <1>1, <1>2 DEF TypeOKC, Pending
<1> QED
  BY <1>1, <1>2, <1>3, <1>4, <1>6, <1>7, AgesStay DEF CInv

\* The copy changes nothing but the thread's buffer.
LEMMA TakeCopyCInv == ASSUME CInv, NEW t \in Threads, TakeCopy(t) PROVE CInv'
<1>1. UNCHANGED <<mtx, out_sum, tpc, age, printed, cpc, clen, rcvd>>
  BY DEF TakeCopy, cvarsC, dl_fifo_copy_out
<1> QED
  BY <1>1, ClientsStay

\* dl_fifo_out returns: the age is the next one of the stream, which nobody has
\* or had, or there was none.
LEMMA TakeReturnCInv == ASSUME CInv, IInv, NEW t \in Threads, TakeReturn(t) PROVE CInv'
<1>1. /\ tpc[t] = "copy" /\ cpc = "out" /\ ctodo = {} /\ cpc' = "idle"
      /\ rcvd' = rcvd + clen
      /\ UNCHANGED <<mtx, printed, clen>>
  BY DEF TakeReturn, OutReturn
<1>2. TypeOKC /\ MutexInv /\ CallInv /\ SumInv /\ AgesInv /\ OwnersInv
  BY DEF CInv
<1>3. rcvd \in Nat
  BY DEF IInv, TypeOK
<1>4. \A u \in Threads : tpc[u] = "copy" => u = t
  BY <1>1, OneLocked DEF Locked
<1>5. CASE clen = 1
  <2>1. dst[0] = rcvd
    <3>1. 0 \in (0 .. clen - 1) \ ctodo
      BY <1>1, <1>5
    <3>2. dst[0] = rcvd + 0
      BY <1>1, <3>1 DEF IInv, ConsumerInv
    <3> QED
      BY <1>3, <3>2
  <2>2. /\ out_sum' = out_sum + 1
        /\ age' = [age EXCEPT ![t] = rcvd]
        /\ tpc' = [tpc EXCEPT ![t] = "unlock"]
        /\ rcvd' = rcvd + 1
    BY <1>1, <1>5, <2>1 DEF TakeReturn, Goto
  <2>3. TypeOKC'
    BY <1>1, <1>2, <1>3, <2>2 DEF TypeOKC, Locked
  <2>4. MutexInv'
    BY <1>1, <1>2, <2>2 DEF TypeOKC, MutexInv, Locked
  <2>5. CallInv'
    BY <1>1, <1>2, <1>4, <2>2 DEF TypeOKC, CallInv
  <2>6. SumInv'
    BY <1>2, <2>2 DEF SumInv
  <2>7. \A u \in Threads :
            /\ Ages(u)' = Ages(u)
            /\ u # t => (Pending(u)' <=> Pending(u)) /\ age'[u] = age[u]
    <3>1. \A u \in Threads : Ages(u)' = Ages(u)
      BY <1>1 DEF Ages
    <3>2. \A u \in Threads : u # t => (Pending(u)' <=> Pending(u)) /\ age'[u] = age[u]
      BY <1>2, <2>2 DEF TypeOKC, Pending
    <3> QED
      BY <3>1, <3>2
  <2>8. age'[t] = rcvd
    BY <1>2, <2>2 DEF TypeOKC
  <2>9. \A u \in Threads : \A a \in Ages(u) : a \in Nat /\ a < rcvd
    BY <1>2 DEF AgesInv, Ages, TypeOKC
  <2>10. AgesInv'
    <3> SUFFICES ASSUME NEW u \in Threads
                 PROVE  /\ \A i \in 1 .. Len(printed[u]) : printed[u][i] < rcvd + 1
                        /\ \A i, j \in 1 .. Len(printed[u]) : i < j => printed[u][i] < printed[u][j]
                        /\ Pending(u)' =>
                              /\ age'[u] \in 0 .. (rcvd + 1) - 1
                              /\ \A i \in 1 .. Len(printed[u]) : printed[u][i] < age'[u]
      BY <1>1, <2>2 DEF AgesInv
    <3>1. \A i \in 1 .. Len(printed[u]) : printed[u][i] \in Nat /\ printed[u][i] < rcvd
      BY <1>2 DEF AgesInv, TypeOKC
    <3>2. CASE u = t
      <4>1. \A i, j \in 1 .. Len(printed[u]) : i < j => printed[u][i] < printed[u][j]
        BY <1>2 DEF AgesInv
      <4>2. Len(printed[u]) \in Nat /\ age'[u] = rcvd
        BY <1>2, <2>8, <3>2 DEF TypeOKC
      <4> QED
        BY <1>3, <3>1, <4>1, <4>2
    <3>3. CASE u # t
      BY <1>2, <1>3, <2>7, <3>1, <3>3 DEF AgesInv
    <3> QED
      BY <3>2, <3>3
  <2>11. OwnersInv'
    <3> SUFFICES ASSUME NEW u \in Threads, NEW v \in Threads, u # v
                 PROVE  /\ Ages(u) \cap Ages(v) = {}
                        /\ Pending(u)' => age'[u] \notin Ages(v)
                        /\ Pending(u)' /\ Pending(v)' => age'[u] # age'[v]
      BY <2>7 DEF OwnersInv
    <3>1. \A w \in Threads : rcvd \notin Ages(w) /\ (Pending(w) => age[w] # rcvd)
      BY <1>2, <1>3, <2>9 DEF AgesInv
    <3> QED
      BY <1>2, <2>7, <2>8, <3>1 DEF OwnersInv
  <2> QED
    BY <2>3, <2>4, <2>5, <2>6, <2>10, <2>11 DEF CInv
<1>6. CASE clen = 0
  <2>1. tpc' = [tpc EXCEPT ![t] = "again"] /\ UNCHANGED <<out_sum, age, rcvd>>
    BY <1>1, <1>3, <1>6 DEF TakeReturn, Goto
  <2>2. TypeOKC'
    BY <1>1, <1>2, <2>1 DEF TypeOKC, Locked
  <2>3. MutexInv'
    BY <1>1, <1>2, <2>1 DEF TypeOKC, MutexInv, Locked
  <2>4. CallInv' /\ SumInv'
    BY <1>1, <1>2, <1>4, <2>1 DEF TypeOKC, CallInv, SumInv
  <2>5. \A u \in Threads : Pending(u)' <=> Pending(u)
    BY <1>1, <1>2, <2>1 DEF TypeOKC, Pending
  <2> QED
    BY <1>1, <1>2, <2>1, <2>2, <2>3, <2>4, <2>5, AgesStay DEF CInv
<1> QED
  BY <1>1, <1>2, <1>5, <1>6 DEF CallInv

\* pthread_mutex_unlock, with the age still to be printed.
LEMMA UnlockCInv == ASSUME CInv, NEW t \in Threads, Unlock(t) PROVE CInv'
<1>1. /\ tpc[t] = "unlock" /\ mtx' = Nobody
      /\ tpc' = [tpc EXCEPT ![t] = "print"]
      /\ UNCHANGED <<out_sum, age, printed, cpc, clen, rcvd>>
  BY DEF Unlock, Goto, vars
<1>2. TypeOKC /\ MutexInv /\ CallInv /\ SumInv /\ AgesInv /\ OwnersInv
  BY DEF CInv
<1>3. TypeOKC'
  BY <1>1, <1>2 DEF TypeOKC, Locked
<1>4. MutexInv'
  BY <1>1, <1>2, ClientsAssumption DEF TypeOKC, MutexInv, Locked
<1>5. CallInv' /\ SumInv'
  BY <1>1, <1>2 DEF TypeOKC, CallInv, SumInv
<1>6. \A u \in Threads : Pending(u)' <=> Pending(u)
  BY <1>1, <1>2 DEF TypeOKC, Pending
<1> QED
  BY <1>1, <1>2, <1>3, <1>4, <1>5, <1>6, AgesStay DEF CInv

\* printf: the pending age is printed, which is newer than all before it.
LEMMA PrintAgeCInv == ASSUME CInv, IInv, NEW t \in Threads, PrintAge(t) PROVE CInv'
<1>1. /\ tpc[t] = "print"
      /\ printed' = [printed EXCEPT ![t] = Append(@, age[t])]
      /\ tpc' = [tpc EXCEPT ![t] = "lock"]
      /\ UNCHANGED <<mtx, out_sum, age, cpc, clen, rcvd>>
  BY DEF PrintAge, Goto, vars
<1>2. TypeOKC /\ MutexInv /\ CallInv /\ SumInv /\ AgesInv /\ OwnersInv
  BY DEF CInv
<1>3. rcvd \in Nat
  BY DEF IInv, TypeOK
<1> DEFINE s == printed[t]
           n == Len(printed[t])
           a == age[t]
<1>4. /\ s \in Seq(Nat) /\ n \in Nat /\ a \in 0 .. rcvd - 1
      /\ \A i \in 1 .. n : s[i] \in Nat /\ s[i] < a /\ s[i] < rcvd
      /\ \A i, j \in 1 .. n : i < j => s[i] < s[j]
  BY <1>1, <1>2 DEF TypeOKC, AgesInv, Pending
<1>5. printed'[t] = Append(s, a) /\ \A u \in Threads : u # t => printed'[u] = printed[u]
  BY <1>1, <1>2 DEF TypeOKC
<1>6. \A u \in Threads : Pending(u)' <=> Pending(u) /\ u # t
  BY <1>1, <1>2 DEF TypeOKC, Pending
<1>7. TypeOKC'
  <2>1. Append(s, a) \in Seq(Nat)
    BY <1>3, <1>4
  <2> QED
    BY <1>1, <1>2, <2>1 DEF TypeOKC
<1>8. MutexInv'
  BY <1>1, <1>2 DEF TypeOKC, MutexInv, Locked
<1>9. CallInv' /\ SumInv'
  BY <1>1, <1>2 DEF TypeOKC, CallInv, SumInv
<1>10. Ages(t)' = Ages(t) \cup {a} /\ \A u \in Threads : u # t => Ages(u)' = Ages(u)
  <2> HIDE DEF a
  <2>1. /\ Len(Append(s, a)) = n + 1
        /\ \A i \in 1 .. n : Append(s, a)[i] = s[i]
        /\ Append(s, a)[n + 1] = a
    BY <1>4
  <2>2. {Append(s, a)[i] : i \in 1 .. n + 1} = {s[i] : i \in 1 .. n} \cup {a}
    BY <1>4, <2>1
  <2> QED
    BY <1>5, <2>1, <2>2 DEF Ages, a
<1>11. AgesInv'
  <2> SUFFICES ASSUME NEW u \in Threads
               PROVE  /\ \A i \in 1 .. Len(printed'[u]) : printed'[u][i] < rcvd
                      /\ \A i, j \in 1 .. Len(printed'[u]) : i < j => printed'[u][i] < printed'[u][j]
                      /\ Pending(u)' =>
                            /\ age[u] \in 0 .. rcvd - 1
                            /\ \A i \in 1 .. Len(printed'[u]) : printed'[u][i] < age[u]
    BY <1>1 DEF AgesInv
  <2>1. CASE u # t
    BY <1>2, <1>5, <1>6, <2>1 DEF AgesInv
  <2>2. CASE u = t
    <3> HIDE DEF a, s
    <3>1. /\ Len(Append(s, a)) = n + 1
          /\ \A i \in 1 .. n : Append(s, a)[i] = s[i]
          /\ Append(s, a)[n + 1] = a
      BY <1>4 DEF s
    <3>2. \A i \in 1 .. n + 1 : i \in 1 .. n \/ i = n + 1
      BY <1>4
    <3>3. \A i \in 1 .. n + 1 : Append(s, a)[i] < rcvd
      BY <1>3, <1>4, <3>1, <3>2
    <3>4. \A i, j \in 1 .. n + 1 : i < j => Append(s, a)[i] < Append(s, a)[j]
      BY <1>4, <3>1, <3>2
    <3> QED
      BY <1>5, <1>6, <2>2, <3>1, <3>3, <3>4
  <2> QED
    BY <2>1, <2>2
<1>12. OwnersInv'
  <2> SUFFICES ASSUME NEW u \in Threads, NEW v \in Threads, u # v
               PROVE  /\ Ages(u)' \cap Ages(v)' = {}
                      /\ Pending(u)' => age[u] \notin Ages(v)'
                      /\ Pending(u)' /\ Pending(v)' => age[u] # age[v]
    BY <1>1 DEF OwnersInv
  <2>1. Pending(t)
    BY <1>1 DEF Pending
  <2>2. CASE u = t
    BY <1>2, <1>6, <1>10, <2>1, <2>2 DEF OwnersInv
  <2>3. CASE v = t
    BY <1>2, <1>6, <1>10, <2>1, <2>3 DEF OwnersInv
  <2>4. CASE u # t /\ v # t
    BY <1>2, <1>6, <1>10, <2>4 DEF OwnersInv
  <2> QED
    BY <2>2, <2>3, <2>4
<1> QED
  BY <1>7, <1>8, <1>9, <1>11, <1>12 DEF CInv

-------------------------------------------------------------------------------
(* Theorems.                                                                 *)

\* No step of any thread breaks the invariant.
LEMMA StepCInv ==
    CInv /\ IInv /\ [NextC \/ (Finished /\ UNCHANGED allVars)]_allVars => CInv'
<1> SUFFICES ASSUME CInv, IInv, [NextC \/ (Finished /\ UNCHANGED allVars)]_allVars
             PROVE  CInv'
  OBVIOUS
<1>1. CASE Main
  BY <1>1, MainCInv
<1>2. ASSUME NEW t \in Threads, Thread(t) PROVE CInv'
  BY <1>2, LockCInv, LeaveLoopCInv, EnterAgainCInv, TakeCallCInv, TakeCopyCInv,
     TakeReturnCInv, UnlockCInv, PrintAgeCInv DEF Thread
<1>3. CASE UNCHANGED allVars
  BY <1>3, ClientsStay DEF allVars, vars, cvarsC
<1> QED
  BY <1>1, <1>2, <1>3 DEF NextC

\* Both invariants hold in every reachable state of the program.
THEOREM ClientsInvariance == SpecC => [](IInv /\ CInv)
<1>1. InitC => IInv /\ CInv
  BY InitIInv, InitCInv DEF InitC
<1>2. IInv /\ CInv /\ [NextC \/ (Finished /\ UNCHANGED allVars)]_allVars => (IInv /\ CInv)'
  BY FifoStep, StepIInv, StepCInv
<1> QED
  BY <1>1, <1>2, PTL DEF SpecC

\* The mutex keeps dl_fifo_out calls apart, and out_sum is what the ring has
\* handed out.
THEOREM LockProtectsOutAlways == SpecC => []LockProtectsOut
<1>1. CInv => LockProtectsOut
  BY DEF CInv, MutexInv, CallInv, SumInv, LockProtectsOut, Locked
<1> QED
  BY ClientsInvariance, <1>1, PTL

\* No age is printed twice, each thread prints in the order sent, and what is
\* printed has been sent.
THEOREM EachAgeOnceAlways == SpecC => []EachAgeOnce
<1>1. IInv /\ CInv => EachAgeOnce
  <2> SUFFICES ASSUME IInv, CInv PROVE EachAgeOnce
    OBVIOUS
  <2>1. TypeOKC /\ AgesInv /\ OwnersInv
    BY DEF CInv
  <2>2. rcvd \in Nat /\ sent \in Nat /\ rcvd <= sent
    BY DEF IInv, TypeOK, BoundInv
  <2>3. ASSUME NEW t \in Threads PROVE Ages(t) \subseteq 0 .. sent - 1
    BY <2>1, <2>2 DEF TypeOKC, AgesInv, Ages
  <2> QED
    BY <2>1, <2>3 DEF AgesInv, OwnersInv, EachAgeOnce
<1> QED
  BY ClientsInvariance, <1>1, PTL
================================================================================
