------------------------------- MODULE MultiMap -------------------------------
(***************************************************************************)
(* What a hash or a table promises: a map from keys to the values of each  *)
(* key, none for a key that is not there.  The first value stays first;    *)
(* later ones come behind it, newest first.  A call changes the values of  *)
(* its own key only, and a set fails for want of memory only.              *)
(***************************************************************************)
EXTENDS Sequences, SequencesExt

VARIABLES keys, values,     \* what callers use
          map,      \* key -> its values
          mode,     \* what a second value of a key does
          call,     \* the last call: op, and its key, value and memory
          answer    \* what it answered

vars == <<keys, values, map, mode, call, answer>>

Nothing == [k \in keys |-> <<>>]

\* The calls.  "memory" says whether each of a call's allocations succeeded.
SetCall(k, v, memory) == [op |-> "set", key |-> k, value |-> v, memory |-> memory]
SetRepCall(k, v, memory) == [op |-> "set_rep", key |-> k, value |-> v, memory |-> memory]
DeleteCall(k) == [op |-> "delete", key |-> k]
OtherCall == [op |-> "new"]

Init ==
    /\ map = Nothing
    /\ mode \in {"UNIQUE", "LIST", "REPLACE"}
    /\ call = OtherCall
    /\ answer = "OK"

With(old, v) ==
    CASE old = <<>> \/ mode = "REPLACE" -> <<v>>
      [] old # <<>> /\ mode = "UNIQUE" -> old
      [] old # <<>> /\ mode = "LIST" -> InsertAt(old, 2, v)

\* A set stores the value, or says that the key has one already; for a new key
\* it may find no memory.
Set(k, v, memory) ==
    /\ call' = SetCall(k, v, memory)
    /\ \/ /\ map' = [map EXCEPT ![k] = With(map[k], v)]
          /\ answer' = IF mode = "UNIQUE" /\ map[k] # <<>> THEN "AGAIN" ELSE "OK"
       \/ /\ ~memory /\ map[k] = <<>>
          /\ answer' = "ERROR" /\ UNCHANGED map

\* The old values go first, and are lost when there is no memory then.
SetRep(k, v, memory) ==
    /\ call' = SetRepCall(k, v, memory)
    /\ \/ map' = [map EXCEPT ![k] = <<v>>] /\ answer' = "OK"
       \/ ~memory /\ map' = [map EXCEPT ![k] = <<>>] /\ answer' = "ERROR"

Delete(k) ==
    /\ call' = DeleteCall(k)
    /\ map' = [map EXCEPT ![k] = <<>>]
    /\ UNCHANGED answer

\* The end of a map, and a new one.
Destroy == call' = OtherCall /\ map' = Nothing /\ UNCHANGED answer

Next ==
    /\ UNCHANGED <<keys, values, mode>>
    /\ \/ \E k \in keys, v \in values, memory \in BOOLEAN :
             Set(k, v, memory) \/ SetRep(k, v, memory)
       \/ \E k \in keys : Delete(k)
       \/ Destroy

MultiMapSpec == Init /\ [][Next]_vars
================================================================================
