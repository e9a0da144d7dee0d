-------------------------------- MODULE MCHash --------------------------------
(***************************************************************************)
(* Keys and values for a run of Hash alone.                                *)
(***************************************************************************)
EXTENDS Hash

\* The first is as long as dl_hash_key looks, and a prefix of the second.
PrefixKeys == {<<1, 2>>, <<1, 2, 3>>}

OneValue == {[tt |-> "VOID", v |-> 1]}
================================================================================
