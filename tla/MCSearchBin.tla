---------------------------- MODULE MCSearchBin ----------------------------
(* All tables up to a length over a few ids, sorted or not, with repetitions. *)
EXTENDS SearchBin, TLC
CONSTANTS MaxLen, MaxKey
SomeTables == UNION {[1 .. n -> [id : 1 .. MaxKey]] : n \in 0 .. MaxLen}
SomeKeys   == 0 .. MaxKey + 1
=============================================================================
